-------------------------------- MODULE Dict --------------------------------
(* hiredis/dict.c: the hash table with chains in which async.c keeps the     *)
(* callbacks of subscriptions, instantiated as callbackDict does: the key is *)
(* handed over to the table, the value is duplicated into a cell of its own  *)
(* that the table frees.                                                     *)
(*                                                                           *)
(* The addresses of entries are abstracted to their keys (a key has at most  *)
(* one entry).  The cells of the values are kept, since freeing one too      *)
(* early or never is what a table can get wrong; a key has two, as many as   *)
(* dictReplace uses at a time.                                               *)
EXTENDS Integers, Sequences, FiniteSets, SequencesExt

CONSTANTS
  Keys,           \* names of channels or patterns
  Hash,           \* callbackHash: a number for each key
  Callbacks,      \* values that are stored
  InitialSize,    \* DICT_HT_INITIAL_SIZE
  NoCallback, NoKey

ASSUME DictAssumption ==
  /\ IsFiniteSet(Keys) /\ Hash \in [Keys -> Nat]
  /\ InitialSize \in Nat \ {0}
  /\ NoCallback \notin Callbacks \cup Keys /\ NoKey \notin Keys

VARIABLES
  table,    \* ht->table: slot -> chain of entries; the empty function is NULL
  used,     \* ht->used
  heap,     \* cell -> the callback in it, or NoCallback when it is free
  iter,     \* the iterator, and whether there is one
  seen,     \* history: the keys the iterator has returned
  result    \* what the last call returned

vars == <<table, used, heap, iter, seen, result>>

Cells == Keys \X {1, 2}

size == Cardinality(DOMAIN table)
Slots(n) == 0 .. n - 1
EmptyTable == [i \in {} |-> <<>>]

Entries == [key : Keys, val : Cells]
ChainOf(t, k) == t[Hash[k] % Cardinality(DOMAIN t)]
KeysIn(chain) == {chain[i].key : i \in 1 .. Len(chain)}

\* The entry dictCompareHashKeys finds in the chain of k.
Has(t, k) == DOMAIN t # {} /\ k \in KeysIn(ChainOf(t, k))
Position(chain, k) == CHOOSE i \in 1 .. Len(chain) : chain[i].key = k
EntryOf(t, k) == ChainOf(t, k)[Position(ChainOf(t, k), k)]

\* All entries, slot after slot: those of the first i slots, and of all of them.
EntriesUpTo(t) ==
  LET upto[i \in 0 .. Cardinality(DOMAIN t)] ==
        IF i = 0 THEN <<>> ELSE upto[i - 1] \o t[i - 1]
  IN upto
AllEntries(t) == EntriesUpTo(t)[Cardinality(DOMAIN t)]

NoIter == [on |-> FALSE, index |-> -1, entry |-> NoKey, next |-> NoKey]

TypeOK ==
  /\ DOMAIN table = Slots(size)
  /\ \A i \in DOMAIN table : table[i] \in Seq(Entries)
  /\ used \in 0 .. Cardinality(Keys)
  /\ heap \in [Cells -> Callbacks \cup {NoCallback}]
  /\ iter \in [on : BOOLEAN, index : -1 .. size,
               entry : Keys \cup {NoKey}, next : Keys \cup {NoKey}]
  /\ Range(seen) \subseteq Keys
  /\ result \in BOOLEAN \cup Keys \cup Callbacks \cup {NoCallback}

\* dictCreate.
Init ==
  /\ table = EmptyTable /\ used = 0
  /\ heap = [c \in Cells |-> NoCallback]
  /\ iter = NoIter /\ seen = <<>> /\ result = NoCallback

-----------------------------------------------------------------------------
(* Private functions.                                                        *)

\* _dictNextPower: the initial size, doubled until it is enough.
Doubled(n) ==
  LET size2[i \in 0 .. n] == IF i = 0 THEN InitialSize ELSE 2 * size2[i - 1]
  IN size2
NextPower(n) ==
  LET powers == {Doubled(n)[i] : i \in 0 .. n} IN
  CHOOSE p \in powers : p >= n /\ \A q \in powers : q >= n => p <= q

\* The first m of the entries pushed one by one on the chains of n slots.
Pushed(all, n) ==
  LET push[m \in 0 .. Len(all)] ==
        IF m = 0 THEN [h \in Slots(n) |-> <<>>]
        ELSE [push[m - 1] EXCEPT ![Hash[all[m].key] % n] = <<all[m]>> \o @]
  IN push

\* Fault: of every chain only the first entry is moved.
ExpandHeads(t, n) ==
  LET heads == [i \in DOMAIN t |-> IF t[i] = <<>> THEN <<>> ELSE <<Head(t[i])>>]
      all == AllEntries(heads)
  IN Pushed(all, NextPower(n))[Len(all)]

\* dictExpand: every entry is pushed on the chain of its new slot, in the
\* order of the old table, which turns the order of a chain round.
Expand(t, n) ==
  LET all == AllEntries(t) IN Pushed(all, NextPower(n))[Len(all)]

\* _dictExpandIfNeeded, which _dictKeyIndex calls before it looks for the key.
Expanded ==
  IF size = 0 THEN Expand(table, InitialSize)
  ELSE IF size = used THEN Expand(table, size * 2)
  ELSE table

-----------------------------------------------------------------------------
(* The interface.  Only the entry that an iterator has returned last may be  *)
(* deleted while it is in use, and nothing may be added.                     *)

\* callbackValDup: a free cell for a copy of the callback of k.
Fresh(k) == <<k, IF heap[<<k, 1>>] = NoCallback THEN 1 ELSE 2>>

\* Fault: the value that is replaced is not freed.
ReplaceLeaks(k, cb) ==
  LET t == Expanded
      c == Fresh(k)
      i == Hash[k] % Cardinality(DOMAIN t)
  IN
  /\ ~iter.on
  /\ IF Has(t, k)
     THEN /\ table' = [t EXCEPT ![i] =
                         [j \in DOMAIN @ |-> IF @[j].key = k
                                             THEN [key |-> k, val |-> c] ELSE @[j]]]
          /\ heap' = [heap EXCEPT ![c] = cb]
          /\ result' = FALSE /\ UNCHANGED used
     ELSE /\ table' = [t EXCEPT ![i] = <<[key |-> k, val |-> c]>> \o @]
          /\ heap' = [heap EXCEPT ![c] = cb]
          /\ used' = used + 1 /\ result' = TRUE
  /\ UNCHANGED <<iter, seen>>

\* dictReplace: dictAdd puts a new entry at the head of its chain; for a key
\* that is there the new value is set and then the old one freed.
DictReplace(k, cb) ==
  LET t == Expanded
      c == Fresh(k)
      i == Hash[k] % Cardinality(DOMAIN t)
  IN
  /\ ~iter.on
  /\ IF Has(t, k)
     THEN /\ table' = [t EXCEPT ![i] =
                         [j \in DOMAIN @ |-> IF @[j].key = k
                                             THEN [key |-> k, val |-> c] ELSE @[j]]]
          /\ heap' = [heap EXCEPT ![c] = cb, ![EntryOf(t, k).val] = NoCallback]
          /\ result' = FALSE /\ UNCHANGED used
     ELSE /\ table' = [t EXCEPT ![i] = <<[key |-> k, val |-> c]>> \o @]
          /\ heap' = [heap EXCEPT ![c] = cb]
          /\ used' = used + 1 /\ result' = TRUE
  /\ UNCHANGED <<iter, seen>>

\* dictFind.
DictFind(k) ==
  /\ result' = IF Has(table, k) THEN heap[EntryOf(table, k).val] ELSE NoCallback
  /\ UNCHANGED <<table, used, heap, iter, seen>>

\* Fault: the head of the chain is set to what follows the entry.
UnlinkPrefix(chain, k) == SubSeq(chain, Position(chain, k) + 1, Len(chain))

\* Unlink the entry of k from its chain.
Unlink(chain, k) == RemoveAt(chain, Position(chain, k))

\* dictDelete.
DictDelete(k) ==
  /\ iter.on => iter.entry = k
  /\ IF Has(table, k)
     THEN /\ table' = [table EXCEPT ![Hash[k] % size] = Unlink(@, k)]
          /\ heap' = [heap EXCEPT ![EntryOf(table, k).val] = NoCallback]
          /\ used' = used - 1 /\ result' = TRUE
     ELSE result' = FALSE /\ UNCHANGED <<table, heap, used>>
  /\ UNCHANGED <<iter, seen>>

\* dictRelease, from _dictClear on: the walk stops when used has come to zero.
DictRelease ==
  LET all == AllEntries(table)
      freed == {all[i].val : i \in {j \in DOMAIN all : j <= used}}
  IN
  /\ ~iter.on
  /\ heap' = [c \in Cells |-> IF c \in freed THEN NoCallback ELSE heap[c]]
  /\ table' = EmptyTable /\ used' = 0 /\ result' = NoCallback
  /\ UNCHANGED <<iter, seen>>

DictGetIterator ==
  /\ ~iter.on
  /\ iter' = [NoIter EXCEPT !.on = TRUE] /\ seen' = <<>>
  /\ UNCHANGED <<table, used, heap, result>>

\* The entry after that of k in its chain, as a key.
After(k) ==
  LET chain == ChainOf(table, k)
      i == Position(chain, k)
  IN IF i = Len(chain) THEN NoKey ELSE chain[i + 1].key

\* The first slot from i on that is not empty; size when there is none.
FirstFilled(i) ==
  LET filled == {j \in i .. size - 1 : table[j] # <<>>} IN
  IF filled = {} THEN size ELSE CHOOSE j \in filled : \A m \in filled : j <= m

\* Fault: the slot is left after its first entry.
DictNextHeads ==
  LET slot == FirstFilled(iter.index + 1)
      k == IF slot < size THEN Head(table[slot]).key ELSE NoKey
  IN
  /\ iter.on /\ iter.index < size
  /\ iter' = [on |-> TRUE, index |-> slot, entry |-> k, next |-> NoKey]
  /\ IF k = NoKey THEN result' = NoCallback /\ UNCHANGED seen
                  ELSE result' = k /\ seen' = Append(seen, k)
  /\ UNCHANGED <<table, used, heap>>

\* dictNext: on in the chain by the entry saved before, which survives that
\* the user deletes the entry he was given, else to the next filled slot.
DictNext ==
  LET onward == iter.entry # NoKey /\ iter.next # NoKey
      slot == FirstFilled(iter.index + 1)
      k == IF onward THEN iter.next
           ELSE IF slot < size THEN Head(table[slot]).key
           ELSE NoKey
  IN
  /\ iter.on /\ iter.index < size
  /\ iter' = [on    |-> TRUE,
              index |-> IF onward THEN iter.index ELSE slot,
              entry |-> k,
              next  |-> IF k = NoKey THEN NoKey ELSE After(k)]
  /\ IF k = NoKey THEN result' = NoCallback /\ UNCHANGED seen
                  ELSE result' = k /\ seen' = Append(seen, k)
  /\ UNCHANGED <<table, used, heap>>

DictReleaseIterator ==
  /\ iter.on
  /\ iter' = NoIter /\ seen' = <<>>
  /\ UNCHANGED <<table, used, heap, result>>

Next ==
  \/ \E k \in Keys :
       DictFind(k) \/ DictDelete(k)
       \/ \E cb \in Callbacks : DictReplace(k, cb)
  \/ DictRelease
  \/ DictGetIterator \/ DictNext \/ DictReleaseIterator

Spec == Init /\ [][Next]_vars

-----------------------------------------------------------------------------
(* What is expected of the table.                                            *)

\* Every entry is in the slot its key hashes to, after every growth; no key
\* has two entries, and used counts them: a search looks at one chain only.
\* (With the types.)
WellPlaced ==
  LET all == AllEntries(table) IN
  /\ TypeOK
  /\ \A i \in DOMAIN table : \A k \in KeysIn(table[i]) : Hash[k] % size = i
  /\ Cardinality(KeysIn(all)) = Len(all)
  /\ used = Len(all)

\* Every copy of a value is in one entry of the table: none is freed while it
\* is used, none is left behind when it is replaced or deleted.
ValuesOwned ==
  LET all == AllEntries(table)
      held == {all[i].val : i \in 1 .. Len(all)}
  IN
  /\ Cardinality(held) = Len(all)
  /\ held = {c \in Cells : heap[c] # NoCallback}

\* An iterator returns no entry twice, and when it ends it has returned every
\* entry there is, those included that were behind a deleted one.
VisitsEachOnce ==
  iter.on =>
    /\ Cardinality(Range(seen)) = Len(seen)
    /\ iter.index = size => KeysIn(AllEntries(table)) \subseteq Range(seen)

\* The table is a map from names to callbacks.
Map == INSTANCE CallbackMap WITH
  map <- [k \in Keys |-> IF Has(table, k) THEN heap[EntryOf(table, k).val]
                                          ELSE NoCallback]
ImplementsMap == Map!Spec
=============================================================================
