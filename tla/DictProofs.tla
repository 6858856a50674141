----------------------------- MODULE DictProofs -----------------------------
(* Theorems about the dictionary, for every set of keys, every hash function *)
(* and every initial size: every entry is found where it is looked for,      *)
(* every value is freed once, an iterator visits every entry once, and the   *)
(* table is a map.                                                           *)
EXTENDS Dict, FiniteSetTheorems, SequenceTheorems, WellFoundedInduction, TLAPS

-----------------------------------------------------------------------------
(* The least number of a set, and with it functions on numbers that are      *)
(* defined by recursion.                                                     *)

Less == {p \in Nat \X Nat : p[1] < p[2]}

LEMMA LeastNumber ==
  ASSUME NEW T \in SUBSET Nat, T # {}
  PROVE  \E m \in T : \A n \in T : m <= n
PROOF
  <1>1. IsWellFoundedOn(Less, Nat)
    BY NatLessThanWellFounded, Zenon DEF OpToRel, Less
  <1>2. \E m \in T : \A n \in T : ~(<<n, m>> \in Less)
    BY <1>1, WFMin
  <1>3. \A m, n \in Nat : <<n, m>> \notin Less => m <= n
    <2> SUFFICES ASSUME NEW m \in Nat, NEW n \in Nat, ~(m <= n)
                 PROVE  <<n, m>> \in Less
      OBVIOUS
    <2> QED
      BY DEF Less
  <1> QED
    BY <1>2, <1>3, Zenon

\* f is built up from the start x by a step at a time; g follows such steps as
\* long as it stays among the values X.
Built(n, X, x, step, f) ==
  f \in [0 .. n -> X] /\ f[0] = x /\ \A i \in 1 .. n : f[i] = step[i][f[i - 1]]
Follows(n, X, x, step, g) ==
  /\ g = [i \in 0 .. n |-> g[i]] /\ g[0] = x
  /\ \A i \in 1 .. n : g[i - 1] \in X => g[i] = step[i][g[i - 1]]

\* There is a function that is built up.
LEMMA Recursion ==
  ASSUME NEW n \in Nat, NEW X, NEW x \in X, NEW step \in [1 .. n -> [X -> X]]
  PROVE  \E f : Built(n, X, x, step, f)
PROOF
  <1> DEFINE bad == {m \in 0 .. n : ~\E f : Built(m, X, x, step, f)}
  <1>1. bad = {} => \E f : Built(n, X, x, step, f)
    OBVIOUS
  <1>2. SUFFICES ASSUME bad # {}
                 PROVE  FALSE
    BY <1>1
  <1>3. bad \in SUBSET Nat
    OBVIOUS
  <1>4. \E m \in bad : \A k \in bad : m <= k
    <2> HIDE DEF bad
    <2> QED
      BY <1>2, <1>3, LeastNumber
  <1>5. PICK m \in bad : \A k \in bad : m <= k
    BY <1>4
  <1>6. m # 0
    <2>1. [i \in 0 .. 0 |-> x] \in [0 .. 0 -> X] /\ [i \in 0 .. 0 |-> x][0] = x
      OBVIOUS
    <2>2. 1 .. 0 = {}
      OBVIOUS
    <2>3. Built(0, X, x, step, [i \in 0 .. 0 |-> x])
      BY <2>1, <2>2 DEF Built
    <2> QED
      BY <1>5, <2>3
  <1>7. \E f : Built(m - 1, X, x, step, f)
    <2>1. m - 1 \in 0 .. n /\ m - 1 \notin bad
      BY <1>5, <1>6
    <2> QED
      BY <2>1
  <1>8. PICK f : Built(m - 1, X, x, step, f)
    BY <1>7
  <1> DEFINE g == [i \in 0 .. m |-> IF i = m THEN step[m][f[m - 1]] ELSE f[i]]
  <1>9. step[m][f[m - 1]] \in X /\ m \in 1 .. n
    <2>1. m \in 1 .. n /\ f[m - 1] \in X
      BY <1>5, <1>6, <1>8 DEF Built
    <2> QED
      BY <2>1
  <1>10. g \in [0 .. m -> X] /\ g[0] = x /\ g[m] = step[m][g[m - 1]]
    BY <1>8, <1>9 DEF Built
  <1>11. ASSUME NEW i \in 1 .. m
         PROVE  g[i] = step[i][g[i - 1]]
    <2>1. CASE i = m
      BY <1>10, <2>1
    <2>2. CASE i # m
      <3>1. i \in 1 .. m - 1 /\ i \in 0 .. m /\ i - 1 \in 0 .. m /\ i - 1 # m
        BY <1>9, <2>2
      <3>2. g[i] = f[i] /\ g[i - 1] = f[i - 1]
        BY <2>2, <3>1
      <3> QED
        BY <1>8, <3>1, <3>2 DEF Built
    <2> QED
      BY <2>1, <2>2
  <1>12. Built(m, X, x, step, g)
    BY <1>10, <1>11 DEF Built
  <1> QED
    BY <1>5, <1>12

\* It is the only one that follows the steps.
LEMMA SameRecursion ==
  ASSUME NEW n \in Nat, NEW X, NEW x \in X, NEW step \in [1 .. n -> [X -> X]],
         NEW f, Built(n, X, x, step, f), NEW g, Follows(n, X, x, step, g)
  PROVE  f = g
PROOF
  <1> DEFINE bad == {m \in 0 .. n : f[m] # g[m]}
  <1>1. bad = {}
    <2> SUFFICES ASSUME bad # {}
                 PROVE  FALSE
      OBVIOUS
    <2>1. bad \in SUBSET Nat
      OBVIOUS
    <2>2. \E m \in bad : \A k \in bad : m <= k
      <3> HIDE DEF bad
      <3> QED
        BY <2>1, LeastNumber
    <2>3. PICK m \in bad : \A k \in bad : m <= k
      BY <2>2
    <2>4. m \in 1 .. n
      BY DEF Built, Follows
    <2>5. m - 1 \in 0 .. n /\ m - 1 \notin bad
      BY <2>3, <2>4
    <2>6. f[m - 1] = g[m - 1] /\ g[m - 1] \in X
      BY <2>5 DEF Built
    <2> QED
      BY <2>4, <2>6 DEF Built, Follows
  <1>2. \A i \in 0 .. n : f[i] = g[i]
    BY <1>1
  <1> QED
    BY <1>2 DEF Built, Follows

-----------------------------------------------------------------------------
(* What the recursive functions of the dictionary compute.                   *)

\* The candidates for the number of slots.
LEMMA DoubledIs ==
  ASSUME NEW n \in Nat
  PROVE  /\ Doubled(n) \in [0 .. n -> Nat \ {0}] /\ Doubled(n)[0] = InitialSize
         /\ \A i \in 1 .. n : Doubled(n)[i] = 2 * Doubled(n)[i - 1]
PROOF
  <1> DEFINE P == Nat \ {0}
             step == [i \in 1 .. n |-> [p \in P |-> 2 * p]]
             Is(f) == f = [i \in 0 .. n |-> IF i = 0 THEN InitialSize ELSE 2 * f[i - 1]]
             d == Doubled(n)
  <1>1. step \in [1 .. n -> [P -> P]] /\ InitialSize \in P
    BY DictAssumption
  <1>2. PICK f : Built(n, P, InitialSize, step, f)
    <2> HIDE DEF P, step
    <2> QED
      BY <1>1, Recursion
  <1>3. \A i \in 1 .. n, p \in P : step[i][p] = 2 * p
    OBVIOUS
  <1>4. \A i \in 1 .. n : f[i] = 2 * f[i - 1]
    <2> SUFFICES ASSUME NEW i \in 1 .. n
                 PROVE  f[i] = 2 * f[i - 1]
      OBVIOUS
    <2>1. f[i - 1] \in P
      BY <1>2 DEF Built
    <2> QED
      BY <1>2, <1>3, <2>1, Zenon DEF Built
  <1>5. Is(f)
    BY <1>2, <1>4 DEF Built
  <1>6. Is(d)
    <2>1. d = CHOOSE g : Is(g)
      BY DEF Doubled
    <2> QED
      BY <1>5, <2>1, Zenon
  <1>7. d = [i \in 0 .. n |-> d[i]] /\ d[0] = InitialSize
    BY <1>6
  <1>8. ASSUME NEW i \in 1 .. n, d[i - 1] \in P
        PROVE  d[i] = step[i][d[i - 1]]
    <2>1. i \in 0 .. n /\ i # 0
      OBVIOUS
    <2>2. d[i] = 2 * d[i - 1]
      BY <1>6, <2>1
    <2> QED
      BY <1>3, <1>8, <2>2, Zenon
  <1>9. f = d
    <2> HIDE DEF d, step, P, Is
    <2>1. Follows(n, P, InitialSize, step, d)
      BY <1>7, <1>8, Zenon DEF Follows
    <2> QED
      BY <1>1, <1>2, <2>1, SameRecursion
  <1> QED
    BY <1>2, <1>4, <1>9 DEF Built

\* Induction up to n, over the members of a set.
LEMMA UpTo ==
  ASSUME NEW n \in Nat, NEW S, 0 \in S, \A i \in 1 .. n : i - 1 \in S => i \in S
  PROVE  0 .. n \subseteq S
PROOF
  <1> DEFINE bad == (0 .. n) \ S
  <1>1. SUFFICES ASSUME bad # {}
                 PROVE  FALSE
    OBVIOUS
  <1>2. bad \in SUBSET Nat
    OBVIOUS
  <1>3. \E m \in bad : \A k \in bad : m <= k
    <2> HIDE DEF bad
    <2> QED
      BY <1>1, <1>2, LeastNumber
  <1>4. PICK m \in bad : \A k \in bad : m <= k
    BY <1>3
  <1>5. m \in 1 .. n
    OBVIOUS
  <1>6. m - 1 \in 0 .. n /\ m - 1 \notin bad
    BY <1>4, <1>5
  <1> QED
    BY <1>5, <1>6

\* A table never has fewer slots than it was asked for, and at least one.
LEMMA NextPowerIs ==
  ASSUME NEW n \in Nat
  PROVE  NextPower(n) \in Nat \ {0} /\ NextPower(n) >= n
PROOF
  <1> DEFINE d == Doubled(n)
             powers == {d[i] : i \in 0 .. n}
             enough == {p \in powers : p >= n}
             S == {i \in 0 .. n : d[i] > i}
  <1>1. d \in [0 .. n -> Nat \ {0}] /\ \A i \in 1 .. n : d[i] = 2 * d[i - 1]
    BY DoubledIs
  <1> HIDE DEF d
  <1>2. 0 .. n \subseteq S
    <2>1. 0 \in S
      BY <1>1
    <2>2. ASSUME NEW i \in 1 .. n, i - 1 \in S
          PROVE  i \in S
      BY <1>1, <2>2
    <2> HIDE DEF S
    <2> QED
      BY <2>1, <2>2, UpTo
  <1>3. d[n] \in enough
    BY <1>1, <1>2
  <1>4. enough \in SUBSET Nat /\ enough \subseteq Nat \ {0}
    BY <1>1
  <1>5. \E m \in enough : \A k \in enough : m <= k
    <2> HIDE DEF enough
    <2> QED
      BY <1>3, <1>4, LeastNumber
  <1>6. NextPower(n) \in enough
    <2> DEFINE Is(p) == p >= n /\ \A q \in powers : q >= n => p <= q
    <2>1. NextPower(n) = CHOOSE p \in powers : Is(p)
      BY DEF NextPower, d
    <2>2. \E p \in powers : Is(p)
      BY <1>5
    <2> HIDE DEF powers
    <2> QED
      BY <2>1, <2>2
  <1> QED
    BY <1>4, <1>6

-----------------------------------------------------------------------------
(* Tables and their entries.                                                 *)

\* t is a table of n slots with every entry in its slot and every key once.
Chained(t, n) ==
  /\ t \in [Slots(n) -> Seq(Entries)]
  /\ \A q \in Slots(n) : \A j \in 1 .. Len(t[q]) : Hash[t[q][j].key] % n = q
  /\ \A q \in Slots(n) : \A i, j \in 1 .. Len(t[q]) : t[q][i].key = t[q][j].key => i = j

\* The entries of the slots below m.
Below(t, m) == {e \in Entries : \E q \in Slots(m) : \E j \in 1 .. Len(t[q]) : t[q][j] = e}

\* s lists the entries of E, each once.
Lists(s, E) ==
  /\ s \in Seq(Entries)
  /\ \A a \in 1 .. Len(s) : s[a] \in E
  /\ \A e \in E : \E a \in 1 .. Len(s) : s[a] = e
  /\ \A a, b \in 1 .. Len(s) : s[a].key = s[b].key => a = b

LEMMA SlotCount ==
  ASSUME NEW n \in Nat
  PROVE  IsFiniteSet(Slots(n)) /\ Cardinality(Slots(n)) = n
PROOF
  <1>1. IsFiniteSet(0 .. n - 1) /\ Cardinality(0 .. n - 1) = IF 0 > n - 1 THEN 0 ELSE n - 1 - 0 + 1
    BY FS_Interval
  <1> QED
    BY <1>1 DEF Slots

\* One more slot is appended to a list of those before it.
LEMMA ListsMore ==
  ASSUME NEW n \in Nat, NEW t, Chained(t, n), NEW i \in 1 .. n,
         NEW s, Lists(s, Below(t, i - 1))
  PROVE  Lists(s \o t[i - 1], Below(t, i))
PROOF
  <1> DEFINE c == t[i - 1]
             u == s \o c
  <1>1. i - 1 \in Slots(n) /\ c \in Seq(Entries) /\ s \in Seq(Entries)
    BY DEF Chained, Lists, Slots
  <1>2. /\ u \in Seq(Entries) /\ Len(u) = Len(s) + Len(c)
        /\ \A a \in 1 .. Len(s) + Len(c) : u[a] = IF a <= Len(s) THEN s[a] ELSE c[a - Len(s)]
    BY <1>1, ConcatProperties
  <1>3. Len(s) \in Nat /\ Len(c) \in Nat
    BY <1>1, LenProperties
  <1>4. \A j \in 1 .. Len(c) : c[j] \in Entries
    BY <1>1, ElementOfSeq
  <1> HIDE DEF u, c
  <1>5. \A e : e \in Below(t, i) <=> e \in Below(t, i - 1) \/ \E j \in 1 .. Len(c) : c[j] = e
    <2>1. Slots(i) = Slots(i - 1) \cup {i - 1}
      BY DEF Slots
    <2> QED
      BY <1>4, <2>1 DEF Below, c
  <1>6. ASSUME NEW a \in 1 .. Len(u)
        PROVE  u[a] \in Below(t, i)
    <2>1. CASE a <= Len(s)
      <3>1. a \in 1 .. Len(s) /\ u[a] = s[a]
        BY <1>2, <1>3, <2>1
      <3> QED
        BY <1>5, <3>1 DEF Lists
    <2>2. CASE a > Len(s)
      <3>1. a - Len(s) \in 1 .. Len(c) /\ u[a] = c[a - Len(s)]
        BY <1>2, <1>3, <2>2
      <3> QED
        BY <1>5, <3>1
    <2> QED
      BY <1>2, <1>3, <2>1, <2>2
  <1>7. ASSUME NEW e \in Below(t, i)
        PROVE  \E a \in 1 .. Len(u) : u[a] = e
    <2>1. CASE e \in Below(t, i - 1)
      <3>1. PICK a \in 1 .. Len(s) : s[a] = e
        BY <2>1 DEF Lists
      <3>2. a \in 1 .. Len(u) /\ u[a] = e
        BY <1>2, <1>3, <3>1
      <3> QED
        BY <3>2
    <2>2. ASSUME NEW j \in 1 .. Len(c), c[j] = e
          PROVE  \E a \in 1 .. Len(u) : u[a] = e
      <3>1. /\ Len(s) + j \in 1 .. Len(s) + Len(c) /\ ~(Len(s) + j <= Len(s))
            /\ Len(s) + j - Len(s) = j
        BY <1>3
      <3>2. u[Len(s) + j] = e
        BY <1>2, <2>2, <3>1
      <3> QED
        BY <1>2, <3>1, <3>2
    <2> QED
      BY <1>5, <2>1, <2>2
  <1>8. ASSUME NEW e \in Below(t, i - 1), NEW j \in 1 .. Len(c)
        PROVE  e.key # c[j].key
    <2>1. PICK q \in Slots(i - 1) : \E l \in 1 .. Len(t[q]) : t[q][l] = e
      BY DEF Below
    <2>2. q \in Slots(n) /\ q # i - 1
      BY DEF Slots
    <2>3. Hash[e.key] % n = q /\ Hash[c[j].key] % n = i - 1
      BY <1>1, <2>1, <2>2 DEF Chained, c
    <2> QED
      BY <2>2, <2>3
  <1>9. ASSUME NEW a \in 1 .. Len(u), NEW b \in 1 .. Len(u), u[a].key = u[b].key
        PROVE  a = b
    <2>1. CASE a <= Len(s) /\ b <= Len(s)
      <3>1. a \in 1 .. Len(s) /\ b \in 1 .. Len(s) /\ u[a] = s[a] /\ u[b] = s[b]
        BY <1>2, <1>3, <2>1
      <3> QED
        BY <1>9, <3>1 DEF Lists
    <2>2. CASE a > Len(s) /\ b > Len(s)
      <3>1. /\ a - Len(s) \in 1 .. Len(c) /\ b - Len(s) \in 1 .. Len(c)
            /\ u[a] = c[a - Len(s)] /\ u[b] = c[b - Len(s)]
        BY <1>2, <1>3, <2>2
      <3>2. a - Len(s) = b - Len(s)
        BY <1>1, <1>9, <3>1 DEF Chained, c
      <3> QED
        BY <1>3, <3>2
    <2>3. ASSUME NEW x \in 1 .. Len(u), NEW y \in 1 .. Len(u), x <= Len(s), y > Len(s)
          PROVE  u[x].key # u[y].key
      <3>1. x \in 1 .. Len(s) /\ y - Len(s) \in 1 .. Len(c) /\ u[x] = s[x] /\ u[y] = c[y - Len(s)]
        BY <1>2, <1>3, <2>3
      <3>2. s[x] \in Below(t, i - 1)
        BY <3>1 DEF Lists
      <3> QED
        BY <1>8, <3>1, <3>2
    <2> QED
      BY <1>2, <1>3, <1>9, <2>1, <2>2, <2>3
  <1>10. Lists(u, Below(t, i))
    BY <1>2, <1>6, <1>7, <1>9 DEF Lists
  <1> QED
    BY <1>10 DEF u, c

\* The walk through a table lists its entries, each once.
LEMMA AllEntriesAre ==
  ASSUME NEW n \in Nat, NEW t, Chained(t, n)
  PROVE  Lists(AllEntries(t), Below(t, n))
PROOF
  <1> DEFINE X == Seq(Entries)
             step == [i \in 1 .. n |-> [s \in X |-> s \o t[i - 1]]]
             Is(f) == f = [i \in 0 .. n |-> IF i = 0 THEN <<>> ELSE f[i - 1] \o t[i - 1]]
             u == EntriesUpTo(t)
  <1>1. step \in [1 .. n -> [X -> X]] /\ <<>> \in X
    <2>1. ASSUME NEW i \in 1 .. n, NEW s \in X
          PROVE  s \o t[i - 1] \in X
      <3>1. t[i - 1] \in X
        BY DEF Chained, Slots
      <3> QED
        BY <3>1, ConcatProperties
    <2> QED
      BY <2>1
  <1>2. PICK f : Built(n, X, <<>>, step, f)
    <2> HIDE DEF X, step
    <2> QED
      BY <1>1, Recursion
  <1>3. \A i \in 1 .. n, s \in X : step[i][s] = s \o t[i - 1]
    OBVIOUS
  <1>4. \A i \in 1 .. n : f[i] = f[i - 1] \o t[i - 1]
    <2> SUFFICES ASSUME NEW i \in 1 .. n
                 PROVE  f[i] = f[i - 1] \o t[i - 1]
      OBVIOUS
    <2>1. f[i - 1] \in X
      BY <1>2 DEF Built
    <2> QED
      BY <1>2, <1>3, <2>1, Zenon DEF Built
  <1>5. Is(f)
    <2>1. f = [i \in 0 .. n |-> f[i]] /\ f[0] = <<>>
      BY <1>2 DEF Built
    <2>2. \A i \in 0 .. n : f[i] = IF i = 0 THEN <<>> ELSE f[i - 1] \o t[i - 1]
      <3>1. \A i \in 0 .. n : i # 0 => i \in 1 .. n
        OBVIOUS
      <3> QED
        BY <1>4, <2>1, <3>1
    <2> QED
      BY <2>1, <2>2
  <1>6. Is(u) /\ AllEntries(t) = u[n]
    <2>1. Cardinality(DOMAIN t) = n
      BY SlotCount DEF Chained
    <2>2. u = CHOOSE g : Is(g)
      BY <2>1 DEF EntriesUpTo
    <2> QED
      BY <1>5, <2>1, <2>2, Zenon DEF AllEntries
  <1>7. u[0] = <<>> /\ \A i \in 1 .. n : u[i] = u[i - 1] \o t[i - 1]
    <2>1. \A i \in 1 .. n : i \in 0 .. n /\ i # 0
      OBVIOUS
    <2> QED
      BY <1>6, <2>1
  <1> DEFINE S == {i \in 0 .. n : Lists(u[i], Below(t, i))}
  <1> HIDE DEF u
  <1>8. 0 .. n \subseteq S
    <2>1. 0 \in S
      <3>1. Slots(0) = {} /\ <<>> \in Seq(Entries) /\ Len(<<>>) = 0
        BY EmptySeq DEF Slots
      <3>2. Lists(<<>>, Below(t, 0))
        BY <3>1 DEF Lists, Below
      <3> QED
        BY <1>7, <3>2
    <2>2. ASSUME NEW i \in 1 .. n, i - 1 \in S
          PROVE  i \in S
      <3>1. Lists(u[i - 1], Below(t, i - 1))
        BY <2>2, Zenon
      <3>2. u[i] = u[i - 1] \o t[i - 1]
        BY <1>7, Zenon
      <3>3. Lists(u[i], Below(t, i))
        BY <3>1, <3>2, ListsMore
      <3> QED
        BY <3>3
    <2> HIDE DEF S
    <2> QED
      BY <2>1, <2>2, UpTo
  <1> QED
    BY <1>6, <1>8

\* The slot of a key.
LEMMA SlotOfKey ==
  ASSUME NEW n \in Nat \ {0}, NEW k \in Keys
  PROVE  Hash[k] % n \in Slots(n)
PROOF
  <1>1. Hash[k] \in Nat
    BY DictAssumption
  <1>2. \A h \in Nat : h % n \in 0 .. n - 1
    OBVIOUS
  <1> QED
    BY <1>1, <1>2 DEF Slots

\* An entry is put at the head of its chain.
Put(t, n, e) == [t EXCEPT ![Hash[e.key] % n] = <<e>> \o @]

\* An entry with a new key may be put into a table.
LEMMA PutIn ==
  ASSUME NEW n \in Nat \ {0}, NEW t, Chained(t, n), NEW e \in Entries,
         \A x \in Below(t, n) : x.key # e.key,
         NEW u, u = Put(t, n, e)
  PROVE  Chained(u, n) /\ Below(u, n) = Below(t, n) \cup {e}
PROOF
  <1> DEFINE h == Hash[e.key] % n
             c == t[h]
             d == <<e>> \o c
  <1>1. h \in Slots(n) /\ c \in Seq(Entries)
    <2>1. e.key \in Keys
      BY DEF Entries
    <2> QED
      BY <2>1, SlotOfKey DEF Chained
  <1>2. \A q \in Slots(n) : u[q] = IF q = h THEN d ELSE t[q]
    BY DEF Chained, Put
  <1>3. Len(c) \in Nat /\ \A j \in 1 .. Len(c) : c[j] \in Entries
    BY <1>1, LenProperties, ElementOfSeq
  <1>4. /\ d \in Seq(Entries) /\ Len(d) = Len(c) + 1
        /\ \A j \in 1 .. Len(d) : d[j] = IF j = 1 THEN e ELSE c[j - 1]
    <2>1. <<e>> \in Seq(Entries) /\ Len(<<e>>) = 1 /\ <<e>>[1] = e
      OBVIOUS
    <2> QED
      BY <1>1, <1>3, <2>1, ConcatProperties
  <1>5. u \in [Slots(n) -> Seq(Entries)]
    BY <1>1, <1>4 DEF Chained, Put
  <1> HIDE DEF c, d, h
  <1>6. \A j \in 1 .. Len(d) : d[j] = e \/ \E l \in 1 .. Len(c) : j = l + 1 /\ d[j] = c[l]
    <2> SUFFICES ASSUME NEW j \in 1 .. Len(d), j # 1
                 PROVE  \E l \in 1 .. Len(c) : j = l + 1 /\ d[j] = c[l]
      BY <1>4
    <2>1. j - 1 \in 1 .. Len(c) /\ j = (j - 1) + 1 /\ d[j] = c[j - 1]
      BY <1>3, <1>4
    <2> QED
      BY <2>1
  <1>7. 1 \in 1 .. Len(d) /\ d[1] = e /\ \A l \in 1 .. Len(c) : l + 1 \in 1 .. Len(d) /\ d[l + 1] = c[l]
    BY <1>3, <1>4
  <1>8. \A l \in 1 .. Len(c) : c[l] \in Below(t, n) /\ Hash[c[l].key] % n = h /\ c[l].key # e.key
    BY <1>1, <1>3 DEF Below, Chained, c
  <1>9. ASSUME NEW q \in Slots(n), NEW j \in 1 .. Len(u[q])
        PROVE  Hash[u[q][j].key] % n = q
    <2>1. CASE q = h
      <3>1. u[q] = d /\ Hash[e.key] % n = h
        BY <1>2, <2>1 DEF h
      <3>2. d[j] = e \/ \E l \in 1 .. Len(c) : d[j] = c[l]
        BY <1>6, <3>1
      <3> QED
        BY <1>8, <2>1, <3>1, <3>2, Zenon
    <2>2. CASE q # h
      BY <1>2, <2>2 DEF Chained
    <2> QED
      BY <2>1, <2>2
  <1>10. ASSUME NEW q \in Slots(n), NEW i \in 1 .. Len(u[q]), NEW j \in 1 .. Len(u[q]),
                u[q][i].key = u[q][j].key
         PROVE  i = j
    <2>1. CASE q = h
      <3>1. u[q] = d
        BY <1>2, <2>1
      <3>2. \A a, b \in 1 .. Len(c) : c[a].key = c[b].key => a = b
        BY <1>1 DEF Chained, c
      <3>3. CASE i = 1
        <4>1. ASSUME j # 1
              PROVE  FALSE
          <5>1. d[j] = c[j - 1] /\ j - 1 \in 1 .. Len(c)
            BY <1>3, <1>4, <3>1, <4>1
          <5> QED
            BY <1>7, <1>8, <1>10, <3>1, <3>3, <5>1
        <4> QED
          BY <3>3, <4>1
      <3>4. CASE j = 1
        <4>1. ASSUME i # 1
              PROVE  FALSE
          <5>1. d[i] = c[i - 1] /\ i - 1 \in 1 .. Len(c)
            BY <1>3, <1>4, <3>1, <4>1
          <5> QED
            BY <1>7, <1>8, <1>10, <3>1, <3>4, <5>1
        <4> QED
          BY <3>4, <4>1
      <3>5. CASE i # 1 /\ j # 1
        <4>1. /\ i - 1 \in 1 .. Len(c) /\ j - 1 \in 1 .. Len(c)
              /\ d[i] = c[i - 1] /\ d[j] = c[j - 1]
          BY <1>3, <1>4, <3>1, <3>5
        <4>2. i - 1 = j - 1
          BY <1>10, <3>1, <3>2, <4>1
        <4> QED
          BY <4>2
      <3> QED
        BY <3>3, <3>4, <3>5
    <2>2. CASE q # h
      BY <1>2, <1>10, <2>2 DEF Chained
    <2> QED
      BY <2>1, <2>2
  <1>11. Chained(u, n)
    BY <1>5, <1>9, <1>10 DEF Chained
  <1>12. \A x \in Entries : x \in Below(u, n) <=> x \in Below(t, n) \/ x = e
    <2> TAKE x \in Entries
    <2>1. ASSUME NEW q \in Slots(n), NEW j \in 1 .. Len(u[q]), u[q][j] = x
          PROVE  x \in Below(t, n) \/ x = e
      <3>1. CASE q = h
        BY <1>2, <1>6, <1>8, <2>1, <3>1
      <3>2. CASE q # h
        BY <1>2, <2>1, <3>2 DEF Below
      <3> QED
        BY <3>1, <3>2
    <2>2. ASSUME NEW q \in Slots(n), NEW j \in 1 .. Len(t[q]), t[q][j] = x
          PROVE  \E p \in Slots(n) : \E l \in 1 .. Len(u[p]) : u[p][l] = x
      <3>1. CASE q = h
        BY <1>2, <1>7, <2>2, <3>1 DEF c
      <3>2. CASE q # h
        BY <1>2, <2>2, <3>2
      <3> QED
        BY <3>1, <3>2
    <2>3. x = e => \E p \in Slots(n) : \E l \in 1 .. Len(u[p]) : u[p][l] = x
      BY <1>1, <1>2, <1>7
    <2> QED
      BY <2>1, <2>2, <2>3 DEF Below
  <1>13. Below(u, n) \subseteq Entries /\ Below(t, n) \subseteq Entries
    BY DEF Below
  <1> QED
    BY <1>11, <1>12, <1>13

\* All entries of a list are in the new table, and nothing else.
LEMMA PushedAre ==
  ASSUME NEW n \in Nat \ {0}, NEW E, E \subseteq Entries, NEW all, Lists(all, E)
  PROVE  /\ Chained(Pushed(all, n)[Len(all)], n)
         /\ Below(Pushed(all, n)[Len(all)], n) = E
PROOF
  <1> DEFINE l == Len(all)
             X == [Slots(n) -> Seq(Entries)]
             x == [h \in Slots(n) |-> <<>>]
             h(m) == Hash[all[m].key] % n
             step == [m \in 1 .. l |-> [t \in X |-> [t EXCEPT ![h(m)] = <<all[m]>> \o @]]]
             Is(f) == f = [m \in 0 .. l |-> IF m = 0 THEN x
                             ELSE [f[m - 1] EXCEPT ![h(m)] = <<all[m]>> \o @]]
             p == Pushed(all, n)
  <1>1. l \in Nat /\ \A m \in 1 .. l : all[m] \in Entries /\ all[m] \in E
    BY LenProperties, ElementOfSeq DEF Lists
  <1>2. \A m \in 1 .. l : h(m) \in Slots(n)
    BY <1>1, SlotOfKey DEF Entries
  <1>3. x \in X
    BY EmptySeq
  <1>4. step \in [1 .. l -> [X -> X]]
    <2>1. ASSUME NEW m \in 1 .. l, NEW t \in X
          PROVE  [t EXCEPT ![h(m)] = <<all[m]>> \o @] \in X
      <3>1. t[h(m)] \in Seq(Entries) /\ <<all[m]>> \in Seq(Entries)
        BY <1>1, <1>2
      <3>2. <<all[m]>> \o t[h(m)] \in Seq(Entries)
        BY <3>1, ConcatProperties
      <3> QED
        BY <3>2
    <2> QED
      BY <2>1
  <1>5. PICK f : Built(l, X, x, step, f)
    <2> HIDE DEF X, x, step, l
    <2> QED
      BY <1>1, <1>3, <1>4, Recursion
  <1>6. \A m \in 1 .. l, t \in X : step[m][t] = [t EXCEPT ![h(m)] = <<all[m]>> \o @]
    OBVIOUS
  <1> HIDE DEF h
  <1>7. \A m \in 1 .. l : f[m] = [f[m - 1] EXCEPT ![h(m)] = <<all[m]>> \o @]
    <2> SUFFICES ASSUME NEW m \in 1 .. l
                 PROVE  f[m] = [f[m - 1] EXCEPT ![h(m)] = <<all[m]>> \o @]
      OBVIOUS
    <2>1. f[m - 1] \in X
      <3>1. m - 1 \in 0 .. l
        BY <1>1
      <3> HIDE DEF X, l
      <3> QED
        BY <1>5, <3>1 DEF Built
    <2>2. f[m] = step[m][f[m - 1]]
      BY <1>5 DEF Built
    <2> HIDE DEF step
    <2> QED
      BY <1>6, <2>1, <2>2, Zenon
  <1>8. Is(f)
    <2>1. f = [m \in 0 .. l |-> f[m]] /\ f[0] = x
      BY <1>5 DEF Built
    <2>2. \A m \in 0 .. l : m # 0 => m \in 1 .. l
      BY <1>1
    <2>3. \A m \in 0 .. l : f[m] = IF m = 0 THEN x ELSE [f[m - 1] EXCEPT ![h(m)] = <<all[m]>> \o @]
      BY <1>7, <2>1, <2>2, Zenon
    <2> QED
      BY <2>1, <2>3
  <1>9. Is(p)
    <2>1. p = CHOOSE g : Is(g)
      BY DEF Pushed, h
    <2> QED
      BY <1>8, <2>1, Zenon
  <1> HIDE DEF p
  <1>10. p[0] = x /\ \A m \in 1 .. l : p[m] = [p[m - 1] EXCEPT ![h(m)] = <<all[m]>> \o @]
    <2>1. 0 \in 0 .. l /\ \A m \in 1 .. l : m \in 0 .. l /\ m # 0
      BY <1>1
    <2> QED
      BY <1>9, <2>1
  <1> DEFINE S == {m \in 0 .. l : Chained(p[m], n) /\ Below(p[m], n) = {all[a] : a \in 1 .. m}}
  <1>11. 0 .. l \subseteq S
    <2>1. 0 \in S
      <3>1. \A q \in Slots(n) : x[q] = <<>> /\ Len(x[q]) = 0
        OBVIOUS
      <3>2. Chained(x, n) /\ Below(x, n) = {}
        BY <1>3, <3>1 DEF Chained, Below
      <3>3. {all[a] : a \in 1 .. 0} = {}
        OBVIOUS
      <3> QED
        BY <1>1, <1>10, <3>2, <3>3
    <2>2. ASSUME NEW m \in 1 .. l, m - 1 \in S
          PROVE  m \in S
      <3>1. Chained(p[m - 1], n) /\ Below(p[m - 1], n) = {all[a] : a \in 1 .. m - 1}
        BY <2>2
      <3>2. p[m] = Put(p[m - 1], n, all[m])
        BY <1>10 DEF h, Put
      <3>3. \A y \in Below(p[m - 1], n) : y.key # all[m].key
        <4>1. \A a \in 1 .. m - 1 : a \in 1 .. l /\ a # m
          BY <1>1
        <4>2. \A a \in 1 .. m - 1 : all[a].key # all[m].key
          BY <4>1 DEF Lists
        <4> QED
          BY <3>1, <4>2
      <3>4. Chained(p[m], n) /\ Below(p[m], n) = Below(p[m - 1], n) \cup {all[m]}
        <4>1. all[m] \in Entries
          BY <1>1
        <4> QED
          BY <3>1, <3>2, <3>3, <4>1, PutIn
      <3>5. {all[a] : a \in 1 .. m - 1} \cup {all[m]} = {all[a] : a \in 1 .. m}
        <4>1. 1 .. m = (1 .. m - 1) \cup {m}
          BY <1>1
        <4> QED
          BY <4>1
      <3>6. Chained(p[m], n) /\ Below(p[m], n) = {all[a] : a \in 1 .. m} /\ m \in 0 .. l
        BY <1>1, <3>1, <3>4, <3>5
      <3> QED
        BY <3>6
    <2> HIDE DEF S
    <2> QED
      BY <1>1, <2>1, <2>2, UpTo
  <1>12. Chained(p[l], n) /\ Below(p[l], n) = {all[a] : a \in 1 .. l}
    <2>1. l \in S
      <3>1. l \in 0 .. l
        BY <1>1
      <3> HIDE DEF S, l
      <3> QED
        BY <1>11, <3>1
    <2> QED
      BY <2>1
  <1>13. {all[a] : a \in 1 .. l} = E
    BY <1>1 DEF Lists
  <1> QED
    BY <1>12, <1>13 DEF p

\* Growing moves every entry and loses none.
LEMMA ExpandIs ==
  ASSUME NEW n \in Nat, NEW t, Chained(t, n), NEW m \in Nat
  PROVE  /\ NextPower(m) \in Nat \ {0}
         /\ Chained(Expand(t, m), NextPower(m))
         /\ Below(Expand(t, m), NextPower(m)) = Below(t, n)
PROOF
  <1>1. NextPower(m) \in Nat \ {0}
    BY NextPowerIs
  <1>2. Lists(AllEntries(t), Below(t, n)) /\ Below(t, n) \subseteq Entries
    BY AllEntriesAre DEF Below
  <1> QED
    BY <1>1, <1>2, PushedAre DEF Expand

\* Two entries of a table have two keys.
LEMMA KeyIsUnique ==
  ASSUME NEW n \in Nat, NEW t, Chained(t, n),
         NEW x \in Below(t, n), NEW y \in Below(t, n), x.key = y.key
  PROVE  x = y
PROOF
  <1>1. PICK p \in Slots(n) : \E i \in 1 .. Len(t[p]) : t[p][i] = x
    BY DEF Below
  <1>2. PICK i \in 1 .. Len(t[p]) : t[p][i] = x
    BY <1>1
  <1>3. PICK q \in Slots(n) : \E j \in 1 .. Len(t[q]) : t[q][j] = y
    BY DEF Below
  <1>4. PICK j \in 1 .. Len(t[q]) : t[q][j] = y
    BY <1>3
  <1>5. p = q
    BY <1>2, <1>4 DEF Chained
  <1>6. i = j
    BY <1>2, <1>4, <1>5 DEF Chained
  <1> QED
    BY <1>2, <1>4, <1>5, <1>6

\* A search finds the entry of a key in the chain of the key, when there is one.
LEMMA Found ==
  ASSUME NEW n \in Nat, NEW t, Chained(t, n), NEW k \in Keys
  PROVE  /\ Has(t, k) <=> \E e \in Below(t, n) : e.key = k
         /\ Has(t, k) =>
              /\ n \in Nat \ {0} /\ ChainOf(t, k) = t[Hash[k] % n]
              /\ Position(ChainOf(t, k), k) \in 1 .. Len(ChainOf(t, k))
              /\ EntryOf(t, k) = ChainOf(t, k)[Position(ChainOf(t, k), k)]
              /\ EntryOf(t, k) \in Below(t, n) /\ EntryOf(t, k).key = k
PROOF
  <1> DEFINE h == Hash[k] % n
             c == t[h]
             i == Position(c, k)
  <1>1. Cardinality(DOMAIN t) = n /\ DOMAIN t = Slots(n)
    BY SlotCount DEF Chained
  <1>2. ChainOf(t, k) = c
    BY <1>1 DEF ChainOf
  <1>3. DOMAIN t # {} <=> n # 0
    <2>1. n # 0 => 0 \in Slots(n)
      BY DEF Slots
    <2>2. n = 0 => Slots(n) = {}
      BY DEF Slots
    <2> QED
      BY <1>1, <2>1, <2>2
  <1>4. Has(t, k) <=> n # 0 /\ \E j \in 1 .. Len(c) : c[j].key = k
    BY <1>2, <1>3 DEF Has, KeysIn
  <1>5. ASSUME n # 0
        PROVE  h \in Slots(n) /\ c \in Seq(Entries)
    BY <1>5, SlotOfKey DEF Chained
  <1> HIDE DEF c
  <1>6. ASSUME Has(t, k)
        PROVE  /\ i \in 1 .. Len(c) /\ EntryOf(t, k) = c[i]
               /\ c[i] \in Below(t, n) /\ c[i].key = k
    <2>1. \E j \in 1 .. Len(c) : c[j].key = k
      BY <1>4, <1>6
    <2>2. i \in 1 .. Len(c) /\ c[i].key = k
      BY <2>1 DEF Position
    <2>3. c[i] \in Entries
      BY <1>4, <1>5, <1>6, <2>2, ElementOfSeq
    <2>4. c[i] \in Below(t, n)
      BY <1>4, <1>5, <1>6, <2>2, <2>3 DEF Below, c
    <2> QED
      BY <1>2, <2>2, <2>4 DEF EntryOf
  <1>7. ASSUME NEW e \in Below(t, n), e.key = k
        PROVE  Has(t, k)
    <2>1. PICK q \in Slots(n) : \E j \in 1 .. Len(t[q]) : t[q][j] = e
      BY DEF Below
    <2>2. PICK j \in 1 .. Len(t[q]) : t[q][j] = e
      BY <2>1
    <2>3. q = h /\ n # 0
      BY <1>7, <2>2 DEF Chained, Slots
    <2> QED
      BY <1>4, <1>7, <2>2, <2>3 DEF c
  <1> QED
    BY <1>2, <1>4, <1>6, <1>7 DEF c

\* The entry of k is overwritten.
Written(t, n, k, e) ==
  [t EXCEPT ![Hash[k] % n] = [j \in DOMAIN @ |-> IF @[j].key = k THEN e ELSE @[j]]]

\* An entry may be overwritten by another of the same key.
LEMMA SetIn ==
  ASSUME NEW n \in Nat, NEW t, Chained(t, n), NEW k \in Keys, Has(t, k),
         NEW e \in Entries, e.key = k,
         NEW u, u = Written(t, n, k, e)
  PROVE  /\ Chained(u, n)
         /\ Below(u, n) = (Below(t, n) \ {EntryOf(t, k)}) \cup {e}
PROOF
  <1> DEFINE h == Hash[k] % n
             c == t[h]
             d == [j \in DOMAIN c |-> IF c[j].key = k THEN e ELSE c[j]]
             i == Position(c, k)
             f == EntryOf(t, k)
  <1>1. /\ n \in Nat \ {0} /\ h \in Slots(n) /\ c \in Seq(Entries)
        /\ i \in 1 .. Len(c) /\ c[i] = f /\ f.key = k /\ f \in Below(t, n)
    <2>1. /\ n \in Nat \ {0} /\ ChainOf(t, k) = c
          /\ Position(ChainOf(t, k), k) \in 1 .. Len(ChainOf(t, k))
          /\ f = ChainOf(t, k)[Position(ChainOf(t, k), k)]
          /\ f \in Below(t, n) /\ f.key = k
      BY Found
    <2>2. h \in Slots(n)
      BY <2>1, SlotOfKey
    <2>3. c \in Seq(Entries)
      BY <2>2 DEF Chained
    <2> HIDE DEF c, f
    <2> QED
      BY <2>1, <2>2, <2>3
  <1>2. Len(c) \in Nat /\ DOMAIN c = 1 .. Len(c) /\ \A j \in 1 .. Len(c) : c[j] \in Entries
    BY <1>1, LenProperties, ElementOfSeq
  <1>3. /\ d \in Seq(Entries) /\ Len(d) = Len(c)
        /\ \A j \in 1 .. Len(d) : d[j] = IF c[j].key = k THEN e ELSE c[j]
    BY <1>2
  <1>4. u = [t EXCEPT ![h] = d] /\ \A q \in Slots(n) : u[q] = IF q = h THEN d ELSE t[q]
    BY <1>1 DEF Chained, Written
  <1>5. u \in [Slots(n) -> Seq(Entries)]
    <2> HIDE DEF c, d, h
    <2> QED
      BY <1>1, <1>3, <1>4 DEF Chained
  <1>6. \A j \in 1 .. Len(c) : c[j].key = k => j = i
    BY <1>1 DEF Chained
  <1> HIDE DEF c, d, h, i, f
  <1>7. \A j \in 1 .. Len(d) : d[j].key = c[j].key /\ d[j] = (IF j = i THEN e ELSE c[j])
    BY <1>1, <1>3, <1>6
  <1>8. Chained(u, n)
    <2>1. ASSUME NEW q \in Slots(n)
          PROVE  /\ Len(u[q]) = Len(t[q])
                 /\ \A j \in 1 .. Len(t[q]) : u[q][j].key = t[q][j].key
      BY <1>3, <1>4, <1>7 DEF c
    <2>2. ASSUME NEW q \in Slots(n), NEW j \in 1 .. Len(u[q])
          PROVE  Hash[u[q][j].key] % n = q
      <3>1. j \in 1 .. Len(t[q]) /\ u[q][j].key = t[q][j].key
        BY <2>1, Zenon
      <3>2. Hash[t[q][j].key] % n = q
        BY <3>1 DEF Chained
      <3> QED
        BY <3>1, <3>2, Zenon
    <2>3. ASSUME NEW q \in Slots(n), NEW j \in 1 .. Len(u[q]), NEW l \in 1 .. Len(u[q]),
                 u[q][j].key = u[q][l].key
          PROVE  j = l
      <3>1. /\ j \in 1 .. Len(t[q]) /\ u[q][j].key = t[q][j].key
            /\ l \in 1 .. Len(t[q]) /\ u[q][l].key = t[q][l].key
        BY <2>1, Zenon
      <3> QED
        BY <2>3, <3>1 DEF Chained
    <2> QED
      BY <1>5, <2>2, <2>3 DEF Chained
  <1>9. \A x \in Entries : x \in Below(u, n) <=> (x \in Below(t, n) /\ x # f) \/ x = e
    <2> TAKE x \in Entries
    <2>1. ASSUME NEW q \in Slots(n), NEW j \in 1 .. Len(u[q]), u[q][j] = x
          PROVE  (x \in Below(t, n) /\ x # f) \/ x = e
      <3>1. CASE q = h /\ j # i
        <4>1. c[j] = x /\ j \in 1 .. Len(c)
          BY <1>3, <1>4, <1>7, <2>1, <3>1
        <4>2. x # f
          BY <1>1, <1>6, <3>1, <4>1
        <4> QED
          BY <1>1, <4>1, <4>2 DEF Below, c
      <3>2. CASE q = h /\ j = i
        BY <1>4, <1>7, <2>1, <3>2
      <3>3. CASE q # h
        <4>1. t[q][j] = x /\ j \in 1 .. Len(t[q])
          BY <1>4, <2>1, <3>3
        <4>2. Hash[x.key] % n = q
          BY <4>1 DEF Chained
        <4>3. x # f
          BY <1>1, <3>3, <4>2 DEF h
        <4> QED
          BY <4>1, <4>3 DEF Below
      <3> QED
        BY <3>1, <3>2, <3>3
    <2>2. ASSUME NEW q \in Slots(n), NEW j \in 1 .. Len(t[q]), t[q][j] = x, x # f
          PROVE  \E p \in Slots(n) : \E l \in 1 .. Len(u[p]) : u[p][l] = x
      <3>1. CASE q = h
        <4>1. c[j] = x /\ j \in 1 .. Len(d) /\ j # i
          BY <1>1, <1>3, <2>2, <3>1 DEF c
        <4>2. u[h] = d /\ d[j] = x
          BY <1>1, <1>4, <1>7, <4>1
        <4> QED
          BY <1>1, <4>1, <4>2
      <3>2. CASE q # h
        BY <1>4, <2>2, <3>2
      <3> QED
        BY <3>1, <3>2
    <2>3. x = e => \E p \in Slots(n) : \E l \in 1 .. Len(u[p]) : u[p][l] = x
      <3>1. i \in 1 .. Len(d) /\ d[i] = e /\ u[h] = d
        BY <1>1, <1>3, <1>4, <1>7
      <3> QED
        BY <1>1, <3>1
    <2> QED
      BY <2>1, <2>2, <2>3 DEF Below
  <1>10. Below(u, n) \subseteq Entries /\ Below(t, n) \subseteq Entries
    BY DEF Below
  <1>11. Below(u, n) = (Below(t, n) \ {f}) \cup {e}
    BY <1>9, <1>10
  <1> QED
    BY <1>8, <1>11 DEF f

\* The entry at position i is taken out of a chain.
LEMMA RemoveAtIs ==
  ASSUME NEW S, NEW c \in Seq(S), NEW i \in 1 .. Len(c)
  PROVE  /\ RemoveAt(c, i) \in Seq(S) /\ Len(RemoveAt(c, i)) = Len(c) - 1
         /\ \A j \in 1 .. Len(c) - 1 : RemoveAt(c, i)[j] = IF j < i THEN c[j] ELSE c[j + 1]
PROOF
  <1> DEFINE a == SubSeq(c, 1, i - 1)
             b == SubSeq(c, i + 1, Len(c))
  <1>1. Len(c) \in Nat /\ \A j \in 1 .. Len(c) : c[j] \in S
    BY LenProperties, ElementOfSeq
  <1>2. /\ a \in Seq(S) /\ Len(a) = i - 1
        /\ \A j \in 1 .. i - 1 : a[j] = c[j]
    <2>1. i - 1 \in Int /\ \A j \in 1 .. i - 1 : c[j] \in S
      BY <1>1
    <2>2. /\ a \in Seq(S) /\ Len(a) = IF 1 <= i - 1 THEN (i - 1) - 1 + 1 ELSE 0
          /\ \A j \in 1 .. (i - 1) - 1 + 1 : a[j] = c[1 + j - 1]
      BY <2>1, SubSeqProperties
    <2> QED
      BY <1>1, <2>2
  <1>3. /\ b \in Seq(S) /\ Len(b) = Len(c) - i
        /\ \A j \in 1 .. Len(c) - i : b[j] = c[i + j]
    <2>1. i + 1 \in Int /\ Len(c) \in Int /\ \A j \in i + 1 .. Len(c) : c[j] \in S
      BY <1>1
    <2>2. /\ b \in Seq(S) /\ Len(b) = IF i + 1 <= Len(c) THEN Len(c) - (i + 1) + 1 ELSE 0
          /\ \A j \in 1 .. Len(c) - (i + 1) + 1 : b[j] = c[(i + 1) + j - 1]
      BY <2>1, SubSeqProperties
    <2>3. Len(c) - (i + 1) + 1 = Len(c) - i /\ \A j \in 1 .. Len(c) - i : (i + 1) + j - 1 = i + j
      BY <1>1
    <2>4. Len(b) = Len(c) - i
      <3>1. CASE i + 1 <= Len(c)
        BY <1>1, <2>2, <3>1
      <3>2. CASE ~(i + 1 <= Len(c))
        <4>1. i = Len(c) /\ Len(b) = 0
          BY <1>1, <2>2, <3>2
        <4> QED
          BY <1>1, <4>1
      <3> QED
        BY <3>1, <3>2
    <2>5. ASSUME NEW j \in 1 .. Len(c) - i
          PROVE  b[j] = c[i + j]
      <3>1. (i + 1) + j - 1 = i + j /\ j \in 1 .. Len(c) - (i + 1) + 1
        BY <1>1
      <3> QED
        BY <2>2, <3>1
    <2> QED
      BY <2>2, <2>4, <2>5
  <1> HIDE DEF a, b
  <1>4. /\ a \o b \in Seq(S) /\ Len(a \o b) = Len(a) + Len(b)
        /\ \A j \in 1 .. Len(a) + Len(b) : (a \o b)[j] = IF j <= Len(a) THEN a[j] ELSE b[j - Len(a)]
    BY <1>2, <1>3, ConcatProperties
  <1>5. RemoveAt(c, i) = a \o b
    BY DEF RemoveAt, a, b
  <1>6. Len(a) + Len(b) = Len(c) - 1
    BY <1>1, <1>2, <1>3
  <1>7. ASSUME NEW j \in 1 .. Len(c) - 1
        PROVE  (a \o b)[j] = IF j < i THEN c[j] ELSE c[j + 1]
    <2>1. CASE j < i
      <3>1. j \in 1 .. i - 1 /\ j <= Len(a)
        BY <1>1, <1>2, <2>1
      <3> QED
        BY <1>2, <1>4, <1>6, <2>1, <3>1
    <2>2. CASE ~(j < i)
      <3>1. j - (i - 1) \in 1 .. Len(c) - i /\ ~(j <= Len(a)) /\ i + (j - (i - 1)) = j + 1
        BY <1>1, <1>2, <2>2
      <3>2. (a \o b)[j] = b[j - (i - 1)]
        BY <1>2, <1>4, <1>6, <3>1
      <3> QED
        BY <1>3, <2>2, <3>1, <3>2
    <2> QED
      BY <2>1, <2>2
  <1> QED
    BY <1>4, <1>5, <1>6, <1>7

\* The entry of k is taken out.
Unlinked(t, n, k) == [t EXCEPT ![Hash[k] % n] = Unlink(@, k)]

\* The entry of k is taken out of its chain, and nothing else.
LEMMA UnlinkIn ==
  ASSUME NEW n \in Nat, NEW t, Chained(t, n), NEW k \in Keys, Has(t, k),
         NEW u, u = Unlinked(t, n, k)
  PROVE  /\ Chained(u, n)
         /\ Below(u, n) = Below(t, n) \ {EntryOf(t, k)}
PROOF
  <1> DEFINE h == Hash[k] % n
             c == t[h]
             d == Unlink(c, k)
             i == Position(c, k)
             f == EntryOf(t, k)
  <1>1. /\ n \in Nat \ {0} /\ h \in Slots(n) /\ c \in Seq(Entries)
        /\ i \in 1 .. Len(c) /\ c[i] = f /\ f.key = k /\ f \in Below(t, n)
    <2>1. /\ n \in Nat \ {0} /\ ChainOf(t, k) = c
          /\ Position(ChainOf(t, k), k) \in 1 .. Len(ChainOf(t, k))
          /\ f = ChainOf(t, k)[Position(ChainOf(t, k), k)]
          /\ f \in Below(t, n) /\ f.key = k
      BY Found
    <2>2. h \in Slots(n)
      BY <2>1, SlotOfKey
    <2>3. c \in Seq(Entries)
      BY <2>2 DEF Chained
    <2> HIDE DEF c, f
    <2> QED
      BY <2>1, <2>2, <2>3
  <1>2. Len(c) \in Nat /\ DOMAIN c = 1 .. Len(c) /\ \A j \in 1 .. Len(c) : c[j] \in Entries
    BY <1>1, LenProperties, ElementOfSeq
  <1>3. /\ d \in Seq(Entries) /\ Len(d) = Len(c) - 1
        /\ \A j \in 1 .. Len(c) - 1 : d[j] = IF j < i THEN c[j] ELSE c[j + 1]
    <2> HIDE DEF c, i
    <2> QED
      BY <1>1, RemoveAtIs DEF Unlink, i
  <1>4. u = [t EXCEPT ![h] = d] /\ \A q \in Slots(n) : u[q] = IF q = h THEN d ELSE t[q]
    BY <1>1 DEF Chained, Unlinked
  <1>5. u \in [Slots(n) -> Seq(Entries)]
    <2> HIDE DEF c, d, h
    <2> QED
      BY <1>1, <1>3, <1>4 DEF Chained
  <1>6. \A j, l \in 1 .. Len(c) : c[j].key = c[l].key => j = l
    BY <1>1 DEF Chained
  <1>7. \A j \in 1 .. Len(c) : Hash[c[j].key] % n = h
    BY <1>1 DEF Chained
  <1> HIDE DEF c, d, h, i, f
  <1> DEFINE from(j) == IF j < i THEN j ELSE j + 1
  <1>8. \A j \in 1 .. Len(d) : from(j) \in 1 .. Len(c) /\ from(j) # i /\ d[j] = c[from(j)]
    BY <1>1, <1>2, <1>3
  <1>9. \A j, l \in 1 .. Len(d) : from(j) = from(l) => j = l
    BY <1>1, <1>2, <1>3
  <1>10. \A j \in 1 .. Len(c) : j # i => \E l \in 1 .. Len(d) : d[l] = c[j]
    <2> SUFFICES ASSUME NEW j \in 1 .. Len(c), j # i
                 PROVE  \E l \in 1 .. Len(d) : d[l] = c[j]
      OBVIOUS
    <2>1. CASE j < i
      <3>1. j \in 1 .. Len(d) /\ d[j] = c[j]
        BY <1>1, <1>2, <1>3, <2>1
      <3> QED
        BY <3>1
    <2>2. CASE j > i
      <3>1. j - 1 \in 1 .. Len(c) - 1 /\ ~(j - 1 < i) /\ (j - 1) + 1 = j
        BY <1>1, <1>2, <2>2
      <3>2. d[j - 1] = c[j]
        BY <1>3, <3>1
      <3> QED
        BY <1>3, <3>1, <3>2
    <2> QED
      BY <1>1, <1>2, <2>1, <2>2
  <1> HIDE DEF from
  <1>11. Chained(u, n)
    <2>1. ASSUME NEW q \in Slots(n), NEW j \in 1 .. Len(u[q])
          PROVE  Hash[u[q][j].key] % n = q
      <3>1. CASE q = h
        BY <1>4, <1>7, <1>8, <3>1
      <3>2. CASE q # h
        BY <1>4, <3>2 DEF Chained
      <3> QED
        BY <3>1, <3>2
    <2>2. ASSUME NEW q \in Slots(n), NEW j \in 1 .. Len(u[q]), NEW l \in 1 .. Len(u[q]),
                 u[q][j].key = u[q][l].key
          PROVE  j = l
      <3>1. CASE q = h
        <4>1. u[q] = d
          BY <1>4, <3>1
        <4>2. from(j) = from(l)
          BY <1>6, <1>8, <2>2, <4>1
        <4> QED
          BY <1>9, <4>1, <4>2
      <3>2. CASE q # h
        BY <1>4, <2>2, <3>2 DEF Chained
      <3> QED
        BY <3>1, <3>2
    <2> QED
      BY <1>5, <2>1, <2>2 DEF Chained
  <1>12. \A x \in Entries : x \in Below(u, n) <=> x \in Below(t, n) /\ x # f
    <2> TAKE x \in Entries
    <2>1. ASSUME NEW q \in Slots(n), NEW j \in 1 .. Len(u[q]), u[q][j] = x
          PROVE  x \in Below(t, n) /\ x # f
      <3>1. CASE q = h
        <4>1. from(j) \in 1 .. Len(c) /\ from(j) # i /\ c[from(j)] = x
          BY <1>4, <1>8, <2>1, <3>1
        <4>2. x # f
          BY <1>1, <1>6, <4>1
        <4> QED
          BY <1>1, <4>1, <4>2 DEF Below, c
      <3>2. CASE q # h
        <4>1. t[q][j] = x /\ j \in 1 .. Len(t[q])
          BY <1>4, <2>1, <3>2
        <4>2. Hash[x.key] % n = q
          BY <4>1 DEF Chained
        <4>3. x # f
          BY <1>1, <3>2, <4>2 DEF h
        <4> QED
          BY <4>1, <4>3 DEF Below
      <3> QED
        BY <3>1, <3>2
    <2>2. ASSUME NEW q \in Slots(n), NEW j \in 1 .. Len(t[q]), t[q][j] = x, x # f
          PROVE  \E p \in Slots(n) : \E l \in 1 .. Len(u[p]) : u[p][l] = x
      <3>1. CASE q = h
        <4>1. j \in 1 .. Len(c) /\ c[j] = x /\ j # i
          BY <1>1, <2>2, <3>1 DEF c
        <4>2. PICK l \in 1 .. Len(d) : d[l] = x
          BY <1>10, <4>1
        <4> QED
          BY <1>1, <1>4, <4>2
      <3>2. CASE q # h
        BY <1>4, <2>2, <3>2
      <3> QED
        BY <3>1, <3>2
    <2> QED
      BY <2>1, <2>2 DEF Below
  <1>13. Below(u, n) \subseteq Entries /\ Below(t, n) \subseteq Entries
    BY DEF Below
  <1>14. Below(u, n) = Below(t, n) \ {f}
    BY <1>12, <1>13
  <1> QED
    BY <1>11, <1>14 DEF f

-----------------------------------------------------------------------------
(* The inductive invariant.                                                  *)

\* The entries of the table, and the keys that have one.
Held == Below(table, size)
KeysHeld == {k \in Keys : \E e \in Held : e.key = k}

TableInv ==
  /\ size \in Nat /\ Chained(table, size)
  /\ used = Cardinality(KeysHeld)

\* A cell is used when it is the value of an entry, that of its own key.
CellInv ==
  /\ heap \in [Cells -> Callbacks \cup {NoCallback}]
  /\ \A e \in Held : e.val[1] = e.key
  /\ \A c \in Cells : heap[c] # NoCallback <=> \E e \in Held : e.val = c

IsSeen(k) == \E a \in 1 .. Len(seen) : seen[a] = k

\* Of the chain c those before the entry of k are seen, no others.
SeenUpTo(c, k) ==
  \E p \in 1 .. Len(c) : c[p].key = k /\ \A j \in 1 .. Len(c) : IsSeen(c[j].key) <=> j < p

\* The slots behind the iterator are seen, those before it are not, and in its
\* own what follows is what it has saved as the next.
IterInv ==
  /\ iter \in [on : BOOLEAN, index : -1 .. size,
               entry : Keys \cup {NoKey}, next : Keys \cup {NoKey}]
  /\ seen \in Seq(Keys)
  /\ ~iter.on => iter.index = -1
  /\ iter.on =>
       /\ \A a, b \in 1 .. Len(seen) : seen[a] = seen[b] => a = b
       /\ iter.entry = NoKey <=> iter.index \in {-1, size}
       /\ IF iter.entry = NoKey THEN iter.next = NoKey ELSE IsSeen(iter.entry)
       /\ \A q \in Slots(size) : \A j \in 1 .. Len(table[q]) :
            /\ q < iter.index => IsSeen(table[q][j].key)
            /\ q > iter.index => ~IsSeen(table[q][j].key)
            /\ q = iter.index /\ iter.next = NoKey => IsSeen(table[q][j].key)
       /\ iter.next # NoKey => SeenUpTo(table[iter.index], iter.next)

ResultInv == result \in BOOLEAN \cup Keys \cup Callbacks \cup {NoCallback}

IInv == TableInv /\ CellInv /\ IterInv /\ ResultInv

\* An entry is found under its key.
LEMMA Looked ==
  ASSUME NEW n \in Nat, NEW t, Chained(t, n), NEW e \in Below(t, n)
  PROVE  e \in Entries /\ e.key \in Keys /\ Has(t, e.key) /\ EntryOf(t, e.key) = e
PROOF
  <1>1. e \in Entries /\ e.key \in Keys
    BY DEF Below, Entries
  <1>2. Has(t, e.key)
    BY <1>1, Found
  <1>3. EntryOf(t, e.key) \in Below(t, n) /\ EntryOf(t, e.key).key = e.key
    BY <1>1, <1>2, Found
  <1> QED
    BY <1>1, <1>2, <1>3, KeyIsUnique

\* A set whose members can be numbered up to l has l members.
LEMMA Numbered ==
  ASSUME NEW l \in Nat, NEW K, NEW f \in [1 .. l -> K],
         \A a, b \in 1 .. l : f[a] = f[b] => a = b,
         \A k \in K : \E a \in 1 .. l : f[a] = k
  PROVE  Cardinality(K) = l
PROOF
  <1>1. f \in Bijection(1 .. l, K)
    BY DEF Bijection, Injection, Surjection, IsInjective
  <1>2. ExistsBijection(1 .. l, K)
    BY <1>1 DEF ExistsBijection
  <1> QED
    BY <1>2, FS_CountingElements

\* A list of entries is as long as there are keys.
LEMMA ListCount ==
  ASSUME NEW E, E \subseteq Entries, NEW s, Lists(s, E)
  PROVE  /\ Len(s) \in Nat
         /\ Cardinality({k \in Keys : \E e \in E : e.key = k}) = Len(s)
PROOF
  <1> DEFINE K == {k \in Keys : \E e \in E : e.key = k}
             f == [a \in 1 .. Len(s) |-> s[a].key]
  <1>1. Len(s) \in Nat
    BY LenProperties DEF Lists
  <1>2. f \in [1 .. Len(s) -> K]
    <2> SUFFICES ASSUME NEW a \in 1 .. Len(s)
                 PROVE  s[a].key \in K
      OBVIOUS
    <2>1. s[a] \in E
      BY DEF Lists
    <2>2. s[a].key \in Keys
      BY <2>1 DEF Entries
    <2> QED
      BY <2>1, <2>2
  <1>3. \A a, b \in 1 .. Len(s) : f[a] = f[b] => a = b
    BY DEF Lists
  <1>4. \A k \in K : \E a \in 1 .. Len(s) : f[a] = k
    BY DEF Lists
  <1> HIDE DEF f, K
  <1>5. Cardinality(K) = Len(s)
    BY <1>1, <1>2, <1>3, <1>4, Numbered
  <1> QED
    BY <1>1, <1>5 DEF K

\* Before anything is put into it a table has grown, if it must.
LEMMA Grown ==
  ASSUME TableInv
  PROVE  \E n \in Nat \ {0} : /\ Chained(Expanded, n) /\ Below(Expanded, n) = Held
                              /\ Cardinality(DOMAIN Expanded) = n /\ n >= size
PROOF
  <1>1. size \in Nat /\ Chained(table, size)
    BY DEF TableInv
  <1>2. ASSUME NEW m \in Nat, m >= size, Expanded = Expand(table, m)
        PROVE  \E n \in Nat \ {0} : /\ Chained(Expanded, n) /\ Below(Expanded, n) = Held
                                    /\ Cardinality(DOMAIN Expanded) = n /\ n >= size
    <2>1. /\ NextPower(m) \in Nat \ {0} /\ Chained(Expanded, NextPower(m))
          /\ Below(Expanded, NextPower(m)) = Held
      BY <1>1, <1>2, ExpandIs DEF Held
    <2>2. NextPower(m) >= size
      BY <1>1, <1>2, NextPowerIs
    <2>3. Cardinality(DOMAIN Expanded) = NextPower(m)
      BY <2>1, SlotCount DEF Chained
    <2> QED
      BY <2>1, <2>2, <2>3
  <1>3. CASE size = 0
    <2>1. Expanded = Expand(table, InitialSize)
      BY <1>3 DEF Expanded
    <2>2. InitialSize \in Nat /\ InitialSize >= size
      BY <1>3, DictAssumption
    <2> QED
      BY <1>2, <2>1, <2>2
  <1>4. CASE size # 0 /\ size = used
    <2>1. Expanded = Expand(table, size * 2) /\ size * 2 \in Nat /\ size * 2 >= size
      BY <1>1, <1>4 DEF Expanded
    <2> QED
      BY <1>2, <2>1
  <1>5. CASE size # 0 /\ size # used
    <2>1. Expanded = table
      BY <1>5 DEF Expanded
    <2> QED
      BY <1>1, <1>5, <2>1 DEF Held, size
  <1> QED
    BY <1>3, <1>4, <1>5

\* The cell for a new value is free.
LEMMA FreshIs ==
  ASSUME TableInv, CellInv, NEW k \in Keys
  PROVE  Fresh(k) \in Cells /\ Fresh(k)[1] = k /\ heap[Fresh(k)] = NoCallback
PROOF
  <1>1. <<k, 1>> \in Cells /\ <<k, 2>> \in Cells /\ <<k, 1>> # <<k, 2>>
    BY DEF Cells
  <1>2. CASE heap[<<k, 1>>] = NoCallback
    BY <1>1, <1>2 DEF Fresh
  <1>3. CASE heap[<<k, 1>>] # NoCallback
    <2>1. PICK e \in Held : e.val = <<k, 1>>
      BY <1>1, <1>3 DEF CellInv
    <2>2. heap[<<k, 2>>] = NoCallback
      <3> SUFFICES ASSUME heap[<<k, 2>>] # NoCallback
                   PROVE  FALSE
        OBVIOUS
      <3>1. PICK f \in Held : f.val = <<k, 2>>
        BY <1>1 DEF CellInv
      <3>2. e.key = k /\ f.key = k
        BY <2>1, <3>1 DEF CellInv
      <3>3. e = f
        BY <3>2, KeyIsUnique DEF Held, TableInv
      <3> QED
        BY <1>1, <2>1, <3>1, <3>3
    <2> QED
      BY <1>1, <1>3, <2>2 DEF Fresh
  <1> QED
    BY <1>2, <1>3

\* What a step makes of the table.
LEMMA Changed ==
  ASSUME NEW n \in Nat, Chained(table', n)
  PROVE  size' = n /\ Held' = Below(table', n)
PROOF
  <1>1. size' = n
    BY SlotCount DEF size, Chained
  <1> QED
    BY <1>1 DEF Held

-----------------------------------------------------------------------------
(* Every step keeps the invariant.                                           *)

\* A table with the keys it had is counted as before, one with another key
\* or without one of its keys is counted one higher or lower.
LEMMA KeyCount ==
  ASSUME NEW k \in Keys, NEW A \in SUBSET Keys
  PROVE  /\ k \notin A => Cardinality(A \cup {k}) = Cardinality(A) + 1
         /\ k \in A => Cardinality(A \ {k}) = Cardinality(A) - 1
PROOF
  <1>1. IsFiniteSet(A)
    BY FS_Subset, DictAssumption
  <1> QED
    BY <1>1, FS_AddElement, FS_RemoveElement

LEMMA ReplaceTable ==
  ASSUME IInv, NEW k \in Keys, NEW cb \in Callbacks, DictReplace(k, cb)
  PROVE  /\ TableInv' /\ size' >= size
         /\ \E c \in Cells, e \in Entries :
              /\ c[1] = k /\ heap[c] = NoCallback /\ e = [key |-> k, val |-> c]
              /\ Held' = {x \in Held : x.key # k} \cup {e}
              /\ \A d \in Cells : heap'[d] = IF d = c THEN cb
                                             ELSE IF \E x \in Held : x.key = k /\ x.val = d
                                                  THEN NoCallback ELSE heap[d]
PROOF
  <1> DEFINE t == Expanded
             c == Fresh(k)
             e == [key |-> k, val |-> c]
  <1>1. PICK n \in Nat \ {0} : /\ Chained(t, n) /\ Below(t, n) = Held
                               /\ Cardinality(DOMAIN t) = n /\ n >= size
    BY Grown DEF IInv
  <1>2. c \in Cells /\ c[1] = k /\ heap[c] = NoCallback
    BY FreshIs DEF IInv
  <1>3. e \in Entries /\ e.key = k /\ e.val = c
    BY <1>2 DEF Entries
  <1>4. used = Cardinality(KeysHeld) /\ KeysHeld \in SUBSET Keys
    BY DEF IInv, TableInv, KeysHeld
  <1>5. /\ heap \in [Cells -> Callbacks \cup {NoCallback}]
        /\ \A x \in Held : x.val[1] = x.key /\ x.val \in Cells
    BY DEF IInv, CellInv, Held, Below, Entries
  <1> HIDE DEF t, c, e
  <1>6. CASE Has(t, k)
    <2> DEFINE f == EntryOf(t, k)
    <2>1. f \in Held /\ f.key = k /\ \A x \in Held : x.key = k => x = f
      BY <1>1, <1>6, Found, KeyIsUnique
    <2>2. /\ table' = Written(t, n, k, e)
          /\ heap' = [heap EXCEPT ![c] = cb, ![f.val] = NoCallback] /\ used' = used
      BY <1>1, <1>6 DEF DictReplace, Written, t, c, e
    <2>3. Chained(table', n) /\ Below(table', n) = (Held \ {f}) \cup {e}
      BY <1>1, <1>3, <1>6, <2>2, SetIn
    <2>4. size' = n /\ Held' = (Held \ {f}) \cup {e}
      BY <2>3, Changed
    <2>5. KeysHeld' = KeysHeld
      BY <1>3, <2>1, <2>4 DEF KeysHeld
    <2>6. TableInv'
      BY <1>4, <2>2, <2>3, <2>4, <2>5 DEF TableInv
    <2>7. Held' = {x \in Held : x.key # k} \cup {e}
      BY <2>1, <2>4
    <2>8. c # f.val /\ f.val \in Cells
      BY <1>2, <1>5, <2>1 DEF IInv, CellInv
    <2>9. \A d \in Cells : (\E x \in Held : x.key = k /\ x.val = d) <=> d = f.val
      BY <2>1
    <2>10. \A d \in Cells : heap'[d] = IF d = c THEN cb ELSE IF d = f.val THEN NoCallback ELSE heap[d]
      BY <1>2, <1>5, <2>2, <2>8
    <2> QED
      BY <1>1, <1>2, <1>3, <2>4, <2>6, <2>7, <2>9, <2>10 DEF e
  <1>7. CASE ~Has(t, k)
    <2>1. \A x \in Held : x.key # k
      BY <1>1, <1>7, Found
    <2>2. /\ table' = Put(t, n, e)
          /\ heap' = [heap EXCEPT ![c] = cb] /\ used' = used + 1
      BY <1>1, <1>7 DEF DictReplace, Put, t, c, e
    <2>3. Chained(table', n) /\ Below(table', n) = Held \cup {e}
      BY <1>1, <1>3, <2>1, <2>2, PutIn
    <2>4. size' = n /\ Held' = Held \cup {e}
      BY <2>3, Changed
    <2>5. KeysHeld' = KeysHeld \cup {k} /\ k \notin KeysHeld
      BY <1>3, <2>1, <2>4 DEF KeysHeld
    <2>6. TableInv'
      BY <1>4, <2>2, <2>3, <2>4, <2>5, KeyCount DEF TableInv
    <2>7. Held' = {x \in Held : x.key # k} \cup {e}
      BY <2>1, <2>4
    <2>8. \A d \in Cells : ~\E x \in Held : x.key = k /\ x.val = d
      BY <2>1
    <2>9. \A d \in Cells : heap'[d] = IF d = c THEN cb ELSE heap[d]
      BY <1>2, <1>5, <2>2
    <2> QED
      BY <1>1, <1>2, <1>3, <2>4, <2>6, <2>7, <2>8, <2>9 DEF e
  <1> QED
    BY <1>6, <1>7

LEMMA ReplaceCells ==
  ASSUME IInv, NEW k \in Keys, NEW cb \in Callbacks, DictReplace(k, cb)
  PROVE  CellInv'
PROOF
  <1>1. PICK c \in Cells, e \in Entries :
              /\ c[1] = k /\ heap[c] = NoCallback /\ e = [key |-> k, val |-> c]
              /\ Held' = {x \in Held : x.key # k} \cup {e}
              /\ \A d \in Cells : heap'[d] = IF d = c THEN cb
                                             ELSE IF \E x \in Held : x.key = k /\ x.val = d
                                                  THEN NoCallback ELSE heap[d]
    BY ReplaceTable
  <1>2. e.key = k /\ e.val = c /\ cb # NoCallback
    BY <1>1, DictAssumption
  <1>3. /\ heap \in [Cells -> Callbacks \cup {NoCallback}]
        /\ \A x \in Held : x.val[1] = x.key
        /\ \A d \in Cells : heap[d] # NoCallback <=> \E x \in Held : x.val = d
    BY DEF IInv, CellInv
  <1>4. heap' \in [Cells -> Callbacks \cup {NoCallback}]
    <2>1. heap' = [heap EXCEPT ![Fresh(k)] = cb, ![EntryOf(Expanded, k).val] = NoCallback]
          \/ heap' = [heap EXCEPT ![Fresh(k)] = cb]
      BY DEF DictReplace
    <2> QED
      BY <1>3, <2>1
  <1>5. \A x \in Held' : x.val[1] = x.key
    BY <1>1, <1>2, <1>3
  <1>6. ASSUME NEW d \in Cells
        PROVE  heap'[d] # NoCallback <=> \E x \in Held' : x.val = d
    <2>1. CASE d = c
      BY <1>1, <1>2, <2>1
    <2>2. ASSUME d # c, NEW y \in Held, y.key = k, y.val = d
          PROVE  ~\E x \in Held' : x.val = d
      BY <1>1, <1>2, <1>3, <2>2
    <2>3. CASE d # c /\ ~\E x \in Held : x.key = k /\ x.val = d
      BY <1>1, <1>2, <1>3, <2>3
    <2>4. CASE d # c /\ \E x \in Held : x.key = k /\ x.val = d
      BY <1>1, <2>2, <2>4
    <2> QED
      BY <2>1, <2>3, <2>4
  <1> QED
    BY <1>4, <1>5, <1>6 DEF CellInv

LEMMA DeleteTable ==
  ASSUME IInv, NEW k \in Keys, DictDelete(k)
  PROVE  /\ TableInv' /\ CellInv' /\ size' = size
         /\ Held' = {x \in Held : x.key # k}
         /\ \A d \in Cells : d[1] # k => heap'[d] = heap[d]
PROOF
  <1> DEFINE f == EntryOf(table, k)
  <1>1. size \in Nat /\ Chained(table, size) /\ used = Cardinality(KeysHeld) /\ KeysHeld \in SUBSET Keys
    BY DEF IInv, TableInv, KeysHeld
  <1>2. /\ heap \in [Cells -> Callbacks \cup {NoCallback}]
        /\ \A x \in Held : x.val[1] = x.key /\ x.val \in Cells
        /\ \A d \in Cells : heap[d] # NoCallback <=> \E x \in Held : x.val = d
    BY DEF IInv, CellInv, Held, Below, Entries
  <1>3. CASE Has(table, k)
    <2>1. f \in Held /\ f.key = k /\ \A x \in Held : x.key = k => x = f
      BY <1>1, <1>3, Found, KeyIsUnique DEF Held
    <2>2. /\ table' = Unlinked(table, size, k)
          /\ heap' = [heap EXCEPT ![f.val] = NoCallback] /\ used' = used - 1
      BY <1>3 DEF DictDelete, Unlinked
    <2>3. Chained(table', size) /\ Below(table', size) = Held \ {f}
      BY <1>1, <1>3, <2>2, UnlinkIn DEF Held
    <2>4. size' = size /\ Held' = Held \ {f}
      BY <1>1, <2>3, Changed
    <2>5. KeysHeld' = KeysHeld \ {k} /\ k \in KeysHeld
      BY <2>1, <2>4 DEF KeysHeld
    <2>6. TableInv'
      BY <1>1, <2>2, <2>3, <2>4, <2>5, KeyCount DEF TableInv
    <2>7. Held' = {x \in Held : x.key # k}
      BY <2>1, <2>4
    <2>8. /\ heap' \in [Cells -> Callbacks \cup {NoCallback}]
          /\ \A d \in Cells : heap'[d] = IF d = f.val THEN NoCallback ELSE heap[d]
      BY <1>2, <2>2
    <2>9. \A x \in Held : x.val = f.val => x = f
      BY <1>2, <2>1
    <2>10. \A d \in Cells : heap'[d] # NoCallback <=> \E x \in Held' : x.val = d
      BY <1>2, <2>1, <2>4, <2>8, <2>9
    <2>11. CellInv'
      BY <1>2, <2>4, <2>8, <2>10 DEF CellInv
    <2> QED
      BY <1>2, <2>1, <2>4, <2>6, <2>7, <2>8, <2>11
  <1>4. CASE ~Has(table, k)
    <2>1. UNCHANGED <<table, heap, used>>
      BY <1>4 DEF DictDelete
    <2>2. \A x \in Held : x.key # k
      BY <1>1, <1>4, Found DEF Held
    <2>3. size' = size /\ Held' = Held
      BY <2>1 DEF size, Held
    <2>4. TableInv' /\ CellInv'
      BY <2>1, <2>3 DEF IInv, TableInv, CellInv, KeysHeld
    <2> QED
      BY <2>1, <2>2, <2>3, <2>4
  <1> QED
    BY <1>3, <1>4

LEMMA ReleaseTable ==
  ASSUME IInv, DictRelease
  PROVE  TableInv' /\ CellInv' /\ size' = 0 /\ Held' = {}
PROOF
  <1> DEFINE all == AllEntries(table)
  <1>1. size \in Nat /\ Chained(table, size) /\ used = Cardinality(KeysHeld) /\ Held \subseteq Entries
    BY DEF IInv, TableInv, Held, Below
  <1>2. Lists(all, Held)
    BY <1>1, AllEntriesAre DEF Held
  <1>3. used = Len(all) /\ DOMAIN all = 1 .. Len(all)
    <2>1. DOMAIN all = 1 .. Len(all)
      BY <1>2, LenProperties DEF Lists
    <2> QED
      BY <1>1, <1>2, <2>1, ListCount DEF KeysHeld
  <1> HIDE DEF all
  <1>4. \A c \in Cells : heap'[c] = NoCallback
    <2> SUFFICES ASSUME NEW c \in Cells, heap[c] # NoCallback
                 PROVE  \E a \in DOMAIN all : a <= used /\ all[a].val = c
      BY DEF DictRelease, all
    <2>1. PICK e \in Held : e.val = c
      BY DEF IInv, CellInv
    <2>2. PICK a \in 1 .. Len(all) : all[a] = e
      BY <1>2 DEF Lists
    <2>3. a \in DOMAIN all /\ a <= used
      BY <1>3, <2>2
    <2> QED
      BY <2>1, <2>2, <2>3
  <1>5. heap' \in [Cells -> {NoCallback}]
    BY <1>4 DEF DictRelease
  <1>6. Chained(table', 0) /\ Below(table', 0) = {}
    <2>1. Slots(0) = {}
      BY DEF Slots
    <2>2. table' = [i \in {} |-> <<>>]
      BY DEF DictRelease, EmptyTable
    <2> QED
      BY <2>1, <2>2 DEF Chained, Below
  <1>7. size' = 0 /\ Held' = {}
    BY <1>6, Changed
  <1>8. KeysHeld' = {} /\ used' = 0
    BY <1>7 DEF KeysHeld, DictRelease
  <1>9. TableInv'
    BY <1>6, <1>7, <1>8, FS_EmptySet DEF TableInv
  <1> QED
    BY <1>4, <1>5, <1>7, <1>9 DEF CellInv

\* The table stays as it is.
LEMMA SameTable ==
  ASSUME TableInv, CellInv, UNCHANGED <<table, used, heap>>
  PROVE  TableInv' /\ CellInv' /\ size' = size /\ Held' = Held
PROOF
  <1>1. size' = size /\ Held' = Held
    BY DEF size, Held
  <1> QED
    BY <1>1 DEF TableInv, CellInv, KeysHeld

-----------------------------------------------------------------------------
(* The iterator.                                                             *)

\* One more key is seen.
LEMMA SeenMore ==
  ASSUME seen \in Seq(Keys), NEW k \in Keys, seen' = Append(seen, k)
  PROVE  /\ seen' \in Seq(Keys)
         /\ \A x : IsSeen(x)' <=> IsSeen(x) \/ x = k
         /\ (/\ ~IsSeen(k)
             /\ \A a, b \in 1 .. Len(seen) : seen[a] = seen[b] => a = b)
            => \A a, b \in 1 .. Len(seen') : seen'[a] = seen'[b] => a = b
PROOF
  <1>1. /\ seen' \in Seq(Keys) /\ Len(seen') = Len(seen) + 1 /\ Len(seen) \in Nat
        /\ \A a \in 1 .. Len(seen) : seen'[a] = seen[a]
        /\ seen'[Len(seen) + 1] = k
    OBVIOUS
  <1>2. \A a \in 1 .. Len(seen') : a \in 1 .. Len(seen) \/ a = Len(seen) + 1
    BY <1>1
  <1>3. \A a \in 1 .. Len(seen) : a \in 1 .. Len(seen') /\ a # Len(seen) + 1
    BY <1>1
  <1>4. Len(seen) + 1 \in 1 .. Len(seen')
    BY <1>1
  <1>5. \A x : IsSeen(x)' <=> IsSeen(x) \/ x = k
    BY <1>1, <1>2, <1>3, <1>4 DEF IsSeen
  <1> QED
    BY <1>1, <1>2, <1>3, <1>5 DEF IsSeen

\* What follows an entry in its chain.
LEMMA AfterIs ==
  ASSUME TableInv, NEW q \in Slots(size), NEW p \in 1 .. Len(table[q]),
         NEW k, k = table[q][p].key
  PROVE  /\ k \in Keys /\ \A j \in 1 .. Len(table[q]) : table[q][j].key \in Keys
         /\ Len(table[q]) \in Nat
         /\ After(k) = IF p = Len(table[q]) THEN NoKey ELSE table[q][p + 1].key
PROOF
  <1>1. size \in Nat /\ table[q] \in Seq(Entries)
    BY DEF TableInv, Chained
  <1>2. \A j \in 1 .. Len(table[q]) : table[q][j] \in Entries /\ table[q][j].key \in Keys
    <2>1. \A j \in 1 .. Len(table[q]) : table[q][j] \in Entries
      BY <1>1, ElementOfSeq
    <2>2. \A e \in Entries : e.key \in Keys
      BY DEF Entries
    <2> QED
      BY <2>1, <2>2
  <1>3. Hash[k] % size = q
    BY DEF TableInv, Chained
  <1>4. ChainOf(table, k) = table[q]
    BY <1>3 DEF ChainOf, size
  <1>5. Position(table[q], k) = p
    <2>1. \A j \in 1 .. Len(table[q]) : table[q][j].key = k => j = p
      BY DEF TableInv, Chained
    <2> QED
      BY <2>1 DEF Position
  <1> QED
    BY <1>1, <1>2, <1>4, <1>5, LenProperties DEF After

\* The search for the next slot that is filled.
LEMMA FirstFilledIs ==
  ASSUME TableInv, NEW i \in 0 .. size
  PROVE  /\ FirstFilled(i) \in i .. size
         /\ FirstFilled(i) < size => Len(table[FirstFilled(i)]) \in Nat \ {0}
         /\ \A q \in Slots(size) : i <= q /\ q < FirstFilled(i) => Len(table[q]) = 0
PROOF
  <1> DEFINE filled == {j \in i .. size - 1 : table[j] # <<>>}
  <1>1. size \in Nat /\ \A q \in Slots(size) : table[q] \in Seq(Entries)
    BY DEF TableInv, Chained
  <1>2. \A q \in i .. size - 1 : q \in Slots(size)
    BY <1>1 DEF Slots
  <1>3. \A q \in Slots(size) : /\ table[q] = <<>> => Len(table[q]) = 0
                               /\ table[q] # <<>> => Len(table[q]) \in Nat \ {0}
    BY <1>1, EmptySeq
  <1>4. CASE filled = {}
    <2>1. FirstFilled(i) = size
      BY <1>4 DEF FirstFilled
    <2>2. \A q \in Slots(size) : i <= q => q \in i .. size - 1
      BY <1>1 DEF Slots
    <2> QED
      BY <1>1, <1>3, <1>4, <2>1, <2>2
  <1>5. CASE filled # {}
    <2> DEFINE Is(j) == \A m \in filled : j <= m
    <2>1. filled \in SUBSET Nat
      BY <1>1
    <2>2. \E j \in filled : Is(j)
      <3> HIDE DEF filled
      <3> QED
        BY <1>5, <2>1, LeastNumber
    <2>3. FirstFilled(i) = CHOOSE j \in filled : Is(j)
      BY <1>5 DEF FirstFilled
    <2>4. FirstFilled(i) \in filled /\ Is(FirstFilled(i))
      <3> HIDE DEF filled, Is
      <3> QED
        BY <2>2, <2>3
    <2>5. \A q \in Slots(size) : i <= q /\ q < FirstFilled(i) => q \in i .. size - 1 /\ q \notin filled
      BY <1>1, <2>4 DEF Slots
    <2>6. \A q \in Slots(size) : i <= q /\ q < FirstFilled(i) => table[q] = <<>>
      BY <2>5
    <2> QED
      BY <1>1, <1>2, <1>3, <2>4, <2>6
  <1> QED
    BY <1>4, <1>5

\* The iterator comes to the entry at position p of slot q.
LEMMA VisitStep ==
  ASSUME IInv, iter.on, UNCHANGED table,
         NEW q \in Slots(size), NEW p \in 1 .. Len(table[q]), NEW k, k = table[q][p].key,
         \A r \in Slots(size) : \A j \in 1 .. Len(table[r]) :
           /\ r < q => IsSeen(table[r][j].key)
           /\ r > q => ~IsSeen(table[r][j].key),
         \A j \in 1 .. Len(table[q]) : IsSeen(table[q][j].key) <=> j < p,
         iter' = [on |-> TRUE, index |-> q, entry |-> k, next |-> After(k)],
         seen' = Append(seen, k)
  PROVE  IterInv'
PROOF
  <1> DEFINE c == table[q]
  <1>1. /\ k \in Keys /\ Len(c) \in Nat /\ \A j \in 1 .. Len(c) : c[j].key \in Keys
        /\ After(k) = IF p = Len(c) THEN NoKey ELSE c[p + 1].key
    BY AfterIs DEF IInv
  <1>2. size \in Nat /\ size' = size /\ NoKey \notin Keys
    BY DictAssumption DEF IInv, TableInv, size
  <1>3. q \in 0 .. size - 1 /\ q \in -1 .. size /\ q \notin {-1, size}
    BY <1>2 DEF Slots
  <1>4. ~IsSeen(k)
    BY <1>1
  <1>5. /\ seen' \in Seq(Keys) /\ \A x : IsSeen(x)' <=> IsSeen(x) \/ x = k
        /\ \A a, b \in 1 .. Len(seen') : seen'[a] = seen'[b] => a = b
    BY <1>1, <1>4, SeenMore DEF IInv, IterInv
  <1>6. \A j \in 1 .. Len(c) : c[j].key = k => j = p
    BY DEF IInv, TableInv, Chained
  <1>7. \A j \in 1 .. Len(c) : IsSeen(c[j].key)' <=> j <= p
    <2> TAKE j \in 1 .. Len(c)
    <2>1. table'[q] = c /\ (j <= p <=> j < p \/ j = p)
      OBVIOUS
    <2> QED
      BY <1>5, <1>6, <2>1
  <1>8. After(k) \in Keys \cup {NoKey}
    <2>1. p # Len(c) => p + 1 \in 1 .. Len(c)
      BY <1>1
    <2> QED
      BY <1>1, <2>1
  <1> HIDE DEF c
  <1>9. /\ iter'.on = TRUE /\ iter'.index = q /\ iter'.entry = k /\ iter'.next = After(k)
        /\ iter' \in [on : BOOLEAN, index : -1 .. size', entry : Keys \cup {NoKey},
                      next : Keys \cup {NoKey}]
    BY <1>1, <1>2, <1>3, <1>8
  <1>10. /\ iter'.entry = NoKey <=> iter'.index \in {-1, size'}
         /\ IF iter'.entry = NoKey THEN iter'.next = NoKey ELSE IsSeen(iter.entry)'
    BY <1>1, <1>2, <1>3, <1>5, <1>9
  <1>11. ASSUME NEW r \in Slots(size), NEW j \in 1 .. Len(table[r])
         PROVE  /\ r < q => IsSeen(table[r][j].key)'
                /\ r > q => ~IsSeen(table[r][j].key)'
                /\ r = q /\ After(k) = NoKey => IsSeen(table[r][j].key)'
    <2>1. r < q => IsSeen(table[r][j].key)'
      BY <1>5
    <2>2. ASSUME r > q
          PROVE  ~IsSeen(table[r][j].key)'
      <3>1. table[r][j].key # k
        <4>1. Hash[table[r][j].key] % size = r /\ Hash[k] % size = q
          BY DEF IInv, TableInv, Chained
        <4> QED
          BY <1>2, <2>2, <4>1 DEF Slots
      <3> QED
        BY <1>5, <2>2, <3>1
    <2>3. ASSUME r = q, After(k) = NoKey
          PROVE  IsSeen(table[r][j].key)'
      <3>1. p = Len(c)
        <4>1. p # Len(c) => p + 1 \in 1 .. Len(c)
          BY <1>1 DEF c
        <4> QED
          BY <1>1, <1>2, <2>3, <4>1
      <3>2. j \in 1 .. Len(c) /\ j <= p
        BY <1>1, <2>3, <3>1 DEF c
      <3> QED
        BY <1>7, <2>3, <3>2 DEF c
    <2> QED
      BY <2>1, <2>2, <2>3
  <1>12. ASSUME After(k) # NoKey
         PROVE  SeenUpTo(c, After(k))'
    <2>1. p # Len(c) /\ p + 1 \in 1 .. Len(c) /\ After(k) = c[p + 1].key
      BY <1>1, <1>12 DEF c
    <2>2. \A j \in 1 .. Len(c) : IsSeen(c[j].key)' <=> j < p + 1
      BY <1>1, <1>7
    <2>3. c' = c /\ After(k)' = After(k)
      BY DEF c, After, ChainOf
    <2> QED
      BY <2>1, <2>2, <2>3 DEF SeenUpTo
  <1>13. iter'.next # NoKey => SeenUpTo(table[iter.index], iter.next)'
    <2>1. table'[iter'.index] = c /\ iter'.next = After(k) /\ c' = c /\ After(k)' = After(k)
      BY <1>9 DEF c, After, ChainOf
    <2> QED
      BY <1>12, <2>1 DEF SeenUpTo
  <1>14. \A r \in Slots(size') : \A j \in 1 .. Len(table'[r]) :
            /\ r < iter'.index => IsSeen(table[r][j].key)'
            /\ r > iter'.index => ~IsSeen(table[r][j].key)'
            /\ r = iter'.index /\ iter'.next = NoKey => IsSeen(table[r][j].key)'
    BY <1>2, <1>9, <1>11
  <1> QED
    BY <1>5, <1>9, <1>10, <1>13, <1>14 DEF IterInv

LEMMA NextStep ==
  ASSUME IInv, DictNext
  PROVE  IterInv'
PROOF
  <1> DEFINE onward == iter.entry # NoKey /\ iter.next # NoKey
             slot == FirstFilled(iter.index + 1)
  <1>1. /\ iter.on /\ iter.index \in -1 .. size /\ iter.index < size /\ size \in Nat
        /\ UNCHANGED table /\ size' = size /\ NoKey \notin Keys
    BY DictAssumption DEF DictNext, IInv, TableInv, IterInv, size
  <1>2. /\ \A q \in Slots(size) : \A j \in 1 .. Len(table[q]) :
             /\ q < iter.index => IsSeen(table[q][j].key)
             /\ q > iter.index => ~IsSeen(table[q][j].key)
             /\ q = iter.index /\ iter.next = NoKey => IsSeen(table[q][j].key)
        /\ iter.next # NoKey => SeenUpTo(table[iter.index], iter.next)
        /\ iter.entry = NoKey <=> iter.index \in {-1, size}
        /\ iter.entry = NoKey => iter.next = NoKey
        /\ iter.next \in Keys \cup {NoKey}
    BY <1>1 DEF IInv, IterInv
  <1>3. CASE onward
    <2>1. PICK p \in 1 .. Len(table[iter.index]) :
            /\ table[iter.index][p].key = iter.next
            /\ \A j \in 1 .. Len(table[iter.index]) :
                 IsSeen(table[iter.index][j].key) <=> j < p
      BY <1>2, <1>3 DEF SeenUpTo
    <2>2. iter.index \in Slots(size)
      BY <1>1, <1>2, <1>3 DEF Slots
    <2>3. /\ iter' = [on |-> TRUE, index |-> iter.index, entry |-> iter.next,
                      next |-> After(iter.next)]
          /\ seen' = Append(seen, iter.next)
      BY <1>3 DEF DictNext
    <2> QED
      BY <1>1, <1>2, <2>1, <2>2, <2>3, VisitStep
  <1>4. /\ slot \in iter.index + 1 .. size
        /\ slot < size => Len(table[slot]) \in Nat \ {0}
        /\ \A q \in Slots(size) : iter.index + 1 <= q /\ q < slot => Len(table[q]) = 0
    <2>1. iter.index + 1 \in 0 .. size
      BY <1>1
    <2> QED
      BY <2>1, FirstFilledIs DEF IInv
  <1>5. ASSUME ~onward, NEW q \in Slots(size), q < slot, NEW j \in 1 .. Len(table[q])
        PROVE  IsSeen(table[q][j].key)
    <2>1. iter.next = NoKey
      BY <1>2, <1>5
    <2>2. CASE q <= iter.index
      <3>1. q < iter.index \/ q = iter.index
        BY <1>1, <2>2 DEF Slots
      <3> QED
        BY <1>2, <2>1, <3>1
    <2>3. CASE q > iter.index
      <3>1. Len(table[q]) = 0
        BY <1>1, <1>4, <1>5, <2>3 DEF Slots
      <3> QED
        BY <3>1
    <2> QED
      BY <1>1, <2>2, <2>3 DEF Slots
  <1>6. CASE ~onward /\ slot < size
    <2> DEFINE c == table[slot]
               k == c[1].key
    <2>1. slot \in Slots(size) /\ slot > iter.index
      BY <1>1, <1>4, <1>6 DEF Slots
    <2>2. 1 \in 1 .. Len(c)
      BY <1>4, <1>6
    <2>3. k \in Keys
      BY <2>1, <2>2, AfterIs DEF IInv
    <2>4. /\ iter' = [on |-> TRUE, index |-> slot, entry |-> k, next |-> After(k)]
          /\ seen' = Append(seen, k)
      <3>1. Head(c) = c[1]
        OBVIOUS
      <3> QED
        BY <1>1, <1>6, <2>3, <3>1 DEF DictNext
    <2>5. ASSUME NEW j \in 1 .. Len(c)
          PROVE  IsSeen(c[j].key) <=> j < 1
      BY <1>2, <2>1
    <2>6. ASSUME NEW r \in Slots(size), NEW j \in 1 .. Len(table[r])
          PROVE  /\ r < slot => IsSeen(table[r][j].key)
                 /\ r > slot => ~IsSeen(table[r][j].key)
      <3>1. r > slot => r > iter.index
        BY <1>1, <2>1 DEF Slots
      <3> QED
        BY <1>2, <1>5, <1>6, <3>1
    <2> HIDE DEF c, k, slot
    <2> QED
      BY <1>1, <2>1, <2>2, <2>4, <2>5, <2>6, VisitStep DEF c, k
  <1>7. CASE ~onward /\ ~(slot < size)
    <2>1. slot = size
      BY <1>1, <1>4, <1>7
    <2>2. iter' = [on |-> TRUE, index |-> size, entry |-> NoKey, next |-> NoKey] /\ seen' = seen
      BY <1>7, <2>1 DEF DictNext
    <2>3. \A q \in Slots(size) : q < size /\ \A j \in 1 .. Len(table[q]) : IsSeen(table[q][j].key)
      BY <1>1, <1>5, <1>7, <2>1 DEF Slots
    <2>4. \A x : IsSeen(x)' <=> IsSeen(x)
      BY <2>2 DEF IsSeen
    <2>5. /\ iter'.on = TRUE /\ iter'.index = size /\ iter'.entry = NoKey /\ iter'.next = NoKey
          /\ iter' \in [on : BOOLEAN, index : -1 .. size, entry : Keys \cup {NoKey},
                        next : Keys \cup {NoKey}]
      BY <1>1, <2>2
    <2>6. seen \in Seq(Keys) /\ \A a, b \in 1 .. Len(seen) : seen[a] = seen[b] => a = b
      BY <1>1 DEF IInv, IterInv
    <2>7. \A q \in Slots(size) : ~(q > size)
      BY <1>1 DEF Slots
    <2> QED
      BY <1>1, <2>2, <2>3, <2>4, <2>5, <2>6, <2>7 DEF IterInv
  <1> QED
    BY <1>3, <1>6, <1>7

\* What is left of the chain of k when its entry is gone.
LEMMA Shortened ==
  ASSUME TableInv, NEW k \in Keys, Has(table, k), table' = Unlinked(table, size, k),
         NEW q \in Slots(size)
  PROVE  \/ table'[q] = table[q]
         \/ \E i \in 1 .. Len(table[q]) :
              /\ table[q][i].key = k
              /\ Len(table'[q]) = Len(table[q]) - 1 /\ Len(table[q]) \in Nat
              /\ \A j \in 1 .. Len(table[q]) - 1 :
                   table'[q][j] = IF j < i THEN table[q][j] ELSE table[q][j + 1]
PROOF
  <1> DEFINE h == Hash[k] % size
             c == table[h]
             i == Position(c, k)
  <1>1. size \in Nat /\ Chained(table, size)
    BY DEF TableInv
  <1>2. /\ size \in Nat \ {0} /\ ChainOf(table, k) = c
        /\ Position(ChainOf(table, k), k) \in 1 .. Len(ChainOf(table, k))
        /\ EntryOf(table, k) = ChainOf(table, k)[Position(ChainOf(table, k), k)]
        /\ EntryOf(table, k).key = k
    BY <1>1, Found
  <1>3. i \in 1 .. Len(c) /\ c[i].key = k
    <2> HIDE DEF c
    <2> QED
      BY <1>2
  <1>4. h \in Slots(size)
    BY <1>2, SlotOfKey
  <1>5. c \in Seq(Entries)
    BY <1>1, <1>4 DEF Chained
  <1>6. table'[q] = IF q = h THEN Unlink(c, k) ELSE table[q]
    BY <1>1, <1>4 DEF Chained, Unlinked
  <1>7. /\ Len(Unlink(c, k)) = Len(c) - 1 /\ Len(c) \in Nat
        /\ \A j \in 1 .. Len(c) - 1 : Unlink(c, k)[j] = IF j < i THEN c[j] ELSE c[j + 1]
    <2> HIDE DEF c, i
    <2> QED
      BY <1>3, <1>5, RemoveAtIs, LenProperties DEF Unlink, i
  <1> HIDE DEF i
  <1>8. CASE q = h
    BY <1>3, <1>6, <1>7, <1>8
  <1>9. CASE q # h
    BY <1>6, <1>9
  <1> QED
    BY <1>8, <1>9

LEMMA SameIter ==
  ASSUME IterInv, UNCHANGED <<table, iter, seen>>
  PROVE  IterInv'
PROOF
  <1>1. size' = size
    BY DEF size
  <1>2. \A x : IsSeen(x)' <=> IsSeen(x)
    BY DEF IsSeen
  <1>3. SeenUpTo(table[iter.index], iter.next)' <=> SeenUpTo(table[iter.index], iter.next)
    BY <1>2 DEF SeenUpTo
  <1> QED
    BY <1>1, <1>2, <1>3 DEF IterInv

LEMMA DeleteStep ==
  ASSUME IInv, NEW k \in Keys, DictDelete(k)
  PROVE  IterInv'
PROOF
  <1>1. size' = size /\ size \in Nat /\ UNCHANGED <<iter, seen>> /\ NoKey \notin Keys
    BY DeleteTable, DictAssumption DEF DictDelete, IInv, TableInv
  <1>2. \A x : IsSeen(x)' <=> IsSeen(x)
    BY <1>1 DEF IsSeen
  <1>3. CASE ~iter.on
    BY <1>1, <1>3 DEF IInv, IterInv
  <1>4. CASE iter.on /\ ~Has(table, k)
    <2>1. table' = table
      BY <1>4 DEF DictDelete
    <2> QED
      BY <1>1, <2>1, SameIter DEF IInv
  <1>5. CASE iter.on /\ Has(table, k)
    <2>1. table' = Unlinked(table, size, k) /\ iter.entry = k
      BY <1>5 DEF DictDelete, Unlinked
    <2>2. IsSeen(k) /\ iter.index \in Slots(size)
      BY <1>1, <1>5, <2>1 DEF IInv, IterInv, Slots
    <2>3. ASSUME NEW q \in Slots(size), NEW j \in 1 .. Len(table'[q])
          PROVE  \E l \in 1 .. Len(table[q]) : table'[q][j] = table[q][l]
      <3>1. CASE table'[q] = table[q]
        BY <3>1
      <3>2. ASSUME NEW i \in 1 .. Len(table[q]),
                   Len(table'[q]) = Len(table[q]) - 1, Len(table[q]) \in Nat,
                   \A m \in 1 .. Len(table[q]) - 1 :
                     table'[q][m] = IF m < i THEN table[q][m] ELSE table[q][m + 1]
            PROVE  \E l \in 1 .. Len(table[q]) : table'[q][j] = table[q][l]
        <4>1. j \in 1 .. Len(table[q]) /\ j + 1 \in 1 .. Len(table[q])
          BY <3>2
        <4>2. table'[q][j] = table[q][j] \/ table'[q][j] = table[q][j + 1]
          BY <3>2
        <4> QED
          BY <4>1, <4>2
      <3> QED
        BY <1>5, <2>1, <3>1, <3>2, Shortened DEF IInv
    <2>4. ASSUME NEW q \in Slots(size), NEW j \in 1 .. Len(table'[q])
          PROVE  /\ q < iter.index => IsSeen(table'[q][j].key)
                 /\ q > iter.index => ~IsSeen(table'[q][j].key)
                 /\ q = iter.index /\ iter.next = NoKey => IsSeen(table'[q][j].key)
      <3>1. PICK l \in 1 .. Len(table[q]) : table'[q][j] = table[q][l]
        BY <2>3
      <3>2. /\ q < iter.index => IsSeen(table[q][l].key)
            /\ q > iter.index => ~IsSeen(table[q][l].key)
            /\ q = iter.index /\ iter.next = NoKey => IsSeen(table[q][l].key)
        BY <1>5 DEF IInv, IterInv
      <3> QED
        BY <3>1, <3>2
    <2>5. ASSUME iter.next # NoKey
          PROVE  SeenUpTo(table[iter.index], iter.next)'
      <3> DEFINE c == table[iter.index]
                 d == table'[iter.index]
      <3>1. PICK p \in 1 .. Len(c) :
              c[p].key = iter.next /\ \A j \in 1 .. Len(c) : IsSeen(c[j].key) <=> j < p
        BY <1>5, <2>5 DEF IInv, IterInv, SeenUpTo
      <3>2. \E r \in 1 .. Len(d) :
              d[r].key = iter.next /\ \A j \in 1 .. Len(d) : IsSeen(d[j].key) <=> j < r
        <4>1. CASE d = c
          BY <3>1, <4>1
        <4>2. ASSUME NEW i \in 1 .. Len(c), c[i].key = k,
                     Len(d) = Len(c) - 1, Len(c) \in Nat,
                     \A m \in 1 .. Len(c) - 1 : d[m] = IF m < i THEN c[m] ELSE c[m + 1]
              PROVE  \E r \in 1 .. Len(d) :
                       d[r].key = iter.next /\ \A j \in 1 .. Len(d) : IsSeen(d[j].key) <=> j < r
          <5>1. i < p
            BY <2>2, <3>1, <4>2
          <5> HIDE DEF c, d
          <5>2. p - 1 \in 1 .. Len(d) /\ d[p - 1] = c[p]
            <6>1. p - 1 \in 1 .. Len(c) - 1 /\ ~(p - 1 < i) /\ (p - 1) + 1 = p
              BY <4>2, <5>1
            <6> QED
              BY <4>2, <6>1
          <5>3. ASSUME NEW j \in 1 .. Len(d)
                PROVE  IsSeen(d[j].key) <=> j < p - 1
            <6>1. CASE j < i
              <7>1. j \in 1 .. Len(c) /\ d[j] = c[j] /\ j < p - 1
                BY <4>2, <5>1, <6>1
              <7> QED
                BY <3>1, <5>1, <6>1, <7>1
            <6>2. CASE ~(j < i)
              <7>1. j + 1 \in 1 .. Len(c) /\ d[j] = c[j + 1] /\ (j + 1 < p <=> j < p - 1)
                BY <4>2, <6>2
              <7> QED
                BY <3>1, <7>1
            <6> QED
              BY <6>1, <6>2
          <5> QED
            BY <3>1, <5>2, <5>3
        <4> QED
          BY <1>5, <2>1, <2>2, <4>1, <4>2, Shortened DEF IInv
      <3> QED
        BY <1>1, <1>2, <3>2 DEF SeenUpTo
    <2> QED
      BY <1>1, <1>2, <2>4, <2>5 DEF IInv, IterInv
  <1> QED
    BY <1>3, <1>4, <1>5

LEMMA InitInv == Init => IInv
PROOF
  <1> SUFFICES ASSUME Init
               PROVE  IInv
    OBVIOUS
  <1>1. Chained(table, 0) /\ Below(table, 0) = {}
    <2>1. Slots(0) = {}
      BY DEF Slots
    <2>2. table = [i \in {} |-> <<>>]
      BY DEF Init, EmptyTable
    <2> QED
      BY <2>1, <2>2 DEF Chained, Below
  <1>2. size = 0 /\ Held = {}
    <2>1. size = 0
      BY <1>1, SlotCount DEF size, Chained
    <2> QED
      BY <1>1, <2>1 DEF Held
  <1>3. TableInv
    <2>1. KeysHeld = {} /\ used = 0
      BY <1>2 DEF KeysHeld, Init
    <2> QED
      BY <1>1, <1>2, <2>1, FS_EmptySet DEF TableInv
  <1>4. CellInv
    BY <1>2 DEF Init, CellInv
  <1>5. IterInv
    <2>1. seen \in Seq(Keys)
      BY EmptySeq DEF Init
    <2> QED
      BY <1>2, <2>1 DEF Init, IterInv, NoIter
  <1>6. ResultInv
    BY DEF Init, ResultInv
  <1> QED
    BY <1>3, <1>4, <1>5, <1>6 DEF IInv

\* What a find returns.
LEMMA ValueFound ==
  ASSUME IInv, NEW k \in Keys
  PROVE  /\ Has(table, k) <=> \E e \in Held : e.key = k
         /\ Has(table, k) => /\ EntryOf(table, k) \in Held /\ EntryOf(table, k).key = k
                             /\ heap[EntryOf(table, k).val] \in Callbacks
PROOF
  <1>1. size \in Nat /\ Chained(table, size)
    BY DEF IInv, TableInv
  <1>2. ASSUME Has(table, k)
        PROVE  EntryOf(table, k) \in Held /\ EntryOf(table, k).key = k
    BY <1>1, <1>2, Found DEF Held
  <1>3. \A e \in Held : e.val \in Cells
    BY DEF Held, Below, Entries
  <1>4. \A e \in Held : heap[e.val] \in Callbacks
    BY <1>3 DEF IInv, CellInv
  <1> QED
    BY <1>1, <1>2, <1>4, Found DEF Held

LEMMA StepInv == IInv /\ [Next]_vars => IInv'
PROOF
  <1> SUFFICES ASSUME IInv, [Next]_vars
               PROVE  IInv'
    OBVIOUS
  <1>1. TableInv /\ CellInv /\ IterInv /\ ResultInv
    BY DEF IInv
  <1>2. ASSUME UNCHANGED <<table, iter, seen>>
        PROVE  IterInv'
    BY <1>1, <1>2, SameIter
  <1>3. ASSUME NEW k \in Keys, DictFind(k)
        PROVE  IInv'
    <2>1. result' \in Callbacks \cup {NoCallback}
      BY <1>3, ValueFound DEF DictFind
    <2>2. UNCHANGED <<table, used, heap, iter, seen>>
      BY <1>3 DEF DictFind
    <2> QED
      BY <1>1, <1>2, <2>1, <2>2, SameTable DEF IInv, ResultInv
  <1>4. ASSUME NEW k \in Keys, DictDelete(k)
        PROVE  IInv'
    <2>1. ResultInv'
      BY <1>4 DEF DictDelete, ResultInv
    <2> QED
      BY <1>4, <2>1, DeleteTable, DeleteStep DEF IInv
  <1>5. ASSUME NEW k \in Keys, NEW cb \in Callbacks, DictReplace(k, cb)
        PROVE  IInv'
    <2>1. ResultInv'
      BY <1>5 DEF DictReplace, ResultInv
    <2>2. ~iter.on /\ UNCHANGED <<iter, seen>> /\ size' \in Nat /\ size' >= size /\ size \in Nat
      BY <1>1, <1>5, ReplaceTable DEF DictReplace, TableInv
    <2>3. IterInv'
      BY <1>1, <2>2 DEF IterInv
    <2> QED
      BY <1>5, <2>1, <2>3, ReplaceTable, ReplaceCells DEF IInv
  <1>6. ASSUME DictRelease
        PROVE  IInv'
    <2>1. ResultInv'
      BY <1>6 DEF DictRelease, ResultInv
    <2>2. ~iter.on /\ UNCHANGED <<iter, seen>> /\ size' = 0
      BY <1>6, ReleaseTable DEF DictRelease
    <2>3. IterInv'
      BY <1>1, <2>2 DEF IterInv
    <2> QED
      BY <1>6, <2>1, <2>3, ReleaseTable DEF IInv
  <1>7. ASSUME DictGetIterator \/ DictReleaseIterator
        PROVE  IInv'
    <2>1. UNCHANGED <<table, used, heap, result>> /\ seen' = <<>>
      BY <1>7 DEF DictGetIterator, DictReleaseIterator
    <2>2. \E b \in BOOLEAN : iter' = [on |-> b, index |-> -1, entry |-> NoKey, next |-> NoKey]
      BY <1>7 DEF DictGetIterator, DictReleaseIterator, NoIter
    <2>3. TableInv' /\ CellInv' /\ size' = size /\ size \in Nat
      BY <1>1, <2>1, SameTable DEF TableInv
    <2>4. seen' \in Seq(Keys) /\ Len(seen') = 0
      BY <2>1, EmptySeq
    <2>5. \A x : ~IsSeen(x)'
      BY <2>4 DEF IsSeen
    <2>6. \A q \in Slots(size) : q > -1 /\ q # -1
      BY <2>3 DEF Slots
    <2>7. /\ iter'.index = -1 /\ iter'.entry = NoKey /\ iter'.next = NoKey
          /\ iter' \in [on : BOOLEAN, index : -1 .. size', entry : Keys \cup {NoKey},
                        next : Keys \cup {NoKey}]
      BY <2>2, <2>3
    <2>8. IterInv'
      <3>1. \A q \in Slots(size') : ~(q < iter'.index) /\ q # iter'.index
        BY <2>3, <2>6, <2>7 DEF Slots
      <3>2. \A a, b \in 1 .. Len(seen') : seen'[a] = seen'[b] => a = b
        BY <2>4
      <3> QED
        BY <2>4, <2>5, <2>7, <3>1, <3>2 DEF IterInv
    <2> QED
      BY <1>1, <2>1, <2>3, <2>8 DEF IInv, ResultInv
  <1>8. ASSUME DictNext
        PROVE  IInv'
    <2>1. IterInv'
      BY <1>8, NextStep
    <2>2. ResultInv'
      <3>1. result' = NoCallback \/ result' = iter'.entry
        BY <1>8 DEF DictNext
      <3>2. result' = NoCallback \/ result' \in Keys
        BY <1>8, <2>1 DEF DictNext, IterInv
      <3> QED
        BY <3>2 DEF ResultInv
    <2> QED
      BY <1>1, <1>8, <2>1, <2>2, SameTable DEF IInv, DictNext
  <1>9. CASE UNCHANGED vars
    <2>1. ResultInv'
      BY <1>1, <1>9 DEF vars, ResultInv
    <2> QED
      BY <1>1, <1>2, <1>9, <2>1, SameTable DEF IInv, vars
  <1> QED
    BY <1>3, <1>4, <1>5, <1>6, <1>7, <1>8, <1>9 DEF Next

LEMMA Invariance == Spec => []IInv
PROOF
  <1> QED
    BY InitInv, StepInv, PTL DEF Spec

-----------------------------------------------------------------------------
(* What follows from the invariant.                                          *)

\* The walk of _dictClear, of dictExpand and of a reader lists what is held.
LEMMA AllAreHeld ==
  ASSUME IInv
  PROVE  /\ Lists(AllEntries(table), Held) /\ Len(AllEntries(table)) \in Nat
         /\ used = Len(AllEntries(table))
         /\ KeysIn(AllEntries(table)) = KeysHeld
PROOF
  <1> DEFINE all == AllEntries(table)
  <1>1. size \in Nat /\ Chained(table, size) /\ used = Cardinality(KeysHeld) /\ Held \subseteq Entries
    BY DEF IInv, TableInv, Held, Below
  <1>2. Lists(all, Held)
    BY <1>1, AllEntriesAre DEF Held
  <1>3. Len(all) \in Nat /\ used = Len(all)
    BY <1>1, <1>2, ListCount DEF KeysHeld
  <1>4. \A e \in Held : e.key \in Keys
    BY <1>1 DEF Entries
  <1> HIDE DEF all
  <1>5. KeysIn(all) = KeysHeld
    BY <1>2, <1>4 DEF KeysIn, KeysHeld, Lists
  <1> QED
    BY <1>2, <1>3, <1>5 DEF all

LEMMA WellPlacedHolds == IInv => WellPlaced
PROOF
  <1> SUFFICES ASSUME IInv
               PROVE  WellPlaced
    OBVIOUS
  <1>1. size \in Nat /\ Chained(table, size) /\ used = Cardinality(KeysHeld) /\ KeysHeld \subseteq Keys
    BY DEF IInv, TableInv, KeysHeld
  <1>2. used \in 0 .. Cardinality(Keys)
    <2>1. IsFiniteSet(KeysHeld) /\ Cardinality(KeysHeld) <= Cardinality(Keys)
      BY <1>1, FS_Subset, DictAssumption
    <2>2. Cardinality(KeysHeld) \in Nat /\ Cardinality(Keys) \in Nat
      BY <2>1, FS_CardinalityType, DictAssumption
    <2> QED
      BY <1>1, <2>1, <2>2
  <1>3. Range(seen) \subseteq Keys
    <2>1. seen \in Seq(Keys)
      BY DEF IInv, IterInv
    <2>2. \A a \in DOMAIN seen : seen[a] \in Keys
      BY <2>1
    <2> QED
      BY <2>2 DEF Range
  <1>4. DOMAIN table = Slots(size) /\ \A i \in DOMAIN table : table[i] \in Seq(Entries)
    BY <1>1 DEF Chained
  <1>5. TypeOK
    BY <1>2, <1>3, <1>4 DEF TypeOK, IInv, CellInv, IterInv, ResultInv
  <1>6. \A i \in DOMAIN table : \A k \in KeysIn(table[i]) : Hash[k] % size = i
    BY <1>1, <1>4 DEF Chained, KeysIn
  <1>7. Cardinality(KeysIn(AllEntries(table))) = Len(AllEntries(table)) /\ used = Len(AllEntries(table))
    BY <1>1, AllAreHeld
  <1> QED
    BY <1>5, <1>6, <1>7 DEF WellPlaced

LEMMA ValuesOwnedHolds == IInv => ValuesOwned
PROOF
  <1> SUFFICES ASSUME IInv
               PROVE  ValuesOwned
    OBVIOUS
  <1> DEFINE all == AllEntries(table)
             held == {all[i].val : i \in 1 .. Len(all)}
             f == [i \in 1 .. Len(all) |-> all[i].val]
  <1>1. Lists(all, Held) /\ Len(all) \in Nat
    BY AllAreHeld
  <1>2. \A e \in Held : e.val[1] = e.key /\ e.val \in Cells
    BY DEF IInv, CellInv, Held, Below, Entries
  <1> HIDE DEF all
  <1>3. f \in [1 .. Len(all) -> held] /\ \A k \in held : \E a \in 1 .. Len(all) : f[a] = k
    OBVIOUS
  <1>4. ASSUME NEW a \in 1 .. Len(all), NEW b \in 1 .. Len(all), f[a] = f[b]
        PROVE  a = b
    <2>1. all[a].key = all[b].key
      BY <1>1, <1>2, <1>4 DEF Lists
    <2> QED
      BY <1>1, <2>1 DEF Lists
  <1>5. Cardinality(held) = Len(all)
    <2> HIDE DEF f, held
    <2> QED
      BY <1>1, <1>3, <1>4, Numbered
  <1>6. held = {c \in Cells : heap[c] # NoCallback}
    <2>1. \A c : c \in held <=> \E e \in Held : e.val = c
      BY <1>1 DEF Lists
    <2>2. \A c \in Cells : heap[c] # NoCallback <=> \E e \in Held : e.val = c
      BY DEF IInv, CellInv
    <2> HIDE DEF held
    <2> QED
      BY <1>2, <2>1, <2>2
  <1> QED
    BY <1>5, <1>6 DEF ValuesOwned, all

LEMMA VisitsHolds == IInv => VisitsEachOnce
PROOF
  <1> SUFFICES ASSUME IInv, iter.on
               PROVE  /\ Cardinality(Range(seen)) = Len(seen)
                      /\ iter.index = size => KeysIn(AllEntries(table)) \subseteq Range(seen)
    BY DEF VisitsEachOnce
  <1>1. seen \in Seq(Keys) /\ \A a, b \in 1 .. Len(seen) : seen[a] = seen[b] => a = b
    BY DEF IInv, IterInv
  <1>2. Len(seen) \in Nat /\ DOMAIN seen = 1 .. Len(seen) /\ seen = [a \in 1 .. Len(seen) |-> seen[a]]
    BY <1>1
  <1>3. \A x : x \in Range(seen) <=> IsSeen(x)
    BY <1>2 DEF Range, IsSeen
  <1>4. seen \in [1 .. Len(seen) -> Range(seen)] /\ \A x \in Range(seen) : \E a \in 1 .. Len(seen) : seen[a] = x
    BY <1>2 DEF Range
  <1>5. Cardinality(Range(seen)) = Len(seen)
    BY <1>1, <1>2, <1>4, Numbered
  <1>6. ASSUME iter.index = size, NEW k \in KeysHeld
        PROVE  IsSeen(k)
    <2>1. PICK e \in Held : e.key = k
      BY DEF KeysHeld
    <2>2. PICK q \in Slots(size) : \E j \in 1 .. Len(table[q]) : table[q][j] = e
      BY DEF Held, Below
    <2>3. size \in Nat /\ q < size
      BY DEF IInv, TableInv, Slots
    <2> QED
      BY <1>6, <2>1, <2>2, <2>3 DEF IInv, IterInv
  <1> QED
    BY <1>3, <1>5, <1>6, AllAreHeld

-----------------------------------------------------------------------------
(* The dictionary as a map.                                                  *)

\* The callbacks of all keys, read from the entries of t and the cells h.
Mapped(t, h) == [k \in Keys |-> IF Has(t, k) THEN h[EntryOf(t, k).val] ELSE NoCallback]

LEMMA MappedIs ==
  ASSUME NEW n \in Nat, NEW t, Chained(t, n), NEW h, NEW k \in Keys
  PROVE  /\ \A e \in Below(t, n) : e.key = k => Mapped(t, h)[k] = h[e.val]
         /\ (~\E e \in Below(t, n) : e.key = k) => Mapped(t, h)[k] = NoCallback
PROOF
  <1>1. \A e \in Below(t, n) : Has(t, e.key) /\ EntryOf(t, e.key) = e
    BY Looked
  <1>2. (~\E e \in Below(t, n) : e.key = k) => ~Has(t, k)
    BY Found
  <1> QED
    BY <1>1, <1>2 DEF Mapped

\* The map before and after a step.
LEMMA MapsAre ==
  ASSUME IInv, TableInv', NEW k \in Keys
  PROVE  /\ \A e \in Held : e.key = k => Mapped(table, heap)[k] = heap[e.val]
         /\ (~\E e \in Held : e.key = k) => Mapped(table, heap)[k] = NoCallback
         /\ \A e \in Held' : e.key = k => Mapped(table', heap')[k] = heap'[e.val]
         /\ (~\E e \in Held' : e.key = k) => Mapped(table', heap')[k] = NoCallback
PROOF
  <1>1. size \in Nat /\ Chained(table, size) /\ size' \in Nat /\ Chained(table', size')
    BY DEF IInv, TableInv
  <1>2. Held = Below(table, size) /\ Held' = Below(table', size')
    BY DEF Held
  <1> QED
    BY <1>1, <1>2, MappedIs

\* An iterator returns a key of the map.
LEMMA NextVisits ==
  ASSUME IInv, DictNext
  PROVE  result' = NoCallback \/ \E e \in Held : e.key = result'
PROOF
  <1> DEFINE onward == iter.entry # NoKey /\ iter.next # NoKey
             slot == FirstFilled(iter.index + 1)
  <1>1. /\ iter.on /\ iter.index \in -1 .. size /\ iter.index < size /\ size \in Nat
        /\ TableInv /\ \A q \in Slots(size) : table[q] \in Seq(Entries)
    BY DEF DictNext, IInv, TableInv, IterInv, Chained
  <1>2. ASSUME NEW q \in Slots(size), NEW j \in 1 .. Len(table[q])
        PROVE  \E e \in Held : e.key = table[q][j].key
    <2>1. table[q][j] \in Entries
      BY <1>1, ElementOfSeq
    <2>2. table[q][j] \in Held
      BY <2>1 DEF Held, Below
    <2> QED
      BY <2>2
  <1>3. CASE onward
    <2>1. iter.index \in Slots(size)
      BY <1>1, <1>3 DEF IInv, IterInv, Slots
    <2>2. SeenUpTo(table[iter.index], iter.next)
      BY <1>1, <1>3 DEF IInv, IterInv
    <2>3. PICK p \in 1 .. Len(table[iter.index]) : table[iter.index][p].key = iter.next
      BY <2>2 DEF SeenUpTo
    <2>4. result' = iter.next
      BY <1>3 DEF DictNext
    <2> QED
      BY <1>2, <2>1, <2>3, <2>4
  <1>4. CASE ~onward /\ slot < size
    <2>1. iter.index + 1 \in 0 .. size
      BY <1>1
    <2>2. slot \in iter.index + 1 .. size /\ Len(table[slot]) \in Nat \ {0}
      BY <1>1, <1>4, <2>1, FirstFilledIs
    <2>3. slot \in Slots(size) /\ 1 \in 1 .. Len(table[slot])
      BY <1>1, <1>4, <2>2 DEF Slots
    <2>4. Head(table[slot]) = table[slot][1]
      OBVIOUS
    <2>5. result' = NoCallback \/ result' = table[slot][1].key
      BY <1>4, <2>4 DEF DictNext
    <2> QED
      BY <1>2, <2>3, <2>5
  <1>5. CASE ~onward /\ ~(slot < size)
    BY <1>5 DEF DictNext
  <1> QED
    BY <1>3, <1>4, <1>5

LEMMA MapInit == Init => Map!Init
PROOF
  <1> SUFFICES ASSUME Init
               PROVE  Map!Init
    OBVIOUS
  <1>1. DOMAIN table = {}
    BY DEF Init, EmptyTable
  <1>2. \A k \in Keys : ~Has(table, k)
    BY <1>1 DEF Has
  <1> QED
    BY <1>2 DEF Init, Map!Init, Map!None

LEMMA MapStep == IInv /\ IInv' /\ [Next]_vars => [Map!Next]_Map!vars
PROOF
  <1> SUFFICES ASSUME IInv, IInv', [Next]_vars
               PROVE  [Map!Next]_Map!vars
    OBVIOUS
  <1> DEFINE m == Mapped(table, heap)
             n == Mapped(table', heap')
  <1>1. DOMAIN m = Keys /\ DOMAIN n = Keys /\ m = [k \in Keys |-> m[k]] /\ n = [k \in Keys |-> n[k]]
    BY DEF Mapped
  <1>2. \A k \in Keys :
          /\ \A e \in Held : e.key = k => m[k] = heap[e.val]
          /\ (~\E e \in Held : e.key = k) => m[k] = NoCallback
          /\ \A e \in Held' : e.key = k => n[k] = heap'[e.val]
          /\ (~\E e \in Held' : e.key = k) => n[k] = NoCallback
    BY MapsAre DEF IInv
  <1>3. \A e \in Held : /\ e.key \in Keys /\ e.val \in Cells /\ e.val[1] = e.key
                        /\ heap[e.val] # NoCallback
    BY DEF IInv, CellInv, Held, Below, Entries
  <1>4. \A k \in Keys : m[k] # NoCallback <=> \E e \in Held : e.key = k
    BY <1>2, <1>3
  <1> HIDE DEF m, n
  <1>5. ASSUME NEW k \in Keys, DictFind(k)
        PROVE  [Map!Next]_Map!vars
    <2>1. result' = m[k] /\ n = m
      BY <1>5 DEF DictFind, m, n, Mapped
    <2>2. Map!Find(k)
      BY <2>1 DEF Map!Find, m, n, Mapped
    <2> QED
      BY <2>2 DEF Map!Next
  <1>6. ASSUME NEW k \in Keys, DictDelete(k)
        PROVE  [Map!Next]_Map!vars
    <2>1. /\ Held' = {x \in Held : x.key # k}
          /\ \A d \in Cells : d[1] # k => heap'[d] = heap[d]
      BY <1>6, DeleteTable
    <2>2. ASSUME NEW j \in Keys
          PROVE  n[j] = IF j = k THEN NoCallback ELSE m[j]
      <3>1. CASE j = k
        BY <1>2, <2>1, <3>1
      <3>2. CASE j # k /\ \E e \in Held : e.key = j
        BY <1>2, <1>3, <2>1, <3>2
      <3>3. CASE j # k /\ ~\E e \in Held : e.key = j
        BY <1>2, <2>1, <3>3
      <3> QED
        BY <3>1, <3>2, <3>3
    <2>3. n = [m EXCEPT ![k] = NoCallback]
      BY <1>1, <2>2
    <2>4. result' = (m[k] # NoCallback)
      <3>1. Has(table, k) <=> m[k] # NoCallback
        BY <1>4, ValueFound
      <3>2. /\ Has(table, k) => result' = TRUE
            /\ ~Has(table, k) => result' = FALSE
        BY <1>6 DEF DictDelete
      <3> QED
        BY <3>1, <3>2
    <2>5. Map!Delete(k)
      BY <2>3, <2>4 DEF Map!Delete, m, n, Mapped
    <2> QED
      BY <2>5 DEF Map!Next
  <1>7. ASSUME NEW k \in Keys, NEW cb \in Callbacks, DictReplace(k, cb)
        PROVE  [Map!Next]_Map!vars
    <2>1. PICK c \in Cells, e \in Entries :
              /\ c[1] = k /\ heap[c] = NoCallback /\ e = [key |-> k, val |-> c]
              /\ Held' = {x \in Held : x.key # k} \cup {e}
              /\ \A d \in Cells : heap'[d] = IF d = c THEN cb
                                             ELSE IF \E x \in Held : x.key = k /\ x.val = d
                                                  THEN NoCallback ELSE heap[d]
      BY <1>7, ReplaceTable
    <2>2. e.key = k /\ e.val = c
      BY <2>1
    <2>3. ASSUME NEW j \in Keys
          PROVE  n[j] = IF j = k THEN cb ELSE m[j]
      <3>1. CASE j = k
        <4>1. e \in Held' /\ n[j] = heap'[e.val]
          BY <1>2, <2>1, <2>2, <3>1
        <4> QED
          BY <2>1, <2>2, <3>1, <4>1
      <3>2. ASSUME j # k, NEW x \in Held, x.key = j
            PROVE  n[j] = m[j]
        <4>1. x \in Held' /\ n[j] = heap'[x.val] /\ m[j] = heap[x.val]
          BY <1>2, <2>1, <3>2
        <4>2. x.val # c /\ ~\E y \in Held : y.key = k /\ y.val = x.val
          BY <1>3, <2>1, <3>2
        <4> QED
          BY <1>3, <2>1, <4>1, <4>2
      <3>3. CASE j # k /\ ~\E x \in Held : x.key = j
        BY <1>2, <2>1, <2>2, <3>3
      <3> QED
        BY <3>1, <3>2, <3>3
    <2>4. n = [m EXCEPT ![k] = cb]
      BY <1>1, <2>3
    <2>5. result' = (m[k] = NoCallback)
      <3>1. Has(Expanded, k) <=> \E x \in Held : x.key = k
        BY Grown, Found DEF IInv
      <3>2. /\ Has(Expanded, k) => result' = FALSE
            /\ ~Has(Expanded, k) => result' = TRUE
        BY <1>7 DEF DictReplace
      <3> QED
        BY <1>4, <3>1, <3>2
    <2>6. Map!Replace(k, cb)
      BY <2>4, <2>5 DEF Map!Replace, m, n, Mapped
    <2> QED
      BY <2>6 DEF Map!Next
  <1>8. ASSUME DictRelease
        PROVE  [Map!Next]_Map!vars
    <2>1. \A k \in Keys : n[k] = NoCallback
      BY <1>2, <1>8, ReleaseTable
    <2>2. n = [k \in Keys |-> NoCallback] /\ result' = NoCallback
      BY <1>1, <1>8, <2>1 DEF DictRelease
    <2>3. Map!Clear
      BY <2>2 DEF Map!Clear, Map!None, n, Mapped
    <2> QED
      BY <2>3 DEF Map!Next
  <1>9. ASSUME DictNext
        PROVE  [Map!Next]_Map!vars
    <2>1. n = m
      BY <1>9 DEF DictNext, m, n, Mapped
    <2>2. result' = NoCallback \/ \E k \in Keys : m[k] # NoCallback /\ result' = k
      BY <1>3, <1>4, <1>9, NextVisits
    <2>3. Map!Visit
      BY <2>1, <2>2 DEF Map!Visit, m, n, Mapped
    <2> QED
      BY <2>3 DEF Map!Next
  <1>10. ASSUME DictGetIterator \/ DictReleaseIterator \/ UNCHANGED vars
         PROVE  [Map!Next]_Map!vars
    <2>1. UNCHANGED <<table, heap, result>>
      BY <1>10 DEF DictGetIterator, DictReleaseIterator, vars
    <2> QED
      BY <2>1 DEF Map!vars
  <1> QED
    BY <1>5, <1>6, <1>7, <1>8, <1>9, <1>10 DEF Next

-----------------------------------------------------------------------------
(* The theorems.                                                             *)

\* dictExpand, dictReplace and dictDelete keep every entry in the slot its key
\* hashes to, every key once, and the number of entries right: a search that
\* looks at one chain only, and _dictClear that stops at that number, miss none.
THEOREM SearchesMissNothing == Spec => []WellPlaced
PROOF
  <1> QED
    BY Invariance, WellPlacedHolds, PTL

\* Each copy callbackValDup makes is the value of one entry until it is
\* replaced or deleted, and then it is freed.
THEOREM ValuesFreedOnce == Spec => []ValuesOwned
PROOF
  <1> QED
    BY Invariance, ValuesOwnedHolds, PTL

\* dictNext comes to every entry once, though its user deletes the entries he
\* is given.
THEOREM IterationIsComplete == Spec => []VisitsEachOnce
PROOF
  <1> QED
    BY Invariance, VisitsHolds, PTL

\* Seen from async.c, the table is a map from names to callbacks.
THEOREM DictIsAMap == Spec => ImplementsMap
PROOF
  <1> QED
    BY Invariance, MapInit, MapStep, PTL DEF Spec, ImplementsMap, Map!Spec

=============================================================================
