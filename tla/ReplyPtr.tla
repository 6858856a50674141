------------------------------ MODULE ReplyPtr ------------------------------
(* RedisReplyPtr of RedisClient.h: the smart pointer that owns a reply and   *)
(* hands it on when it is copied, and RedisReplyRef, through which a         *)
(* temporary does.                                                           *)
CONSTANTS
  Packs,    \* what is owned: the RedisReplyPack objects
  NoPack,   \* the null pointer, none of them
  Vars      \* the variables of type RedisReplyPtr or RedisReplyRef

VARIABLES
  heap,     \* the packs that are allocated
  ptr       \* variable -> the pack it points to

PtrInit == heap = {} /\ ptr = [x \in Vars |-> NoPack]

\* A new pack, which the variable x owns.
Make(x, p) ==
  /\ p \notin heap
  /\ heap' = heap \cup {p} /\ ptr' = [ptr EXCEPT ![x] = p]

\* Fault: the pack stays with y as well.
HandOverKeeps(x, y) ==
  /\ heap' = heap \ ({ptr[x]} \ {ptr[y]})
  /\ ptr' = [ptr EXCEPT ![x] = ptr[y]]

\* x takes the pack of y, which has none afterwards; what x owned is deleted,
\* unless it is the same.  Copying, assigning a variable, the conversion to
\* RedisReplyRef and the assignment of one are all this.
HandOver(x, y) ==
  /\ heap' = heap \ ({ptr[x]} \ {ptr[y]})
  /\ ptr' = [ptr EXCEPT ![y] = NoPack, ![x] = ptr[y]]

\* "if (this == &other) return *this".
Assign(x, y) == IF x = y THEN UNCHANGED <<heap, ptr>> ELSE HandOver(x, y)

Destroy(x) ==
  /\ heap' = heap \ {ptr[x]} /\ ptr' = [ptr EXCEPT ![x] = NoPack]

\* Every reply that is allocated has exactly one owner, and nothing points to
\* one that is freed: none is freed twice, used after that, or leaked.
OwnedOnce ==
  /\ \A x \in Vars : ptr[x] # NoPack => ptr[x] \in heap
  /\ \A p \in heap : \E x \in Vars : {y \in Vars : ptr[y] = p} = {x}
=============================================================================
