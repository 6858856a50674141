----------------------------- MODULE MCRedisPool -----------------------------
(* RedisPool on small instances, for TLC.                                   *)
EXTENDS RedisPool, TLC

CONSTANTS t1, t2, c1, c2, c3

TwoThreads == {t1, t2}
TwoContexts == {c1, c2}
ThreeContexts == {c1, c2, c3}

NoEndpoint == {}
\* Wherever the backup index begins, it has to move on, or to wrap, or both.
MiddleEndpoint == {1}
AllEndpoints == Endpoints

\* Threads are interchangeable, and so are the cells of the heap.
Symmetry == Permutations(Threads) \cup Permutations(Contexts)
=============================================================================
