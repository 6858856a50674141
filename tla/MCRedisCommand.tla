--------------------------- MODULE MCRedisCommand ---------------------------
(* RedisCommand on small instances, for TLC.                                *)
EXTENDS RedisCommand, TLC

CONSTANTS t1, t2, s1, s2

TwoThreads == {t1, t2}
TwoSockets == {s1, s2}

Symmetry == Permutations(Threads) \cup Permutations(Socks)
=============================================================================
