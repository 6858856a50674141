--------------------------- MODULE MCPoolRegistry ---------------------------
(* PoolRegistry on small instances, for TLC.                                *)
EXTENDS PoolRegistry, TLC

CONSTANTS t1, t2, c1, c2, d1, d2, e1, e2, p1, p2, p3

TwoThreads == {t1, t2}
TwoClients == {c1, c2}
OneClient == {c1}
OneDb == {d1}
TwoDbs == {d1, d2}
OneServer == {e1}
TwoServers == {e1, e2}
\* The watcher throws at most two pools away: no more than three are live.
ThreePools == {p1, p2, p3}

\* Each thread has a Client of its own, or both share one.
OwnClient == t1 :> c1 @@ t2 :> c2
SharedClient == [t \in TwoThreads |-> c1]

AllOnOne == [c \in Clients |-> d1]

Symmetry == Permutations(Pools) \cup Permutations(Servers)
=============================================================================
