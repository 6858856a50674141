---------------------------- MODULE MCClientCall ----------------------------
EXTENDS ClientCall

CONSTANTS t1, t2

\* Scores that are not in the order of the members; the bounds of a range of
\* scores, and indices that leave out the first of two.
Scores == <<2, 1>>
Bounds == <<1, 1>>
Indices == <<1, -1>>

On(cmd, names) ==
  [cmd |-> cmd, names |-> names,
   vals |-> CASE cmd \in Ranges -> Bounds [] cmd \in Indexed -> Indices [] OTHER -> Scores]

AllOps ==
  {On(cmd, {1, 2}) : cmd \in {"MSET", "HMSET", "SADD", "ZADD"} \cup Batches}
  \cup {On(cmd, {2}) : cmd \in {"SET", "HSET"} \cup Looks \cup Removes \cup Incrs \cup {"SISMEMBER", "ZRANK"}}
  \cup {On(cmd, {}) : cmd \in Counts \cup Ranges \cup Indexed \cup {"HGETALL", "SMEMBERS"}}

\* t2 interferes with t1.
TwoThreads == {t1, t2}
MCOps == [t \in TwoThreads |-> IF t = t1 THEN AllOps ELSE {On("SET", {2})}]
=============================================================================
