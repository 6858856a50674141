--------------------------- MODULE TypedCommands ---------------------------
(* The typed commands of ramcloud::Client in RedisClientYaf.cpp: how each    *)
(* turns its parameters into the arguments of a Redis command, and the reply *)
(* into a status and out-parameters.  Names (keys, fields, members) are      *)
(* numbers and so are values and scores; 0 is what an out-parameter has when *)
(* there is no value.  Names are C strings: no NUL inside.                   *)
(*                                                                           *)
(* A call is a record: the command, the names it is about and a value for    *)
(* each.  The database is external: one container of names and values for    *)
(* the strings, and one each for a hash, a set and a sorted set.             *)
EXTENDS Integers, Sequences, FiniteSets, SequencesExt

Kinds == {"str", "hash", "set", "zset"}

Commands ==
  [str  |-> {"SET", "MSET", "GET", "MGET", "DEL", "INCRBY"},
   hash |-> {"HSET", "HMSET", "HGET", "HMGET", "HGETALL", "HDEL", "HLEN", "HINCRBY"},
   set  |-> {"SADD", "SREM", "SMEMBERS", "SISMEMBER", "SCARD"},
   zset |-> {"ZADD", "ZREM", "ZREMRANGEBYSCORE", "ZSCORE", "ZCOUNT", "ZRANK", "ZCARD",
             "ZRANGE", "ZRANGEWITHSCORES", "ZRANGEBYSCOREWITHSCORES", "ZINCRBY"}]

\* The container a command is about.
Kind(cmd) == CHOOSE k \in Kinds : cmd \in Commands[k]

Puts    == {"SET", "MSET", "HSET", "HMSET", "SADD", "ZADD"}
Looks   == {"GET", "HGET", "ZSCORE"}
Batches == {"MGET", "HMGET"}
Removes == {"DEL", "HDEL", "SREM", "ZREM"}
Counts  == {"HLEN", "SCARD", "ZCARD"}
Incrs   == {"INCRBY", "HINCRBY", "ZINCRBY"}
Ranges  == {"ZREMRANGEBYSCORE", "ZCOUNT", "ZRANGEBYSCOREWITHSCORES"}
Indexed == {"ZRANGE", "ZRANGEWITHSCORES"}
\* Those about a single name, and those that have a value for each.
Singles == Looks \cup Incrs \cup {"SET", "HSET", "SISMEMBER", "ZRANK"}
Valued  == (Puts \ {"SADD"}) \cup Incrs

\* The parameters of a call; the bounds of a range, scores or indices, are the
\* values of 1 and 2.
CallOK(call) ==
  /\ \E k \in Kinds : call.cmd \in Commands[k]
  /\ IsFiniteSet(call.names) /\ call.names \subseteq Nat
  /\ call.cmd \in Singles => \E n \in call.names : call.names = {n}
  /\ call.cmd \in Valued => \A n \in call.names : call.vals[n] \in Nat
  /\ call.cmd \in Ranges => call.vals[1] \in Nat /\ call.vals[2] \in Nat
  /\ call.cmd \in Indexed => call.vals[1] \in Int /\ call.vals[2] \in Int

-----------------------------------------------------------------------------
(* From the parameters to the arguments.                                     *)

\* The members of a finite set, each before those that it precedes.
InOrder(S, before(_, _)) ==
  CHOOSE s \in [1 .. Cardinality(S) -> S] :
    \A i, j \in 1 .. Cardinality(S) : i < j => before(s[i], s[j])
\* The members of two sequences in turn.
InTurn(s, t) ==
  [i \in 1 .. 2 * Len(s) |-> IF i % 2 = 1 THEN s[(i + 1) \div 2] ELSE t[i \div 2]]

\* The iteration order of std::set and std::map.
Sorted(S) == InOrder(S, <)

\* appendArgs, and the single name of a formatted command.
NameArgs(call) == Sorted(call.names)

ValsOf(call) == [i \in DOMAIN Sorted(call.names) |-> call.vals[Sorted(call.names)[i]]]

\* Name and value, in turn: mset, hmset; set, hset.
PairArgs(call) == InTurn(Sorted(call.names), ValsOf(call))

\* zadd: score and member, in turn.
ScoreArgs(call) == InTurn(ValsOf(call), Sorted(call.names))

StringArgs(call) ==
  IF call.cmd \in {"SET", "MSET", "INCRBY"} THEN PairArgs(call) ELSE NameArgs(call)

HashArgs(call) ==
  CASE call.cmd \in {"HSET", "HMSET", "HINCRBY"} -> PairArgs(call)
    [] call.cmd \in {"HGETALL", "HLEN"} -> <<>>
    [] OTHER -> NameArgs(call)

SetArgs(call) ==
  IF call.cmd \in {"SMEMBERS", "SCARD"} THEN <<>> ELSE NameArgs(call)

\* Fault: the member before its score, as hmset has it.
SortedSetArgsLikeHash(call) ==
  CASE call.cmd \in {"ZADD", "ZINCRBY"} -> PairArgs(call)
    [] call.cmd \in Ranges \cup Indexed -> <<call.vals[1], call.vals[2]>>
    [] call.cmd \in {"ZREM", "ZSCORE", "ZRANK"} -> NameArgs(call)
    [] OTHER -> <<>>

SortedSetArgs(call) ==
  CASE call.cmd \in {"ZADD", "ZINCRBY"} -> ScoreArgs(call)
    [] call.cmd \in Ranges \cup Indexed -> <<call.vals[1], call.vals[2]>>
    [] call.cmd \in {"ZREM", "ZSCORE", "ZRANK"} -> NameArgs(call)
    [] OTHER -> <<>>

Args(call) ==
  CASE Kind(call.cmd) = "str"  -> StringArgs(call)
    [] Kind(call.cmd) = "hash" -> HashArgs(call)
    [] Kind(call.cmd) = "set"  -> SetArgs(call)
    [] Kind(call.cmd) = "zset" -> SortedSetArgs(call)

-----------------------------------------------------------------------------
(* The database (external).                                                  *)

Bulk(v)  == [type |-> "string", num |-> v, element |-> <<>>]
Count(n) == [type |-> "integer", num |-> n, element |-> <<>>]
Nil      == [type |-> "nil", num |-> 0, element |-> <<>>]
OK       == [type |-> "status", num |-> 0, element |-> <<>>]
Error    == [type |-> "error", num |-> 0, element |-> <<>>]
Array(s) == [type |-> "array", num |-> 0, element |-> s]

Odd(s)  == [i \in 1 .. Len(s) \div 2 |-> s[2 * i - 1]]
Even(s) == [i \in 1 .. Len(s) \div 2 |-> s[2 * i]]
\* The map that two sequences of keys and values stand for.
MapOf(ks, vs) ==
  [k \in ToSet(ks) |-> vs[CHOOSE i \in DOMAIN ks : ks[i] = k]]

Present(map, n) == IF n \in DOMAIN map THEN Bulk(map[n]) ELSE Nil
Held(map, n) == IF n \in DOMAIN map THEN map[n] ELSE 0
Over(f, g) == [n \in DOMAIN f \cup DOMAIN g |-> IF n \in DOMAIN f THEN f[n] ELSE g[n]]
Without(map, S) == [n \in DOMAIN map \ S |-> map[n]]
InRange(map, low, high) == {n \in DOMAIN map : low <= map[n] /\ map[n] <= high}

\* Names in the order of their values, and by name where these are equal.
ByScore(map, S) ==
  InOrder(S, LAMBDA m, n : map[m] < map[n] \/ (map[m] = map[n] /\ m < n))
\* The elements from one index to another; a negative one counts from the end.
FromTo(s, start, stop) ==
  LET at(i) == IF i < 0 THEN Len(s) + i ELSE i
  IN SubSeq(s, 1 + Max({0, at(start)}), 1 + Min({Len(s) - 1, at(stop)}))
\* A hash or a set has an order of its own.
Unsorted(map) == Reverse(Sorted(DOMAIN map))

Alone(names) == Array([i \in DOMAIN names |-> Bulk(names[i])])
Paired(map, names) ==
  Array(InTurn([i \in DOMAIN names |-> Bulk(names[i])],
               [i \in DOMAIN names |-> Bulk(map[names[i]])]))

Incremented(map, n, v) == Over([m \in {n} |-> Held(map, n) + v], map)

\* What the server makes of a command: its container afterwards, and the reply.
Serve(cmd, args, map) ==
  CASE cmd \in {"SET", "MSET", "HSET", "HMSET"} ->
         <<Over(MapOf(Odd(args), Even(args)), map), OK>>
    [] cmd = "ZADD" -> <<Over(MapOf(Even(args), Odd(args)), map), Count(Len(args) \div 2)>>
    [] cmd = "SADD" -> <<Over([n \in ToSet(args) |-> 0], map), Count(Len(args))>>
    [] cmd \in Looks -> <<map, Present(map, args[1])>>
    [] cmd \in Batches -> <<map, Array([i \in DOMAIN args |-> Present(map, args[i])])>>
    [] cmd = "SMEMBERS" -> <<map, Alone(Unsorted(map))>>
    [] cmd = "HGETALL" -> <<map, Paired(map, Unsorted(map))>>
    [] cmd = "ZRANGE" -> <<map, Alone(FromTo(ByScore(map, DOMAIN map), args[1], args[2]))>>
    [] cmd = "ZRANGEWITHSCORES" ->
         <<map, Paired(map, FromTo(ByScore(map, DOMAIN map), args[1], args[2]))>>
    [] cmd = "ZRANGEBYSCOREWITHSCORES" ->
         <<map, Paired(map, ByScore(map, InRange(map, args[1], args[2])))>>
    [] cmd \in Removes ->
         <<Without(map, ToSet(args)), Count(Cardinality(ToSet(args) \cap DOMAIN map))>>
    [] cmd \in Counts -> <<map, Count(Cardinality(DOMAIN map))>>
    [] cmd = "SISMEMBER" -> <<map, Count(IF args[1] \in DOMAIN map THEN 1 ELSE 0)>>
    [] cmd = "ZCOUNT" -> <<map, Count(Cardinality(InRange(map, args[1], args[2])))>>
    [] cmd = "ZRANK" ->
         <<map, IF args[1] \in DOMAIN map
                THEN Count(Cardinality(InRange(map, 0, map[args[1]] - 1))) ELSE Nil>>
    [] cmd \in {"INCRBY", "HINCRBY"} ->
         <<Incremented(map, args[1], args[2]), Count(Held(map, args[1]) + args[2])>>
    [] cmd = "ZINCRBY" ->
         <<Incremented(map, args[2], args[1]), Bulk(Held(map, args[2]) + args[1])>>
    [] cmd = "ZREMRANGEBYSCORE" ->
         <<Without(map, InRange(map, args[1], args[2])),
           Count(Cardinality(InRange(map, args[1], args[2])))>>

-----------------------------------------------------------------------------
(* From the reply to the status and the out-parameters.                      *)

NullReply == [type |-> "null", num |-> 0, element |-> <<>>]

Statuses == {"ok", "not_found", "error", "CONFIG_ERR", "REDIS_ERR", "ERR", "NO_ERR"}
ok(status) == status \in {"ok", "not_found"}

\* Client::reply2status of a pack with this reply and this info.err.
reply2status(reply, err) ==
  CASE reply.type = "null" -> (CASE err = 0 -> "NO_ERR"
                                 [] err < 0 -> "ERR"
                                 [] OTHER -> "REDIS_ERR")
    [] reply.type = "error" -> "error"
    [] reply.type = "nil" -> "not_found"
    [] OTHER -> "ok"

reply2string(reply) == IF reply.type \in {"string", "status"} THEN reply.num ELSE 0
reply2integer(reply) == IF reply.type = "integer" THEN reply.num ELSE 0

NoOut == [num |-> 0, list |-> <<>>]

\* Fault: the index is advanced for the strings only.
ByNameOfFound(call, reply) ==
  LET names == Sorted(call.names)
      found == Sorted({i \in DOMAIN names : reply.element[i].type = "string"})
  IN [j \in DOMAIN found |-> <<names[j], reply.element[found[j]].num>>]

\* mget and hmget: the i-th element belongs to the i-th name; what is no string
\* leaves its name out.
ByName(call, reply) ==
  LET names == Sorted(call.names)
      found == Sorted({i \in DOMAIN names : reply.element[i].type = "string"})
  IN [j \in DOMAIN found |-> <<names[found[j]], reply.element[found[j]].num>>]

\* hgetall, zrangeWithScores: the elements in pairs; smembers, zrange: one by one.
InPairs(element) ==
  [i \in 1 .. Len(element) \div 2 |->
     <<reply2string(element[2 * i - 1]), reply2string(element[2 * i])>>]
OneByOne(element) == [i \in DOMAIN element |-> <<reply2string(element[i]), 0>>]

\* Collected in a std::set or std::map.
Collected(list) == InOrder(ToSet(list), LAMBDA a, b : a[1] < b[1])

Number(n) == [NoOut EXCEPT !.num = n]
List(s) == [NoOut EXCEPT !.list = s]

\* The out-parameters.  A number is reset when there is none, but by scard,
\* zcard and sismember; a collection is left alone unless the status is ok.
StringOut(call, reply, status) ==
  CASE call.cmd = "GET" -> Number(reply2string(reply))
    [] call.cmd \in {"DEL", "INCRBY"} -> Number(reply2integer(reply))
    [] call.cmd = "MGET" /\ ok(status) /\ reply.type = "array" -> List(ByName(call, reply))
    [] OTHER -> NoOut

SetOut(call, reply, status) ==
  CASE call.cmd = "SREM" -> Number(reply2integer(reply))
    [] call.cmd \in {"SCARD", "SISMEMBER"} /\ ok(status) -> Number(reply2integer(reply))
    [] call.cmd = "SMEMBERS" /\ ok(status) -> List(Collected(OneByOne(reply.element)))
    [] OTHER -> NoOut

HashOut(call, reply, status) ==
  CASE call.cmd = "HGET" -> Number(reply2string(reply))
    [] call.cmd \in {"HDEL", "HLEN", "HINCRBY"} -> Number(reply2integer(reply))
    [] call.cmd = "HMGET" /\ ok(status) /\ reply.type = "array" -> List(ByName(call, reply))
    [] call.cmd = "HGETALL" /\ ok(status) /\ reply.type = "array" ->
         List(Collected(InPairs(reply.element)))
    [] OTHER -> NoOut

SortedSetOut(call, reply, status) ==
  CASE call.cmd \in {"ZSCORE", "ZINCRBY"} -> Number(reply2string(reply))
    [] call.cmd \in {"ZREM", "ZCOUNT", "ZRANK"} -> Number(reply2integer(reply))
    [] call.cmd = "ZCARD" /\ ok(status) -> Number(reply2integer(reply))
    [] call.cmd = "ZRANGE" /\ ok(status) /\ reply.type = "array" ->
         List(OneByOne(reply.element))
    [] call.cmd \in {"ZRANGEWITHSCORES", "ZRANGEBYSCOREWITHSCORES"} /\ ok(status)
       /\ reply.type = "array" -> List(InPairs(reply.element))
    [] OTHER -> NoOut

Out(call, reply, status) ==
  CASE Kind(call.cmd) = "str"  -> StringOut(call, reply, status)
    [] Kind(call.cmd) = "hash" -> HashOut(call, reply, status)
    [] Kind(call.cmd) = "set"  -> SetOut(call, reply, status)
    [] Kind(call.cmd) = "zset" -> SortedSetOut(call, reply, status)

-----------------------------------------------------------------------------
(* What a call means, on containers of names and values.                     *)

\* The only name of a call that has one.
Name(call) == CHOOSE n \in call.names : TRUE
Chosen(call, map) == InRange(map, call.vals[1], call.vals[2])

\* The container after the call.
Effect(call, map) ==
  CASE call.cmd = "SADD" -> Over([n \in call.names |-> 0], map)
    [] call.cmd \in Puts \ {"SADD"} -> Over([n \in call.names |-> call.vals[n]], map)
    [] call.cmd \in Removes -> Without(map, call.names)
    [] call.cmd \in Incrs -> Over([n \in call.names |-> Held(map, n) + call.vals[n]], map)
    [] call.cmd = "ZREMRANGEBYSCORE" -> Without(map, Chosen(call, map))
    [] OTHER -> map

\* Entries in the order of their names, or of their values from index to index.
NamesOf(S) == [i \in 1 .. Cardinality(S) |-> <<Sorted(S)[i], 0>>]
Entries(map, S) == [i \in 1 .. Cardinality(S) |-> <<Sorted(S)[i], map[Sorted(S)[i]]>>]
Selected(call, map) == FromTo(ByScore(map, DOMAIN map), call.vals[1], call.vals[2])
Ranking(map, names) == [i \in DOMAIN names |-> <<names[i], map[names[i]]>>]

\* What its caller is to be told.
Truth(call, map) ==
  LET n == Name(call) IN
  CASE call.cmd \in Looks -> Number(Held(map, n))
    [] call.cmd \in Incrs -> Number(Held(map, n) + call.vals[n])
    [] call.cmd \in Removes -> Number(Cardinality(call.names \cap DOMAIN map))
    [] call.cmd \in Counts -> Number(Cardinality(DOMAIN map))
    [] call.cmd = "SISMEMBER" -> Number(IF n \in DOMAIN map THEN 1 ELSE 0)
    [] call.cmd = "ZCOUNT" -> Number(Cardinality(Chosen(call, map)))
    [] call.cmd = "ZRANK" ->
         Number(IF n \in DOMAIN map THEN Cardinality({m \in DOMAIN map : map[m] < map[n]})
                                    ELSE 0)
    [] call.cmd \in Batches -> List(Entries(map, call.names \cap DOMAIN map))
    [] call.cmd = "HGETALL" -> List(Entries(map, DOMAIN map))
    [] call.cmd = "SMEMBERS" -> List(NamesOf(DOMAIN map))
    [] call.cmd = "ZRANGE" ->
         List([i \in DOMAIN Selected(call, map) |-> <<Selected(call, map)[i], 0>>])
    [] call.cmd = "ZRANGEWITHSCORES" -> List(Ranking(map, Selected(call, map)))
    [] call.cmd = "ZRANGEBYSCOREWITHSCORES" ->
         List(Ranking(map, ByScore(map, Chosen(call, map))))
    [] OTHER -> NoOut
=============================================================================
