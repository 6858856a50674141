-------------------------- MODULE ClientCallProofs --------------------------
(* Theorems about a typed command from its call to its status, for every     *)
(* number of threads, sockets, hosts and calls: what a caller is told of a   *)
(* failure is about its own call, each reply has one owner, an answer is     *)
(* what the database held, and the database changes by what calls mean.      *)
EXTENDS ClientCall, FiniteSetTheorems, SequenceTheorems, WellFoundedInduction, TLAPS

Pointers == Threads \X Places
Labels == {"idle", "get", "first", "retry", "target", "error", "release",
           "return", "assign", "returned", "answered"}
HasSocket(t) == pc[t] \in {"first", "retry", "target", "error", "release"}
Making(t) == pc[t] \in {"get", "first", "retry", "target", "error", "release", "return"}
\* The pack of the call that is under way.
Mine(t) == <<t, number[t]>>

-----------------------------------------------------------------------------
(* The inductive invariant.                                                  *)

SocketTypes ==
  /\ holder \in [Socks -> Threads \cup {NoProc}]
  /\ conn \in [Socks -> Info] /\ last \in [Socks -> Info]
  /\ \A s \in Socks : conn[s].err = -1 <=> conn[s].host = NoHost
ThreadTypes ==
  /\ pc \in [Threads -> Labels] /\ sock \in [Threads -> Socks]
  /\ status \in [Threads -> Statuses]
  /\ cause \in [Threads -> Info] /\ served \in [Threads -> Hosts \cup {NoHost}]
  /\ DOMAIN op = Threads /\ \A t \in Threads : op[t] \in Ops[t]
PackTypes ==
  /\ DOMAIN pack = Packs
  /\ \A p \in Packs : pack[p] = [reply |-> pack[p].reply, info |-> pack[p].info]
  /\ \A p \in Packs : pack[p].info \in Info
Types == SocketTypes /\ ThreadTypes /\ PackTypes

\* A thread that uses a socket holds it.
Holding == \A t \in Threads : HasSocket(t) => holder[sock[t]] = t

\* The packs that are allocated are those that have an owner, and one each.
Owned ==
  /\ ptr \in [Pointers -> heap \cup {NoPack}] /\ heap \subseteq Packs
  /\ \A x, y \in Pointers : ptr[x] = ptr[y] /\ ptr[x] # NoPack => x = y
  /\ \A p \in heap : \E x \in Pointers : ptr[x] = p

\* A thread has packs that it made; those to come are unused.
Numbered ==
  /\ number \in [Threads -> 0 .. MaxCalls]
  /\ \A t \in Threads, place \in Places :
       At(t, place) # NoPack => \E n \in 1 .. number[t] : At(t, place) = <<t, n>>
  /\ \A t \in Threads, n \in 1 .. MaxCalls : n > number[t] => pack[<<t, n>>] = NoReply

\* Where the pack of the call is.
Place(t) ==
  /\ At(t, "made") = IF Making(t) THEN Mine(t) ELSE NoPack
  /\ At(t, "temp") = IF pc[t] = "assign" THEN Mine(t) ELSE NoPack
  /\ pc[t] = "returned" => At(t, "reply") \in {NoPack, Mine(t)}
  /\ pc[t] \notin {"returned", "answered"} => At(t, "reply") = NoPack

\* What the pack says of the call, once it is over.
Report(t) ==
  IF pack[Mine(t)].reply.type = "null"
  THEN pack[Mine(t)].info = cause[t] /\ pack[Mine(t)].info.err # 0
  ELSE pack[Mine(t)].info = [err |-> 0, host |-> served[t]]

\* What is known of the call before.
Content(t) ==
  /\ pc[t] \in {"get", "first", "retry", "error"} => pack[Mine(t)] = NoReply
  /\ pc[t] \in {"first", "retry", "target"} => Ctx(t).err # -1
  /\ pc[t] = "target" => pack[Mine(t)].reply.type # "null" /\ served[t] = Ctx(t).host
  /\ pc[t] = "error" => cause[t] = last[sock[t]] /\ cause[t].err # 0
  /\ \/ pc[t] \in {"release", "return", "assign"}
     \/ pc[t] = "returned" /\ At(t, "reply") # NoPack
     => Report(t)

IInv == Types /\ Holding /\ Owned /\ Numbered /\ \A t \in Threads : Place(t) /\ Content(t)

-----------------------------------------------------------------------------
(* The pointers.                                                             *)

LEMMA NoPackIsNone == NoPack \notin Packs
PROOF
  BY ClientAssumption DEF NoPack, Packs

LEMMA MakeOwned ==
  ASSUME Owned, NEW x \in Pointers, NEW p \in Packs, Ptr!Make(x, p), ptr[x] = NoPack
  PROVE  Owned' /\ p \notin heap
PROOF
  BY NoPackIsNone DEF Owned, Ptr!Make

LEMMA HandOverOwned ==
  ASSUME Owned, NEW x \in Pointers, NEW y \in Pointers, x # y, Ptr!HandOver(x, y)
  PROVE  Owned'
PROOF
  <1>1. NoPack \notin heap
    BY NoPackIsNone DEF Owned
  <1>2. ptr' = [ptr EXCEPT ![y] = NoPack, ![x] = ptr[y]]
        /\ heap' = heap \ ({ptr[x]} \ {ptr[y]})
    BY DEF Ptr!HandOver
  <1>3. /\ ptr'[y] = NoPack /\ ptr'[x] = ptr[y]
        /\ \A z \in Pointers : z # x /\ z # y => ptr'[z] = ptr[z]
        /\ DOMAIN ptr' = Pointers
    BY <1>2 DEF Owned
  <1>4. \A z \in Pointers : ptr'[z] \in heap' \cup {NoPack}
    <2> SUFFICES ASSUME NEW z \in Pointers
                 PROVE  ptr'[z] \in heap' \cup {NoPack}
      OBVIOUS
    <2>1. CASE z = x
      BY <1>2, <1>3, <2>1 DEF Owned
    <2>2. CASE z # x /\ z # y
      BY <1>2, <1>3, <2>2 DEF Owned
    <2> QED
      BY <1>3, <2>1, <2>2
  <1>5. \A z, w \in Pointers : ptr'[z] = ptr'[w] /\ ptr'[z] # NoPack => z = w
    BY <1>3 DEF Owned
  <1>6. \A p \in heap' : \E z \in Pointers : ptr'[z] = p
    <2> SUFFICES ASSUME NEW p \in heap'
                 PROVE  \E z \in Pointers : ptr'[z] = p
      OBVIOUS
    <2>1. p \in heap /\ (p # ptr[x] \/ p = ptr[y])
      BY <1>2
    <2>2. PICK z \in Pointers : ptr[z] = p
      BY <2>1 DEF Owned
    <2> QED
      BY <1>3, <2>1, <2>2
  <1>7. ptr' \in [Pointers -> heap' \cup {NoPack}]
    BY <1>2, <1>3, <1>4 DEF Owned
  <1> QED
    BY <1>2, <1>5, <1>6, <1>7 DEF Owned

LEMMA DestroyOwned ==
  ASSUME Owned, NEW x \in Pointers, Ptr!Destroy(x)
  PROVE  Owned'
PROOF
  BY NoPackIsNone DEF Owned, Ptr!Destroy

LEMMA OneOwner ==
  ASSUME Owned
  PROVE  Ptr!OwnedOnce
PROOF
  <1>1. \A x \in Pointers : ptr[x] # NoPack => ptr[x] \in heap
    BY DEF Owned
  <1>2. ASSUME NEW p \in heap
        PROVE  \E x \in Pointers : {y \in Pointers : ptr[y] = p} = {x}
    <2>1. PICK x \in Pointers : ptr[x] = p
      BY DEF Owned
    <2>2. p # NoPack
      BY NoPackIsNone DEF Owned
    <2> QED
      BY <2>1, <2>2 DEF Owned
  <1> QED
    BY <1>1, <1>2 DEF Ptr!OwnedOnce, Pointers

\* A thread that may make a call has a number left for it.
LEMMA NumberLeft ==
  ASSUME number \in [Threads -> 0 .. MaxCalls], CallsMade < MaxCalls, NEW t \in Threads
  PROVE  number[t] + 1 \in 1 .. MaxCalls
PROOF
  <1> DEFINE made == {p \in Packs : p[2] <= number[p[1]]}
             own == {t} \X (1 .. MaxCalls)
  <1>1. MaxCalls \in Nat /\ IsFiniteSet(Threads)
    BY ClientAssumption
  <1>2. IsFiniteSet(1 .. MaxCalls) /\ Cardinality(1 .. MaxCalls) = MaxCalls
    BY <1>1, FS_Interval
  <1>3. IsFiniteSet(Packs)
    BY <1>1, <1>2, FS_Product DEF Packs
  <1>4. IsFiniteSet(made)
    BY <1>3, FS_Subset
  <1>5. IsFiniteSet({t}) /\ Cardinality({t}) = 1
    BY FS_Singleton
  <1>6. Cardinality(own) = MaxCalls
    <2>1. Cardinality(own) = Cardinality({t}) * Cardinality(1 .. MaxCalls)
      BY <1>2, <1>5, FS_Product, Zenon
    <2> QED
      BY <1>1, <1>2, <1>5, <2>1
  <1>7. ASSUME number[t] = MaxCalls
        PROVE  FALSE
    <2>1. own \subseteq made
      BY <1>1, <1>7 DEF Packs
    <2>2. Cardinality(own) <= Cardinality(made)
      BY <1>4, <2>1, FS_Subset
    <2>3. Cardinality(made) \in Nat
      BY <1>4, FS_CardinalityType
    <2> HIDE DEF own, made
    <2> QED
      BY <1>1, <1>6, <2>2, <2>3 DEF CallsMade, made
  <1> QED
    BY <1>1, <1>7

\* A reply of a server is no null reply.
LEMMA ServeReplies ==
  ASSUME NEW cmd, NEW args, NEW map, \E k \in Kinds : cmd \in Commands[k]
  PROVE  Serve(cmd, args, map)[2].type # "null"
PROOF
  <1>1. /\ \A v : Bulk(v).type = "string"
        /\ \A v : Count(v).type = "integer"
        /\ \A v : Array(v).type = "array"
        /\ Nil.type = "nil" /\ OK.type = "status"
        /\ \A m, n : Present(m, n).type \in {"string", "nil"}
        /\ \A v : Alone(v).type = "array"
        /\ \A m, v : Paired(m, v).type = "array"
    BY DEF Bulk, Count, Array, Nil, OK, Present, Alone, Paired
  <1> USE DEF Puts, Looks, Batches, Removes, Counts, Incrs, Ranges
  <1>2. cmd \in {"SET", "MSET", "GET", "MGET", "DEL", "INCRBY",
                 "HSET", "HMSET", "HGET", "HMGET", "HGETALL", "HDEL", "HLEN", "HINCRBY",
                 "SADD", "SREM", "SMEMBERS", "SISMEMBER", "SCARD",
                 "ZADD", "ZREM", "ZREMRANGEBYSCORE", "ZSCORE", "ZCOUNT", "ZRANK", "ZCARD",
                 "ZRANGE", "ZRANGEWITHSCORES", "ZRANGEBYSCOREWITHSCORES", "ZINCRBY"}
    BY DEF Kinds, Commands
  <1>3. CASE cmd \in {"SET", "MSET", "HSET", "HMSET"}
    BY <1>1, <1>3 DEF Serve
  <1>4. CASE cmd \in {"ZADD", "SADD"}
    BY <1>1, <1>4 DEF Serve
  <1>5. CASE cmd \in Looks \cup Batches
    BY <1>1, <1>5 DEF Serve
  <1>6. CASE cmd \in {"SMEMBERS", "HGETALL"}
    BY <1>1, <1>6 DEF Serve
  <1>7. CASE cmd \in {"ZRANGE", "ZRANGEWITHSCORES", "ZRANGEBYSCOREWITHSCORES"}
    BY <1>1, <1>7 DEF Serve
  <1>8. CASE cmd \in Removes \cup Counts
    BY <1>1, <1>8 DEF Serve
  <1>9. CASE cmd \in {"SISMEMBER", "ZCOUNT"}
    BY <1>1, <1>9 DEF Serve
  <1>10. CASE cmd = "ZRANK"
    BY <1>1, <1>10 DEF Serve
  <1>11. CASE cmd \in Incrs
    BY <1>1, <1>11 DEF Serve
  <1>12. CASE cmd = "ZREMRANGEBYSCORE"
    BY <1>1, <1>12 DEF Serve
  <1> QED
    BY <1>2, <1>3, <1>4, <1>5, <1>6, <1>7, <1>8, <1>9, <1>10, <1>11, <1>12

-----------------------------------------------------------------------------
(* What a step leaves alone.                                                 *)

LEMMA MineAllocated ==
  ASSUME IInv, NEW t \in Threads,
         Making(t) \/ pc[t] = "assign" \/ (pc[t] = "returned" /\ At(t, "reply") # NoPack)
  PROVE  /\ Mine(t) \in heap /\ Mine(t) \in Packs /\ Mine(t) # NoPack
         /\ Making(t) => At(t, "made") = Mine(t)
         /\ pc[t] = "assign" => At(t, "temp") = Mine(t)
         /\ pc[t] = "returned" => At(t, "reply") = Mine(t)
PROOF
  <1>1. Mine(t) # NoPack
    BY ClientAssumption DEF Mine, NoPack
  <1>2. Place(t)
    BY DEF IInv
  <1>3. \A place \in Places : At(t, place) \in heap \cup {NoPack}
    BY DEF IInv, Owned, At, Pointers
  <1>4. "made" \in Places /\ "temp" \in Places /\ "reply" \in Places
    BY DEF Places
  <1>5. heap \subseteq Packs
    BY DEF IInv, Owned
  <1> QED
    BY <1>1, <1>2, <1>3, <1>4, <1>5 DEF Place, Making

\* What belongs to one thread does not belong to another.
LEMMA Apart ==
  ASSUME IInv, NEW t \in Threads, NEW u \in Threads, u # t
  PROVE  /\ Mine(u) # Mine(t)
         /\ \A place \in Places : At(t, place) # NoPack => At(t, place) # Mine(u)
         /\ HasSocket(u) /\ HasSocket(t) => sock[u] # sock[t]
PROOF
  <1>1. Mine(u) # Mine(t)
    BY DEF Mine
  <1>2. \A place \in Places : At(t, place) # NoPack => At(t, place) # Mine(u)
    BY DEF IInv, Numbered, Mine
  <1>3. HasSocket(u) /\ HasSocket(t) => sock[u] # sock[t]
    BY DEF IInv, Holding
  <1> QED
    BY <1>1, <1>2, <1>3

\* The call of a thread is as it was when nothing that it uses is changed.
LEMMA Elsewhere ==
  ASSUME IInv, NEW u \in Threads,
         pc'[u] = pc[u], sock'[u] = sock[u], number'[u] = number[u],
         cause'[u] = cause[u], served'[u] = served[u],
         \A place \in Places : ptr'[<<u, place>>] = ptr[<<u, place>>],
         Mine(u) \in heap => pack'[Mine(u)] = pack[Mine(u)],
         HasSocket(u) => conn'[sock[u]] = conn[sock[u]] /\ last'[sock[u]] = last[sock[u]]
  PROVE  Place(u)' /\ Content(u)'
PROOF
  <1>1. Place(u) /\ Content(u)
    BY DEF IInv
  <1>2. Place(u)'
    BY <1>1 DEF Place, At, Making, Mine, Places
  <1>3. Mine(u)' = Mine(u) /\ At(u, "reply")' = At(u, "reply")
    BY DEF Mine, At, Places
  <1>4. ASSUME Making(u) \/ pc[u] = "assign" \/ (pc[u] = "returned" /\ At(u, "reply") # NoPack)
        PROVE  pack'[Mine(u)] = pack[Mine(u)]
    BY <1>4, MineAllocated
  <1>5. HasSocket(u) => (Ctx(u)' = Ctx(u) /\ last'[sock'[u]] = last[sock[u]])
    BY DEF Ctx
  <1>6. /\ pc'[u] \in {"get", "first", "retry", "error"} => pack'[Mine(u)'] = NoReply
        /\ pc'[u] \in {"first", "retry", "target"} => Ctx(u)'.err # -1
    BY <1>1, <1>3, <1>4, <1>5 DEF Content, Making, HasSocket
  <1>7. /\ pc'[u] = "target" => pack'[Mine(u)'].reply.type # "null" /\ served'[u] = Ctx(u)'.host
        /\ pc'[u] = "error" => cause'[u] = last'[sock'[u]] /\ cause'[u].err # 0
    BY <1>1, <1>3, <1>4, <1>5 DEF Content, Making, HasSocket
  <1>8. ASSUME \/ pc'[u] \in {"release", "return", "assign"}
               \/ pc'[u] = "returned" /\ At(u, "reply")' # NoPack
        PROVE  Report(u)'
    <2>1. Report(u)
      BY <1>1, <1>3, <1>8 DEF Content
    <2>2. pack'[Mine(u)] = pack[Mine(u)]
      BY <1>3, <1>4, <1>8 DEF Making
    <2> QED
      BY <1>3, <2>1, <2>2 DEF Report
  <1> QED
    BY <1>2, <1>6, <1>7, <1>8 DEF Content

\* The packs still to come are as they were when only that of a call is changed.
LEMMA NumberedStays ==
  ASSUME Numbered, UNCHANGED <<number, ptr>>, NEW t \in Threads,
         \A p \in Packs : p # Mine(t) => pack'[p] = pack[p]
  PROVE  Numbered'
PROOF
  <1>1. \A u \in Threads, n \in 1 .. MaxCalls :
          n > number[u] => <<u, n>> \in Packs /\ <<u, n>> # Mine(t)
    BY DEF Packs, Mine, Numbered
  <1> QED
    BY <1>1 DEF Numbered, At

-----------------------------------------------------------------------------
(* A socket is asked for and used.                                           *)

\* A thread makes one more call.
LEMMA NumberedGrows ==
  ASSUME Numbered, NEW t \in Threads, number[t] + 1 \in 1 .. MaxCalls,
         number' = [number EXCEPT ![t] = @ + 1], pack' = pack,
         \A u \in Threads, place \in Places :
           At(u, place)' = At(u, place) \/ (u = t /\ At(u, place)' = <<t, number[t] + 1>>)
  PROVE  Numbered'
PROOF
  <1>1. MaxCalls \in Nat
    BY ClientAssumption
  <1>2. /\ number'[t] = number[t] + 1 /\ \A u \in Threads : u # t => number'[u] = number[u]
        /\ number' \in [Threads -> 0 .. MaxCalls]
    BY <1>1 DEF Numbered
  <1>3. ASSUME NEW u \in Threads, NEW place \in Places, At(u, place)' # NoPack
        PROVE  \E n \in 1 .. number'[u] : At(u, place)' = <<u, n>>
    <2>1. CASE At(u, place)' = At(u, place)
      <3>1. PICK n \in 1 .. number[u] : At(u, place) = <<u, n>>
        BY <1>3, <2>1 DEF Numbered
      <3>2. n \in 1 .. number'[u]
        BY <1>1, <1>2, <3>1 DEF Numbered
      <3> QED
        BY <2>1, <3>1, <3>2
    <2>2. CASE u = t /\ At(u, place)' = <<t, number[t] + 1>>
      BY <1>1, <1>2, <2>2
    <2> QED
      BY <2>1, <2>2
  <1>4. ASSUME NEW u \in Threads, NEW n \in 1 .. MaxCalls, n > number'[u]
        PROVE  pack'[<<u, n>>] = NoReply
    <2>1. n > number[u]
      BY <1>1, <1>2, <1>4 DEF Numbered
    <2> QED
      BY <2>1 DEF Numbered
  <1> QED
    BY <1>2, <1>3, <1>4 DEF Numbered

LEMMA CallStep ==
  ASSUME IInv, NEW t \in Threads, Call(t)
  PROVE  IInv'
PROOF
  <1>1. /\ pc[t] = "idle" /\ CallsMade < MaxCalls /\ Chooses(t)
        /\ number' = [number EXCEPT ![t] = @ + 1]
        /\ Ptr!Make(<<t, "made">>, <<t, number'[t]>>)
        /\ pc' = [pc EXCEPT ![t] = "get"]
        /\ UNCHANGED <<store, poolVars, sock, pack, doneVars, histVars>>
    BY DEF Call, Goto
  <1>2. number[t] + 1 \in 1 .. MaxCalls /\ number'[t] = number[t] + 1 /\ MaxCalls \in Nat
    BY <1>1, NumberLeft, ClientAssumption DEF IInv, Numbered
  <1>3. Place(t) /\ At(t, "made") = NoPack /\ ptr[<<t, "made">>] = NoPack
    BY <1>1 DEF IInv, Place, Making, At
  <1>4. <<t, number'[t]>> \in Packs /\ <<t, "made">> \in Pointers
    BY <1>2 DEF Packs, Pointers, Places
  <1>5. Owned'
    BY <1>1, <1>3, <1>4, MakeOwned DEF IInv
  <1>6. Types' /\ Holding'
    <2>1. DOMAIN op' = Threads /\ \A u \in Threads : op'[u] \in Ops[u]
      BY <1>1 DEF Chooses, IInv, Types, ThreadTypes
    <2>2. ThreadTypes'
      BY <1>1, <2>1 DEF IInv, Types, ThreadTypes, Labels, doneVars, histVars
    <2>3. SocketTypes' /\ PackTypes'
      BY <1>1 DEF IInv, Types, SocketTypes, PackTypes, poolVars
    <2> QED
      BY <1>1, <2>2, <2>3 DEF IInv, Types, Holding, HasSocket, ThreadTypes, poolVars
  <1>7. ptr' = [ptr EXCEPT ![<<t, "made">>] = <<t, number'[t]>>]
    BY <1>1 DEF Ptr!Make
  <1>8. /\ ptr'[<<t, "made">>] = <<t, number'[t]>>
        /\ \A u \in Threads, place \in Places :
             (u # t \/ place # "made") => ptr'[<<u, place>>] = ptr[<<u, place>>]
    BY <1>4, <1>7 DEF IInv, Owned, Pointers
  <1>9. Numbered'
    BY <1>1, <1>2, <1>8, NumberedGrows DEF IInv, At
  <1>10. ASSUME NEW u \in Threads, u # t
         PROVE  Place(u)' /\ Content(u)'
    <2>1. number'[u] = number[u] /\ pc'[u] = pc[u]
      BY <1>1, <1>10 DEF IInv, Numbered, Types, ThreadTypes
    <2> QED
      BY <1>1, <1>8, <1>10, <2>1, Elsewhere DEF poolVars, histVars
  <1>11. Place(t)' /\ Content(t)'
    <2>1. pc'[t] = "get"
      BY <1>1 DEF IInv, Types, ThreadTypes
    <2>2. pack'[<<t, number'[t]>>] = NoReply
      BY <1>1, <1>2 DEF IInv, Numbered
    <2>3. At(t, "temp")' = NoPack /\ At(t, "reply")' = NoPack
      BY <1>1, <1>3, <1>8 DEF Place, At, Places
    <2> QED
      BY <1>8, <2>1, <2>2, <2>3 DEF Place, Content, Making, At, Mine
  <1> QED
    BY <1>5, <1>6, <1>9, <1>10, <1>11 DEF IInv

LEMMA CallUnconfiguredStep ==
  ASSUME IInv, NEW t \in Threads, CallUnconfigured(t)
  PROVE  IInv'
PROOF
  <1>1. /\ pc[t] = "idle" /\ CallsMade < MaxCalls /\ Chooses(t)
        /\ number' = [number EXCEPT ![t] = @ + 1]
        /\ pc' = [pc EXCEPT ![t] = "returned"]
        /\ UNCHANGED <<store, poolVars, sock, pack, doneVars, ptrVars, histVars>>
    BY DEF CallUnconfigured, Goto
  <1>2. number[t] + 1 \in 1 .. MaxCalls /\ number'[t] = number[t] + 1 /\ MaxCalls \in Nat
    BY <1>1, NumberLeft, ClientAssumption DEF IInv, Numbered
  <1>3. number' \in [Threads -> 0 .. MaxCalls] /\ \A u \in Threads : u # t => number'[u] = number[u]
    BY <1>1, <1>2 DEF IInv, Numbered
  <1>4. Owned'
    BY <1>1 DEF IInv, Owned, ptrVars
  <1>5. Types' /\ Holding'
    <2>1. \A u \in Threads : op'[u] \in Ops[u]
      BY <1>1 DEF Chooses, IInv, Types, ThreadTypes
    <2>2. DOMAIN op' = Threads
      BY <1>1 DEF Chooses, IInv, Types, ThreadTypes
    <2>3. ThreadTypes'
      BY <1>1, <2>1, <2>2 DEF IInv, Types, ThreadTypes, Labels, doneVars, histVars
    <2>4. SocketTypes' /\ PackTypes'
      BY <1>1 DEF IInv, Types, SocketTypes, PackTypes, poolVars
    <2> QED
      BY <1>1, <2>3, <2>4 DEF IInv, Types, Holding, HasSocket, ThreadTypes, poolVars
  <1>6. Numbered'
    BY <1>1, <1>2, NumberedGrows DEF IInv, At, ptrVars
  <1>7. ASSUME NEW u \in Threads, u # t
        PROVE  Place(u)' /\ Content(u)'
    <2>1. number'[u] = number[u] /\ pc'[u] = pc[u]
      BY <1>1, <1>3, <1>7 DEF IInv, Types, ThreadTypes
    <2> QED
      BY <1>1, <2>1, Elsewhere DEF poolVars, histVars, ptrVars
  <1>8. Place(t)' /\ Content(t)'
    <2>1. pc'[t] = "returned"
      BY <1>1 DEF IInv, Types, ThreadTypes
    <2>2. At(t, "made")' = NoPack /\ At(t, "temp")' = NoPack /\ At(t, "reply")' = NoPack
      BY <1>1 DEF IInv, Place, At, Making, ptrVars
    <2> QED
      BY <2>1, <2>2 DEF Place, Content, Making
  <1> QED
    BY <1>3, <1>4, <1>5, <1>6, <1>7, <1>8 DEF IInv

LEMMA GetSocketStep ==
  ASSUME IInv, NEW t \in Threads, NEW s \in Socks, GetSocket(t, s)
  PROVE  IInv'
PROOF
  <1>1. /\ pc[t] = "get" /\ holder[s] = NoProc /\ conn[s] # NoConn
        /\ holder' = [holder EXCEPT ![s] = t] /\ sock' = [sock EXCEPT ![t] = s]
        /\ pc' = [pc EXCEPT ![t] = "first"]
        /\ UNCHANGED <<store, conn, last, op, packVars, doneVars, ptrVars, histVars>>
    BY DEF GetSocket, Goto
  <1>2. /\ pc'[t] = "first" /\ sock'[t] = s
        /\ \A u \in Threads : u # t => pc'[u] = pc[u] /\ sock'[u] = sock[u]
    BY <1>1 DEF IInv, Types, ThreadTypes
  <1>3. Types'
    <2>1. SocketTypes'
      BY <1>1 DEF IInv, Types, SocketTypes
    <2>2. ThreadTypes'
      BY <1>1 DEF IInv, Types, ThreadTypes, Labels, doneVars, histVars
    <2>3. PackTypes'
      BY <1>1 DEF IInv, Types, PackTypes, packVars
    <2> QED
      BY <2>1, <2>2, <2>3 DEF Types
  <1>4. Holding'
    BY <1>1, <1>2, ClientAssumption
       DEF IInv, Types, SocketTypes, ThreadTypes, Holding, HasSocket
  <1>5. Owned' /\ Numbered'
    BY <1>1 DEF IInv, Owned, Numbered, At, ptrVars, packVars
  <1>6. ASSUME NEW u \in Threads, u # t
        PROVE  Place(u)' /\ Content(u)'
    BY <1>1, <1>2, <1>6, Elsewhere DEF packVars, ptrVars, histVars
  <1>7. Place(t)'
    BY <1>1, <1>2 DEF IInv, Place, Making, At, Mine, packVars, ptrVars
  <1>8. Content(t)'
    <2>1. pack'[Mine(t)'] = NoReply
      BY <1>1 DEF IInv, Content, Mine, packVars
    <2>2. conn[s].err # -1
      BY <1>1 DEF IInv, Types, SocketTypes, Info, NoConn
    <2>3. Ctx(t)'.err # -1
      BY <1>1, <1>2, <2>2 DEF Ctx
    <2> QED
      BY <1>2, <2>1, <2>3 DEF Content
  <1> QED
    BY <1>3, <1>4, <1>5, <1>6, <1>7, <1>8 DEF IInv

\* A pack that is written to is well formed.
LEMMA PackWritten ==
  ASSUME IInv, NEW p \in Packs, NEW r, NEW i \in Info
  PROVE  /\ pack' = [pack EXCEPT ![p].info = i] =>
              /\ PackTypes' /\ pack'[p] = [reply |-> pack[p].reply, info |-> i]
              /\ \A q \in Packs : q # p => pack'[q] = pack[q]
         /\ pack' = [pack EXCEPT ![p].reply = r] =>
              /\ PackTypes' /\ pack'[p] = [reply |-> r, info |-> pack[p].info]
              /\ \A q \in Packs : q # p => pack'[q] = pack[q]
PROOF
  <1>1. pack[p] = [reply |-> pack[p].reply, info |-> pack[p].info] /\ DOMAIN pack = Packs
    BY DEF IInv, Types, PackTypes
  <1>2. ASSUME pack' = [pack EXCEPT ![p].info = i]
        PROVE  /\ PackTypes' /\ pack'[p] = [reply |-> pack[p].reply, info |-> i]
               /\ \A q \in Packs : q # p => pack'[q] = pack[q]
    <2>1. pack'[p] = [pack[p] EXCEPT !.info = i]
      BY <1>1, <1>2
    <2>2. pack'[p] = [reply |-> pack[p].reply, info |-> i]
      BY <1>1, <2>1
    <2>3. \A q \in Packs : q # p => pack'[q] = pack[q]
      BY <1>1, <1>2
    <2>4. DOMAIN pack' = Packs
      BY <1>1, <1>2
    <2> QED
      BY <2>2, <2>3, <2>4 DEF IInv, Types, PackTypes
  <1>3. ASSUME pack' = [pack EXCEPT ![p].reply = r]
        PROVE  /\ PackTypes' /\ pack'[p] = [reply |-> r, info |-> pack[p].info]
               /\ \A q \in Packs : q # p => pack'[q] = pack[q]
    <2>1. pack'[p] = [pack[p] EXCEPT !.reply = r]
      BY <1>1, <1>3
    <2>2. pack'[p] = [reply |-> r, info |-> pack[p].info]
      BY <1>1, <2>1
    <2>3. \A q \in Packs : q # p => pack'[q] = pack[q]
      BY <1>1, <1>3
    <2>4. DOMAIN pack' = Packs
      BY <1>1, <1>3
    <2> QED
      BY <2>2, <2>3, <2>4 DEF IInv, Types, PackTypes
  <1> QED
    BY <1>2, <1>3

LEMMA NoSocketStep ==
  ASSUME IInv, NEW t \in Threads, NoSocket(t)
  PROVE  IInv'
PROOF
  <1> DEFINE none == [err |-> -1, host |-> NoHost]
  <1>1. /\ pc[t] = "get" /\ pack' = [pack EXCEPT ![At(t, "made")].info = none]
        /\ cause' = [cause EXCEPT ![t] = none] /\ pc' = [pc EXCEPT ![t] = "return"]
        /\ UNCHANGED <<store, poolVars, sock, op, number, doneVars, ptrVars, truth, served>>
    BY DEF NoSocket, SetInfo, Goto
  <1>2. At(t, "made") = Mine(t) /\ Mine(t) \in heap /\ Mine(t) \in Packs
    BY <1>1, MineAllocated DEF Making
  <1>3. none \in Info /\ none.err # 0
    BY DEF Info
  <1>4. /\ pc'[t] = "return" /\ cause'[t] = none
        /\ \A u \in Threads : u # t => pc'[u] = pc[u] /\ cause'[u] = cause[u]
    BY <1>1 DEF IInv, Types, ThreadTypes
  <1> HIDE DEF none
  <1>5. /\ PackTypes' /\ pack'[Mine(t)] = [reply |-> pack[Mine(t)].reply, info |-> none]
        /\ \A q \in Packs : q # Mine(t) => pack'[q] = pack[q]
    BY <1>1, <1>2, <1>3, PackWritten
  <1>6. Types' /\ Holding'
    <2>1. SocketTypes'
      BY <1>1 DEF IInv, Types, SocketTypes, poolVars
    <2>2. ThreadTypes'
      BY <1>1, <1>3 DEF IInv, Types, ThreadTypes, Labels, doneVars
    <2>3. Holding'
      BY <1>1, <1>4 DEF IInv, Holding, HasSocket, poolVars
    <2> QED
      BY <1>5, <2>1, <2>2, <2>3 DEF Types
  <1>7. Owned'
    BY <1>1 DEF IInv, Owned, ptrVars
  <1>8. Numbered'
    BY <1>1, <1>5, NumberedStays DEF IInv, ptrVars
  <1>9. ASSUME NEW u \in Threads, u # t
        PROVE  Place(u)' /\ Content(u)'
    <2>1. Mine(u) \in heap => pack'[Mine(u)] = pack[Mine(u)]
      BY <1>5, <1>9, Apart DEF IInv, Owned
    <2> QED
      BY <1>1, <1>4, <1>9, <2>1, Elsewhere DEF poolVars, ptrVars
  <1>10. Place(t)'
    BY <1>1, <1>4 DEF IInv, Place, Making, At, Mine, ptrVars
  <1>11. Content(t)'
    <2>1. pack[Mine(t)].reply.type = "null"
      BY <1>1 DEF IInv, Content, NoReply, NullReply
    <2>2. Report(t)'
      BY <1>1, <1>3, <1>4, <1>5, <2>1 DEF Report, Mine
    <2> QED
      BY <1>4, <2>2 DEF Content
  <1> QED
    BY <1>6, <1>7, <1>8, <1>9, <1>10, <1>11 DEF IInv

LEMMA SetTargetStep ==
  ASSUME IInv, NEW t \in Threads, SetTarget(t)
  PROVE  IInv'
PROOF
  <1> DEFINE answered == [err |-> 0, host |-> Ctx(t).host]
  <1>1. /\ pc[t] = "target" /\ pack' = [pack EXCEPT ![At(t, "made")].info = answered]
        /\ pc' = [pc EXCEPT ![t] = "release"]
        /\ UNCHANGED <<store, poolVars, sock, op, number, doneVars, ptrVars, histVars>>
    BY DEF SetTarget, SetInfo, Goto
  <1>2. At(t, "made") = Mine(t) /\ Mine(t) \in heap /\ Mine(t) \in Packs
    BY <1>1, MineAllocated DEF Making
  <1>3. answered \in Info
    BY DEF IInv, Types, SocketTypes, ThreadTypes, Ctx, Info
  <1>4. pc'[t] = "release" /\ \A u \in Threads : u # t => pc'[u] = pc[u]
    BY <1>1 DEF IInv, Types, ThreadTypes
  <1>5. /\ PackTypes' /\ pack'[Mine(t)] = [reply |-> pack[Mine(t)].reply, info |-> answered]
        /\ \A q \in Packs : q # Mine(t) => pack'[q] = pack[q]
    <2> HIDE DEF answered
    <2> QED
      BY <1>1, <1>2, <1>3, PackWritten
  <1>6. Types' /\ Holding'
    <2>1. SocketTypes'
      BY <1>1 DEF IInv, Types, SocketTypes, poolVars
    <2>2. ThreadTypes'
      BY <1>1 DEF IInv, Types, ThreadTypes, Labels, doneVars, histVars
    <2>3. Holding'
      BY <1>1, <1>4 DEF IInv, Holding, HasSocket, poolVars
    <2> QED
      BY <1>5, <2>1, <2>2, <2>3 DEF Types
  <1>7. Owned'
    BY <1>1 DEF IInv, Owned, ptrVars
  <1>8. Numbered'
    BY <1>1, <1>5, NumberedStays DEF IInv, ptrVars
  <1>9. ASSUME NEW u \in Threads, u # t
        PROVE  Place(u)' /\ Content(u)'
    <2>1. Mine(u) \in heap => pack'[Mine(u)] = pack[Mine(u)]
      BY <1>5, <1>9, Apart DEF IInv, Owned
    <2> QED
      BY <1>1, <1>4, <1>9, <2>1, Elsewhere DEF poolVars, ptrVars, histVars
  <1>10. Place(t)'
    BY <1>1, <1>4 DEF IInv, Place, Making, At, Mine, ptrVars
  <1>11. Content(t)'
    <2>1. pack[Mine(t)].reply.type # "null" /\ served[t] = Ctx(t).host
      BY <1>1 DEF IInv, Content
    <2>2. Report(t)'
      BY <1>1, <1>5, <2>1 DEF Report, Mine, histVars
    <2> QED
      BY <1>4, <2>2 DEF Content
  <1> QED
    BY <1>6, <1>7, <1>8, <1>9, <1>10, <1>11 DEF IInv

LEMMA SetErrorStep ==
  ASSUME IInv, NEW t \in Threads, SetError(t)
  PROVE  IInv'
PROOF
  <1>1. /\ pc[t] = "error" /\ pack' = [pack EXCEPT ![At(t, "made")].info = last[sock[t]]]
        /\ pc' = [pc EXCEPT ![t] = "release"]
        /\ UNCHANGED <<store, poolVars, sock, op, number, doneVars, ptrVars, histVars>>
    BY DEF SetError, SetInfo, Goto
  <1>2. At(t, "made") = Mine(t) /\ Mine(t) \in heap /\ Mine(t) \in Packs
    BY <1>1, MineAllocated DEF Making
  <1>3. last[sock[t]] \in Info
    BY DEF IInv, Types, SocketTypes, ThreadTypes
  <1>4. pc'[t] = "release" /\ \A u \in Threads : u # t => pc'[u] = pc[u]
    BY <1>1 DEF IInv, Types, ThreadTypes
  <1>5. /\ PackTypes' /\ pack'[Mine(t)] = [reply |-> pack[Mine(t)].reply, info |-> last[sock[t]]]
        /\ \A q \in Packs : q # Mine(t) => pack'[q] = pack[q]
    BY <1>1, <1>2, <1>3, PackWritten
  <1>6. Types' /\ Holding'
    <2>1. SocketTypes'
      BY <1>1 DEF IInv, Types, SocketTypes, poolVars
    <2>2. ThreadTypes'
      BY <1>1 DEF IInv, Types, ThreadTypes, Labels, doneVars, histVars
    <2>3. Holding'
      BY <1>1, <1>4 DEF IInv, Holding, HasSocket, poolVars
    <2> QED
      BY <1>5, <2>1, <2>2, <2>3 DEF Types
  <1>7. Owned'
    BY <1>1 DEF IInv, Owned, ptrVars
  <1>8. Numbered'
    BY <1>1, <1>5, NumberedStays DEF IInv, ptrVars
  <1>9. ASSUME NEW u \in Threads, u # t
        PROVE  Place(u)' /\ Content(u)'
    <2>1. Mine(u) \in heap => pack'[Mine(u)] = pack[Mine(u)]
      BY <1>5, <1>9, Apart DEF IInv, Owned
    <2> QED
      BY <1>1, <1>4, <1>9, <2>1, Elsewhere DEF poolVars, ptrVars, histVars
  <1>10. Place(t)'
    BY <1>1, <1>4 DEF IInv, Place, Making, At, Mine, ptrVars
  <1>11. Content(t)'
    <2>1. /\ pack[Mine(t)].reply.type = "null"
          /\ cause[t] = last[sock[t]] /\ cause[t].err # 0
      BY <1>1 DEF IInv, Content, NoReply, NullReply
    <2>2. Report(t)'
      BY <1>1, <1>5, <2>1 DEF Report, Mine, histVars
    <2> QED
      BY <1>4, <2>2 DEF Content
  <1> QED
    BY <1>6, <1>7, <1>8, <1>9, <1>10, <1>11 DEF IInv

LEMMA ReleaseStep ==
  ASSUME IInv, NEW t \in Threads, Release(t)
  PROVE  IInv'
PROOF
  <1>1. /\ pc[t] = "release" /\ holder' = [holder EXCEPT ![sock[t]] = NoProc]
        /\ pc' = [pc EXCEPT ![t] = "return"]
        /\ UNCHANGED <<store, conn, last, sock, op, packVars, doneVars, ptrVars, histVars>>
    BY DEF Release, Goto
  <1>2. pc'[t] = "return" /\ \A u \in Threads : u # t => pc'[u] = pc[u]
    BY <1>1 DEF IInv, Types, ThreadTypes
  <1>3. Types'
    <2>1. SocketTypes'
      BY <1>1 DEF IInv, Types, SocketTypes, ThreadTypes
    <2>2. ThreadTypes'
      BY <1>1 DEF IInv, Types, ThreadTypes, Labels, doneVars, histVars
    <2>3. PackTypes'
      BY <1>1 DEF IInv, Types, PackTypes, packVars
    <2> QED
      BY <2>1, <2>2, <2>3 DEF Types
  <1>4. Holding'
    <2> SUFFICES ASSUME NEW u \in Threads, HasSocket(u)'
                 PROVE  holder'[sock[u]] = u
      BY <1>1 DEF Holding
    <2>1. u # t /\ HasSocket(u) /\ HasSocket(t)
      BY <1>1, <1>2 DEF HasSocket
    <2>2. sock[u] # sock[t]
      BY <2>1, Apart
    <2> QED
      BY <1>1, <2>1, <2>2 DEF IInv, Types, SocketTypes, ThreadTypes, Holding
  <1>5. Owned' /\ Numbered'
    BY <1>1 DEF IInv, Owned, Numbered, At, ptrVars, packVars
  <1>6. ASSUME NEW u \in Threads, u # t
        PROVE  Place(u)' /\ Content(u)'
    BY <1>1, <1>2, <1>6, Elsewhere DEF packVars, ptrVars, histVars
  <1>7. Place(t)'
    BY <1>1, <1>2 DEF IInv, Place, Making, At, Mine, packVars, ptrVars
  <1>8. Content(t)'
    BY <1>1, <1>2 DEF IInv, Content, Report, Mine, packVars, histVars
  <1> QED
    BY <1>3, <1>4, <1>5, <1>6, <1>7, <1>8 DEF IInv

LEMMA RepliesStep ==
  ASSUME IInv, NEW t \in Threads, Replies(t)
  PROVE  IInv'
PROOF
  <1>1. /\ pc[t] \in {"first", "retry"} /\ Ctx(t).err = 0
        /\ served' = [served EXCEPT ![t] = Ctx(t).host]
        /\ pc' = [pc EXCEPT ![t] = "target"]
        /\ UNCHANGED <<poolVars, sock, op, number, doneVars, ptrVars, cause>>
    BY DEF Replies, Goto
  <1>2. At(t, "made") = Mine(t) /\ Mine(t) \in heap /\ Mine(t) \in Packs
    BY <1>1, MineAllocated DEF Making
  <1>3. \E r : r.type # "null" /\ pack' = [pack EXCEPT ![At(t, "made")].reply = r]
    <2>1. \E k \in Kinds : op[t].cmd \in Commands[k]
      BY ClientAssumption DEF IInv, Types, ThreadTypes, CallOK
    <2>2. Error.type # "null"
      BY DEF Error
    <2>3. Serve(op[t].cmd, Args(op[t]), store[Kind(op[t].cmd)])[2].type # "null"
      BY <2>1, ServeReplies
    <2> QED
      BY <2>2, <2>3 DEF Replies
  <1>4. PICK r : r.type # "null" /\ pack' = [pack EXCEPT ![At(t, "made")].reply = r]
    BY <1>3
  <1>5. /\ pc'[t] = "target" /\ served'[t] = Ctx(t).host
        /\ \A u \in Threads : u # t => pc'[u] = pc[u] /\ served'[u] = served[u]
    BY <1>1 DEF IInv, Types, ThreadTypes
  <1>6. /\ PackTypes' /\ pack'[Mine(t)] = [reply |-> r, info |-> pack[Mine(t)].info]
        /\ \A q \in Packs : q # Mine(t) => pack'[q] = pack[q]
    <2>1. Unset \in Info
      BY DEF Unset, Info
    <2> QED
      BY <1>2, <1>4, <2>1, PackWritten
  <1>7. Types' /\ Holding'
    <2>1. SocketTypes'
      BY <1>1 DEF IInv, Types, SocketTypes, poolVars
    <2>2. Ctx(t).host \in Hosts \cup {NoHost}
      BY DEF IInv, Types, SocketTypes, ThreadTypes, Ctx, Info
    <2>3. ThreadTypes'
      BY <1>1, <2>2 DEF IInv, Types, ThreadTypes, Labels, doneVars
    <2>4. Holding'
      BY <1>1, <1>5 DEF IInv, Holding, HasSocket, poolVars
    <2> QED
      BY <1>6, <2>1, <2>3, <2>4 DEF Types
  <1>8. Owned'
    BY <1>1 DEF IInv, Owned, ptrVars
  <1>9. Numbered'
    BY <1>1, <1>6, NumberedStays DEF IInv, ptrVars
  <1>10. ASSUME NEW u \in Threads, u # t
         PROVE  Place(u)' /\ Content(u)'
    <2>1. Mine(u) \in heap => pack'[Mine(u)] = pack[Mine(u)]
      BY <1>6, <1>10, Apart DEF IInv, Owned
    <2> QED
      BY <1>1, <1>5, <1>10, <2>1, Elsewhere DEF poolVars, ptrVars
  <1>11. Place(t)'
    BY <1>1, <1>5 DEF IInv, Place, Making, At, Mine, ptrVars
  <1>12. Content(t)'
    <2>1. Ctx(t)' = Ctx(t)
      BY <1>1 DEF Ctx, poolVars
    <2>2. pack'[Mine(t)'].reply.type # "null"
      BY <1>1, <1>4, <1>6 DEF Mine
    <2> QED
      BY <1>1, <1>5, <2>1, <2>2 DEF Content
  <1> QED
    BY <1>7, <1>8, <1>9, <1>10, <1>11, <1>12 DEF IInv

\* A context after connecting, and after failing to.
LEMMA ConnectTypes ==
  ASSUME IInv, NEW s \in Socks, Connected(s) \/ NotConnected(s)
  PROVE  /\ conn' \in [Socks -> Info] /\ last' \in [Socks -> Info]
         /\ \A q \in Socks : conn'[q].err = -1 <=> conn'[q].host = NoHost
         /\ \A q \in Socks : q # s => conn'[q] = conn[q] /\ last'[q] = last[q]
         /\ Connected(s) => conn'[s].err # -1
         /\ NotConnected(s) => last'[s].err # 0
PROOF
  <1>1. conn \in [Socks -> Info] /\ last \in [Socks -> Info]
        /\ \A q \in Socks : conn[q].err = -1 <=> conn[q].host = NoHost
    BY DEF IInv, Types, SocketTypes
  <1>2. NoHost \notin Hosts
    BY ClientAssumption
  <1>3. CASE Connected(s)
    <2>1. PICK h \in Hosts, e \in {0, 2} : conn' = [conn EXCEPT ![s] = [err |-> e, host |-> h]]
      BY <1>3 DEF Connected
    <2>2. [err |-> e, host |-> h] \in Info
      BY <2>1 DEF Info
    <2>3. conn'[s] = [err |-> e, host |-> h] /\ last' = last
      BY <1>1, <1>3, <2>1 DEF Connected
    <2>4. ~NotConnected(s)
      BY <1>1, <2>1, <2>3 DEF NotConnected, NoConn
    <2> QED
      BY <1>1, <1>2, <2>1, <2>2, <2>3, <2>4
  <1>4. CASE NotConnected(s)
    <2>1. \E i \in Info : i.err # 0 /\ last' = [last EXCEPT ![s] = i]
      <3>1. CASE \E h \in Hosts : last' = [last EXCEPT ![s] = [err |-> 1, host |-> h]]
        <4>1. PICK h \in Hosts : last' = [last EXCEPT ![s] = [err |-> 1, host |-> h]]
          BY <3>1
        <4>2. [err |-> 1, host |-> h] \in Info /\ [err |-> 1, host |-> h].err # 0
          BY DEF Info
        <4> QED
          BY <4>1, <4>2, Zenon
      <3>2. CASE last' = [last EXCEPT ![s] = [err |-> -1, host |-> NoHost]]
        <4>1. [err |-> -1, host |-> NoHost] \in Info /\ [err |-> -1, host |-> NoHost].err # 0
          BY DEF Info
        <4> QED
          BY <3>2, <4>1, Zenon
      <3> QED
        BY <1>4, <3>1, <3>2 DEF NotConnected
    <2>2. NoConn \in Info /\ NoConn.err = -1 /\ NoConn.host = NoHost
      BY DEF NoConn, Info
    <2>3. conn' = [conn EXCEPT ![s] = NoConn] /\ conn'[s] = NoConn
      BY <1>1, <1>4 DEF NotConnected
    <2>4. ASSUME Connected(s)
          PROVE  FALSE
      <3>1. PICK h \in Hosts, e \in {0, 2} : conn' = [conn EXCEPT ![s] = [err |-> e, host |-> h]]
        BY <2>4 DEF Connected
      <3>2. conn'[s].err = e
        BY <1>1, <3>1
      <3> QED
        BY <2>2, <2>3, <3>1, <3>2
    <2> QED
      BY <1>1, <2>1, <2>2, <2>3, <2>4
  <1> QED
    BY <1>3, <1>4

LEMMA ReconnectStep ==
  ASSUME IInv, NEW t \in Threads, Reconnect(t)
  PROVE  IInv'
PROOF
  <1> DEFINE s == sock[t]
  <1>1. /\ pc[t] = "first"
        /\ UNCHANGED <<holder, sock, op, packVars, doneVars, ptrVars, served>>
        /\ \/ Connected(s) /\ pc' = [pc EXCEPT ![t] = "retry"] /\ cause' = cause
           \/ /\ NotConnected(s) /\ pc' = [pc EXCEPT ![t] = "error"]
              /\ cause' = [cause EXCEPT ![t] = last'[s]]
    BY DEF Reconnect, Goto
  <1>2. s \in Socks
    BY DEF IInv, Types, ThreadTypes
  <1> HIDE DEF s
  <1>3. /\ conn' \in [Socks -> Info] /\ last' \in [Socks -> Info]
        /\ \A q \in Socks : conn'[q].err = -1 <=> conn'[q].host = NoHost
        /\ \A q \in Socks : q # s => conn'[q] = conn[q] /\ last'[q] = last[q]
        /\ Connected(s) => conn'[s].err # -1
        /\ NotConnected(s) => last'[s].err # 0
    BY <1>1, <1>2, ConnectTypes
  <1>4. /\ pc'[t] \in {"retry", "error"} /\ cause' \in [Threads -> Info]
        /\ \A u \in Threads : u # t => pc'[u] = pc[u] /\ cause'[u] = cause[u]
    BY <1>1, <1>2, <1>3 DEF IInv, Types, ThreadTypes
  <1>5. Types'
    <2>1. SocketTypes'
      BY <1>1, <1>3 DEF IInv, Types, SocketTypes
    <2>2. pc' \in [Threads -> Labels]
      BY <1>1 DEF IInv, Types, ThreadTypes, Labels
    <2>3. ThreadTypes'
      BY <1>1, <1>4, <2>2 DEF IInv, Types, ThreadTypes, doneVars
    <2>4. PackTypes'
      BY <1>1 DEF IInv, Types, PackTypes, packVars
    <2> QED
      BY <2>1, <2>3, <2>4 DEF Types
  <1>6. Holding'
    BY <1>1, <1>4 DEF IInv, Holding, HasSocket
  <1>7. Owned' /\ Numbered'
    BY <1>1 DEF IInv, Owned, Numbered, At, ptrVars, packVars
  <1>8. ASSUME NEW u \in Threads, u # t
        PROVE  Place(u)' /\ Content(u)'
    <2>1. HasSocket(u) => sock[u] # s /\ sock[u] \in Socks
      BY <1>1, <1>8, Apart DEF IInv, Types, ThreadTypes, HasSocket, s
    <2> QED
      BY <1>1, <1>3, <1>4, <1>8, <2>1, Elsewhere DEF packVars, ptrVars
  <1>9. Place(t)'
    BY <1>1, <1>4 DEF IInv, Place, Making, At, Mine, packVars, ptrVars
  <1>10. Content(t)'
    <2>1. pack'[Mine(t)'] = NoReply
      BY <1>1 DEF IInv, Content, Mine, packVars
    <2>2. CASE Connected(s) /\ pc' = [pc EXCEPT ![t] = "retry"]
      <3>1. pc'[t] = "retry"
        BY <2>2 DEF IInv, Types, ThreadTypes
      <3>2. Ctx(t)'.err # -1
        BY <1>1, <1>3, <2>2 DEF Ctx, s
      <3> QED
        BY <2>1, <3>1, <3>2 DEF Content
    <2>3. CASE /\ NotConnected(s) /\ pc' = [pc EXCEPT ![t] = "error"]
               /\ cause' = [cause EXCEPT ![t] = last'[s]]
      <3>1. pc'[t] = "error" /\ cause'[t] = last'[s]
        BY <2>3 DEF IInv, Types, ThreadTypes
      <3>2. last'[sock'[t]] = last'[s] /\ last'[s].err # 0
        BY <1>1, <1>3, <2>3 DEF s
      <3> QED
        BY <2>1, <3>1, <3>2 DEF Content
    <2> QED
      BY <1>1, <2>2, <2>3
  <1> QED
    BY <1>5, <1>6, <1>7, <1>8, <1>9, <1>10 DEF IInv

LEMMA RetryFailsStep ==
  ASSUME IInv, NEW t \in Threads, RetryFails(t)
  PROVE  IInv'
PROOF
  <1> DEFINE s == sock[t]
  <1>1. PICK e \in {1, 2} :
          /\ conn' = [conn EXCEPT ![s].err = e]
          /\ last' = [last EXCEPT ![s] = [err |-> e, host |-> Ctx(t).host]]
          /\ cause' = [cause EXCEPT ![t] = last'[s]]
    BY DEF RetryFails
  <1>2. /\ pc[t] = "retry" /\ pc' = [pc EXCEPT ![t] = "error"]
        /\ UNCHANGED <<holder, sock, op, packVars, doneVars, ptrVars, served>>
    BY DEF RetryFails, Goto
  <1>3. s \in Socks /\ Ctx(t) = conn[s]
    BY DEF IInv, Types, ThreadTypes, Ctx
  <1>4. conn[s].err # -1 /\ conn[s].host \in Hosts /\ conn[s].host # NoHost
    BY <1>2, <1>3 DEF IInv, Content, Types, SocketTypes, Info
  <1> HIDE DEF s
  <1>5. [err |-> e, host |-> conn[s].host] \in Info
    BY <1>4 DEF Info
  <1>6. conn' = [conn EXCEPT ![s] = [err |-> e, host |-> conn[s].host]]
    <2>1. conn[s] = [err |-> conn[s].err, host |-> conn[s].host]
      BY <1>3 DEF IInv, Types, SocketTypes, Info
    <2>2. [conn[s] EXCEPT !.err = e] = [err |-> e, host |-> conn[s].host]
      BY <2>1
    <2> QED
      BY <1>1, <2>2
  <1>7. /\ conn' \in [Socks -> Info] /\ last' \in [Socks -> Info]
        /\ \A q \in Socks : conn'[q].err = -1 <=> conn'[q].host = NoHost
        /\ \A q \in Socks : q # s => conn'[q] = conn[q] /\ last'[q] = last[q]
        /\ last'[s] = [err |-> e, host |-> conn[s].host]
    <2>1. conn \in [Socks -> Info] /\ last \in [Socks -> Info]
          /\ \A q \in Socks : conn[q].err = -1 <=> conn[q].host = NoHost
      BY DEF IInv, Types, SocketTypes
    <2>2. last' = [last EXCEPT ![s] = [err |-> e, host |-> conn[s].host]]
      BY <1>1, <1>3
    <2>3. /\ conn' \in [Socks -> Info] /\ last' \in [Socks -> Info]
          /\ conn'[s] = [err |-> e, host |-> conn[s].host]
          /\ last'[s] = [err |-> e, host |-> conn[s].host]
          /\ \A q \in Socks : q # s => conn'[q] = conn[q] /\ last'[q] = last[q]
      BY <1>3, <1>5, <1>6, <2>1, <2>2
    <2>4. conn'[s].err # -1 /\ conn'[s].host # NoHost
      BY <1>4, <2>3
    <2> QED
      BY <2>1, <2>3, <2>4
  <1>8. /\ pc'[t] = "error" /\ cause'[t] = last'[s] /\ cause' \in [Threads -> Info]
        /\ \A u \in Threads : u # t => pc'[u] = pc[u] /\ cause'[u] = cause[u]
    BY <1>1, <1>2, <1>3, <1>7 DEF IInv, Types, ThreadTypes
  <1>9. Types'
    <2>1. SocketTypes'
      BY <1>2, <1>7 DEF IInv, Types, SocketTypes
    <2>2. pc' \in [Threads -> Labels]
      BY <1>2 DEF IInv, Types, ThreadTypes, Labels
    <2>3. ThreadTypes'
      BY <1>2, <1>8, <2>2 DEF IInv, Types, ThreadTypes, doneVars
    <2>4. PackTypes'
      BY <1>2 DEF IInv, Types, PackTypes, packVars
    <2> QED
      BY <2>1, <2>3, <2>4 DEF Types
  <1>10. Holding'
    BY <1>2, <1>8 DEF IInv, Holding, HasSocket
  <1>11. Owned' /\ Numbered'
    BY <1>2 DEF IInv, Owned, Numbered, At, ptrVars, packVars
  <1>12. ASSUME NEW u \in Threads, u # t
         PROVE  Place(u)' /\ Content(u)'
    <2>1. HasSocket(u) => sock[u] # s /\ sock[u] \in Socks
      BY <1>2, <1>12, Apart DEF IInv, Types, ThreadTypes, HasSocket, s
    <2> QED
      BY <1>2, <1>7, <1>8, <1>12, <2>1, Elsewhere DEF packVars, ptrVars
  <1>13. Place(t)'
    BY <1>2, <1>8 DEF IInv, Place, Making, At, Mine, packVars, ptrVars
  <1>14. Content(t)'
    <2>1. pack'[Mine(t)'] = NoReply
      BY <1>2 DEF IInv, Content, Mine, packVars
    <2>2. last'[sock'[t]] = last'[s] /\ last'[s].err # 0
      BY <1>2, <1>7 DEF s
    <2> QED
      BY <1>8, <2>1, <2>2 DEF Content
  <1> QED
    BY <1>9, <1>10, <1>11, <1>12, <1>13, <1>14 DEF IInv

LEMMA ConnectFreeStep ==
  ASSUME IInv, NEW s \in Socks, ConnectFree(s)
  PROVE  IInv'
PROOF
  <1>1. /\ holder[s] = NoProc
        /\ Connected(s) \/ NotConnected(s)
        /\ UNCHANGED <<store, holder, pc, sock, op, packVars, doneVars, ptrVars, histVars>>
    BY DEF ConnectFree
  <1>2. /\ conn' \in [Socks -> Info] /\ last' \in [Socks -> Info]
        /\ \A q \in Socks : conn'[q].err = -1 <=> conn'[q].host = NoHost
        /\ \A q \in Socks : q # s => conn'[q] = conn[q] /\ last'[q] = last[q]
    BY <1>1, ConnectTypes
  <1>3. Types'
    <2>1. SocketTypes'
      BY <1>1, <1>2 DEF IInv, Types, SocketTypes
    <2>2. ThreadTypes'
      BY <1>1 DEF IInv, Types, ThreadTypes, doneVars, histVars
    <2>3. PackTypes'
      BY <1>1 DEF IInv, Types, PackTypes, packVars
    <2> QED
      BY <2>1, <2>2, <2>3 DEF Types
  <1>4. Holding'
    BY <1>1 DEF IInv, Holding, HasSocket
  <1>5. Owned' /\ Numbered'
    BY <1>1 DEF IInv, Owned, Numbered, At, ptrVars, packVars
  <1>6. ASSUME NEW u \in Threads
        PROVE  Place(u)' /\ Content(u)'
    <2>1. HasSocket(u) => sock[u] # s /\ sock[u] \in Socks
      BY <1>1, ClientAssumption DEF IInv, Holding, Types, ThreadTypes
    <2> QED
      BY <1>1, <1>2, <2>1, Elsewhere DEF packVars, ptrVars, histVars
  <1> QED
    BY <1>3, <1>4, <1>5, <1>6 DEF IInv

-----------------------------------------------------------------------------
(* The reply on its way to the caller.                                       *)

\* A pack goes from one place of a thread to another one.
LEMMA Handed ==
  ASSUME IInv, NEW t \in Threads, NEW to \in Places, NEW from \in Places, to # from,
         Ptr!HandOver(<<t, to>>, <<t, from>>)
  PROVE  /\ At(t, to)' = At(t, from) /\ At(t, from)' = NoPack
         /\ \A place \in Places \ {to, from} : At(t, place)' = At(t, place)
         /\ \A u \in Threads, place \in Places :
              u # t => ptr'[<<u, place>>] = ptr[<<u, place>>]
         /\ Owned'
         /\ UNCHANGED <<number, pack>> => Numbered'
PROOF
  <1>1. <<t, to>> \in Pointers /\ <<t, from>> \in Pointers /\ <<t, to>> # <<t, from>>
    BY DEF Pointers
  <1>2. Owned'
    BY <1>1, HandOverOwned DEF IInv
  <1>3. ptr' = [ptr EXCEPT ![<<t, from>>] = NoPack, ![<<t, to>>] = ptr[<<t, from>>]]
    BY DEF Ptr!HandOver
  <1>4. DOMAIN ptr = Pointers
    BY DEF IInv, Owned
  <1>5. /\ At(t, to)' = At(t, from) /\ At(t, from)' = NoPack
        /\ \A place \in Places \ {to, from} : At(t, place)' = At(t, place)
        /\ \A u \in Threads, place \in Places :
             u # t => ptr'[<<u, place>>] = ptr[<<u, place>>]
    BY <1>1, <1>3, <1>4 DEF At, Pointers
  <1>6. ASSUME UNCHANGED <<number, pack>>
        PROVE  Numbered'
    <2>1. ASSUME NEW u \in Threads, NEW place \in Places, At(u, place)' # NoPack
          PROVE  \E q \in Places : At(u, place)' = At(u, q)
      BY <1>5, <2>1 DEF At
    <2> QED
      BY <1>6, <2>1 DEF IInv, Numbered
  <1> QED
    BY <1>2, <1>5, <1>6

LEMMA ReturnTempStep ==
  ASSUME IInv, NEW t \in Threads, ReturnTemp(t)
  PROVE  IInv'
PROOF
  <1>1. /\ pc[t] = "return" /\ Ptr!HandOver(<<t, "temp">>, <<t, "made">>)
        /\ pc' = [pc EXCEPT ![t] = "assign"]
        /\ UNCHANGED <<store, poolVars, sock, op, packVars, doneVars, histVars>>
    BY DEF ReturnTemp, Goto, same
  <1>2. pc'[t] = "assign" /\ \A u \in Threads : u # t => pc'[u] = pc[u]
    BY <1>1 DEF IInv, Types, ThreadTypes
  <1>3. /\ At(t, "temp")' = At(t, "made") /\ At(t, "made")' = NoPack
        /\ At(t, "reply")' = At(t, "reply")
        /\ \A u \in Threads, place \in Places : u # t => ptr'[<<u, place>>] = ptr[<<u, place>>]
        /\ Owned' /\ Numbered'
    <2>1. "temp" \in Places /\ "made" \in Places /\ "reply" \in Places \ {"temp", "made"}
      BY DEF Places
    <2> QED
      BY <1>1, <2>1, Handed DEF packVars
  <1>4. Types' /\ Holding'
    <2>1. SocketTypes'
      BY <1>1 DEF IInv, Types, SocketTypes, poolVars
    <2>2. ThreadTypes'
      BY <1>1 DEF IInv, Types, ThreadTypes, Labels, doneVars, histVars
    <2>3. PackTypes'
      BY <1>1 DEF IInv, Types, PackTypes, packVars
    <2>4. Holding'
      BY <1>1, <1>2 DEF IInv, Holding, HasSocket, poolVars
    <2> QED
      BY <2>1, <2>2, <2>3, <2>4 DEF Types
  <1>5. ASSUME NEW u \in Threads, u # t
        PROVE  Place(u)' /\ Content(u)'
    BY <1>1, <1>2, <1>3, <1>5, Elsewhere DEF packVars, poolVars, histVars
  <1>6. Place(t)'
    BY <1>1, <1>2, <1>3 DEF IInv, Place, Making, Mine, packVars
  <1>7. Content(t)'
    BY <1>1, <1>2 DEF IInv, Content, Report, Mine, packVars, histVars
  <1> QED
    BY <1>3, <1>4, <1>5, <1>6, <1>7 DEF IInv

LEMMA AssignReplyStep ==
  ASSUME IInv, NEW t \in Threads, AssignReply(t)
  PROVE  IInv'
PROOF
  <1>1. /\ pc[t] = "assign" /\ Ptr!HandOver(<<t, "reply">>, <<t, "temp">>)
        /\ pc' = [pc EXCEPT ![t] = "returned"]
        /\ UNCHANGED <<store, poolVars, sock, op, packVars, doneVars, histVars>>
    BY DEF AssignReply, Goto, same
  <1>2. pc'[t] = "returned" /\ \A u \in Threads : u # t => pc'[u] = pc[u]
    BY <1>1 DEF IInv, Types, ThreadTypes
  <1>3. /\ At(t, "reply")' = At(t, "temp") /\ At(t, "temp")' = NoPack
        /\ At(t, "made")' = At(t, "made")
        /\ \A u \in Threads, place \in Places : u # t => ptr'[<<u, place>>] = ptr[<<u, place>>]
        /\ Owned' /\ Numbered'
    <2>1. "temp" \in Places /\ "reply" \in Places /\ "made" \in Places \ {"temp", "reply"}
      BY DEF Places
    <2> QED
      BY <1>1, <2>1, Handed DEF packVars
  <1>4. Types' /\ Holding'
    <2>1. SocketTypes'
      BY <1>1 DEF IInv, Types, SocketTypes, poolVars
    <2>2. ThreadTypes'
      BY <1>1 DEF IInv, Types, ThreadTypes, Labels, doneVars, histVars
    <2>3. PackTypes'
      BY <1>1 DEF IInv, Types, PackTypes, packVars
    <2>4. Holding'
      BY <1>1, <1>2 DEF IInv, Holding, HasSocket, poolVars
    <2> QED
      BY <2>1, <2>2, <2>3, <2>4 DEF Types
  <1>5. ASSUME NEW u \in Threads, u # t
        PROVE  Place(u)' /\ Content(u)'
    BY <1>1, <1>2, <1>3, <1>5, Elsewhere DEF packVars, poolVars, histVars
  <1>6. Place(t)'
    BY <1>1, <1>2, <1>3 DEF IInv, Place, Making, Mine, packVars
  <1>7. Content(t)'
    BY <1>1, <1>2 DEF IInv, Content, Report, Mine, packVars, histVars
  <1> QED
    BY <1>3, <1>4, <1>5, <1>6, <1>7 DEF IInv

LEMMA AnswerStep ==
  ASSUME IInv, NEW t \in Threads, Answer(t)
  PROVE  IInv'
PROOF
  <1>1. /\ pc[t] = "returned" /\ pc' = [pc EXCEPT ![t] = "answered"]
        /\ UNCHANGED <<store, poolVars, sock, op, packVars, ptrVars, histVars>>
    BY DEF Answer, Goto
  <1>2. pc'[t] = "answered" /\ \A u \in Threads : u # t => pc'[u] = pc[u]
    BY <1>1 DEF IInv, Types, ThreadTypes
  <1>3. Types' /\ Holding'
    <2>1. SocketTypes'
      BY <1>1 DEF IInv, Types, SocketTypes, poolVars
    <2>2. \A r, e : reply2status(r, e) \in Statuses
      BY DEF reply2status, Statuses
    <2>3. status' \in [Threads -> Statuses]
      BY <2>2 DEF Answer, IInv, Types, ThreadTypes, Statuses
    <2>4. ThreadTypes'
      BY <1>1, <2>3 DEF IInv, Types, ThreadTypes, Labels, histVars
    <2>5. PackTypes'
      BY <1>1 DEF IInv, Types, PackTypes, packVars
    <2>6. Holding'
      BY <1>1, <1>2 DEF IInv, Holding, HasSocket, poolVars
    <2> QED
      BY <2>1, <2>4, <2>5, <2>6 DEF Types
  <1>4. Owned' /\ Numbered'
    BY <1>1 DEF IInv, Owned, Numbered, At, ptrVars, packVars
  <1>5. ASSUME NEW u \in Threads, u # t
        PROVE  Place(u)' /\ Content(u)'
    BY <1>1, <1>2, <1>5, Elsewhere DEF packVars, ptrVars, poolVars, histVars
  <1>6. Place(t)' /\ Content(t)'
    BY <1>1, <1>2 DEF IInv, Place, Content, Making, At, Mine, packVars, ptrVars
  <1> QED
    BY <1>3, <1>4, <1>5, <1>6 DEF IInv

LEMMA ReturnStep ==
  ASSUME IInv, NEW t \in Threads, Return(t)
  PROVE  IInv'
PROOF
  <1>1. /\ pc[t] = "answered" /\ Ptr!Destroy(<<t, "reply">>)
        /\ pack' = [p \in Packs |-> IF p \in heap' THEN pack[p] ELSE NoReply]
        /\ pc' = [pc EXCEPT ![t] = "idle"]
        /\ status' = [status EXCEPT ![t] = "ok"]
        /\ cause' = [cause EXCEPT ![t] = Unset] /\ served' = [served EXCEPT ![t] = NoHost]
        /\ UNCHANGED <<store, poolVars, sock, op, number>>
    BY DEF Return, Goto
  <1>2. /\ pc'[t] = "idle" /\ \A u \in Threads : u # t => pc'[u] = pc[u]
        /\ \A u \in Threads : u # t => cause'[u] = cause[u] /\ served'[u] = served[u]
    BY <1>1 DEF IInv, Types, ThreadTypes
  <1>3. /\ heap' = heap \ {At(t, "reply")} /\ ptr' = [ptr EXCEPT ![<<t, "reply">>] = NoPack]
        /\ <<t, "reply">> \in Pointers /\ DOMAIN ptr = Pointers
    BY <1>1 DEF Ptr!Destroy, At, IInv, Owned, Pointers, Places
  <1>4. Owned'
    BY <1>1, <1>3, DestroyOwned DEF IInv
  <1>5. /\ At(t, "reply")' = NoPack
        /\ \A u \in Threads, place \in Places :
             u # t \/ place # "reply" => ptr'[<<u, place>>] = ptr[<<u, place>>]
    BY <1>3 DEF At, Pointers
  <1>6. Types' /\ Holding'
    <2>1. SocketTypes'
      BY <1>1 DEF IInv, Types, SocketTypes, poolVars
    <2>2. "ok" \in Statuses /\ Unset \in Info
      BY DEF Statuses, Unset, Info
    <2>3. ThreadTypes'
      BY <1>1, <2>2 DEF IInv, Types, ThreadTypes, Labels
    <2>4. NoReply = [reply |-> NoReply.reply, info |-> NoReply.info] /\ NoReply.info \in Info
      BY <2>2 DEF NoReply
    <2>5. PackTypes'
      BY <1>1, <2>4 DEF IInv, Types, PackTypes
    <2>6. Holding'
      BY <1>1, <1>2 DEF IInv, Holding, HasSocket, poolVars
    <2> QED
      BY <2>1, <2>3, <2>5, <2>6 DEF Types
  <1>7. Numbered'
    <2>1. ASSUME NEW u \in Threads, NEW place \in Places, At(u, place)' # NoPack
          PROVE  At(u, place)' = At(u, place)
      BY <1>5, <2>1 DEF At
    <2>2. ASSUME NEW u \in Threads, NEW n \in 1 .. MaxCalls, n > number[u]
          PROVE  pack'[<<u, n>>] = NoReply
      <3>1. <<u, n>> \in Packs /\ pack[<<u, n>>] = NoReply
        BY <2>2 DEF IInv, Numbered, Packs
      <3> QED
        BY <1>1, <3>1
    <2> QED
      BY <1>1, <2>1, <2>2 DEF IInv, Numbered
  <1>8. ASSUME NEW u \in Threads, u # t
        PROVE  Place(u)' /\ Content(u)'
    <2>1. ASSUME Mine(u) \in heap
          PROVE  pack'[Mine(u)] = pack[Mine(u)]
      <3>1. Mine(u) \in Packs /\ Mine(u) # NoPack
        BY <2>1, NoPackIsNone DEF IInv, Owned
      <3>2. "reply" \in Places
        BY DEF Places
      <3>3. Mine(u) # At(t, "reply")
        BY <1>8, <3>1, <3>2, Apart
      <3> QED
        BY <1>1, <1>3, <2>1, <3>1, <3>3
    <2> QED
      BY <1>1, <1>2, <1>5, <1>8, <2>1, Elsewhere DEF poolVars
  <1>9. Place(t)' /\ Content(t)'
    <2>1. At(t, "made")' = At(t, "made") /\ At(t, "temp")' = At(t, "temp")
      BY <1>5 DEF At, Places
    <2> QED
      BY <1>1, <1>2, <1>5, <2>1 DEF IInv, Place, Content, Making
  <1> QED
    BY <1>4, <1>6, <1>7, <1>8, <1>9 DEF IInv

LEMMA KeepStep ==
  ASSUME IInv, NEW t \in Threads, Keep(t)
  PROVE  IInv'
PROOF
  <1>1. /\ pc[t] = "answered"
        /\ UNCHANGED <<store, poolVars, sock, op, packVars, doneVars, histVars, pc>>
        /\ \/ UNCHANGED <<heap, ptr>>
           \/ Ptr!HandOver(<<t, "spare">>, <<t, "reply">>)
    BY DEF Keep, Ptr!Assign, same
  <1>2. Types' /\ Holding'
    <2>1. SocketTypes' /\ ThreadTypes' /\ PackTypes'
      BY <1>1 DEF IInv, Types, SocketTypes, ThreadTypes, PackTypes, poolVars, packVars,
                  doneVars, histVars
    <2> QED
      BY <1>1, <2>1 DEF IInv, Types, Holding, HasSocket, poolVars
  <1>3. /\ Owned' /\ Numbered'
        /\ At(t, "made")' = At(t, "made") /\ At(t, "temp")' = At(t, "temp")
        /\ \A u \in Threads, place \in Places : u # t => ptr'[<<u, place>>] = ptr[<<u, place>>]
    <2>1. CASE UNCHANGED <<heap, ptr>>
      BY <1>1, <2>1 DEF IInv, Owned, Numbered, At, packVars
    <2>2. CASE Ptr!HandOver(<<t, "spare">>, <<t, "reply">>)
      <3>1. /\ "spare" \in Places /\ "reply" \in Places
            /\ "made" \in Places \ {"spare", "reply"} /\ "temp" \in Places \ {"spare", "reply"}
        BY DEF Places
      <3> QED
        BY <1>1, <2>2, <3>1, Handed DEF packVars
    <2> QED
      BY <1>1, <2>1, <2>2
  <1>4. ASSUME NEW u \in Threads, u # t
        PROVE  Place(u)' /\ Content(u)'
    BY <1>1, <1>3, <1>4, Elsewhere DEF packVars, poolVars, histVars
  <1>5. Place(t)' /\ Content(t)'
    BY <1>1, <1>3 DEF IInv, Place, Content, Making
  <1> QED
    BY <1>2, <1>3, <1>4, <1>5 DEF IInv

-----------------------------------------------------------------------------
(* The theorems.                                                             *)

LEMMA InitInvariant == Init => IInv
PROOF
  <1> SUFFICES ASSUME Init PROVE IInv
    OBVIOUS
  <1>1. Unset \in Info /\ NoConn \in Info /\ "ok" \in Statuses
    BY DEF Unset, NoConn, Info, Statuses
  <1>2. SocketTypes
    BY <1>1, ClientAssumption DEF Init, SocketTypes, NoConn
  <1>3. ThreadTypes
    <2>1. (CHOOSE s \in Socks : TRUE) \in Socks
      BY ClientAssumption
    <2>2. \A t \in Threads : (CHOOSE o \in Ops[t] : TRUE) \in Ops[t]
      BY ClientAssumption
    <2> QED
      BY <1>1, <2>1, <2>2 DEF Init, ThreadTypes, Labels
  <1>4. PackTypes
    BY <1>1 DEF Init, PackTypes, NoReply
  <1>5. \A t \in Threads, place \in Places : At(t, place) = NoPack
    BY DEF Init, Ptr!PtrInit, At
  <1>6. Owned
    BY DEF Init, Ptr!PtrInit, Owned, Pointers
  <1>7. Numbered
    <2>1. MaxCalls \in Nat
      BY ClientAssumption
    <2> QED
      BY <1>5, <2>1 DEF Init, Numbered, Packs
  <1>8. ASSUME NEW t \in Threads
        PROVE  Place(t) /\ Content(t)
    BY <1>5 DEF Init, Place, Content, Making, Places
  <1> QED
    BY <1>2, <1>3, <1>4, <1>6, <1>7, <1>8 DEF Init, IInv, Types, Holding, HasSocket

LEMMA NextInvariant == IInv /\ [Next]_vars => IInv'
PROOF
  <1> SUFFICES ASSUME IInv, [Next]_vars PROVE IInv'
    OBVIOUS
  <1>1. CASE UNCHANGED vars
    <2>1. UNCHANGED <<holder, conn, last, pc, sock, op, number, pack, status, heap, ptr,
                      cause, served>>
      BY <1>1 DEF vars, poolVars, packVars, doneVars, ptrVars, histVars
    <2>2. Types' /\ Holding'
      BY <2>1 DEF IInv, Types, SocketTypes, ThreadTypes, PackTypes, Holding, HasSocket
    <2>3. Owned' /\ Numbered'
      BY <2>1 DEF IInv, Owned, Numbered, At
    <2>4. \A t \in Threads : Place(t)' /\ Content(t)'
      BY <2>1, Elsewhere
    <2> QED
      BY <2>2, <2>3, <2>4 DEF IInv
  <1>2. ASSUME NEW t \in Threads, Step(t)
        PROVE  IInv'
    BY <1>2, CallStep, CallUnconfiguredStep, GetSocketStep, NoSocketStep, RepliesStep,
       ReconnectStep, RetryFailsStep, SetTargetStep, SetErrorStep, ReleaseStep,
       ReturnTempStep, AssignReplyStep, AnswerStep, ReturnStep, KeepStep DEF Step
  <1>3. ASSUME NEW s \in Socks, ConnectFree(s)
        PROVE  IInv'
    BY <1>3, ConnectFreeStep
  <1> QED
    BY <1>1, <1>2, <1>3 DEF Next

LEMMA CallInvariant == Spec => []IInv
PROOF
  BY InitInvariant, NextInvariant, PTL DEF Spec

\* Whatever happens to the socket of a call, and whatever other threads do
\* meanwhile, a null reply comes with the error and the host of the last
\* failure of this call, an error that is not 0, and a reply with the host that
\* sent it (hiredispool.c:281-299 and 447-524, RedisClient.cpp:10-96).
THEOREM FailureIsTheCallers == Spec => []ReportIsOwn
PROOF
  <1>1. IInv => ReportIsOwn
    <2> SUFFICES ASSUME IInv, NEW t \in Threads, pc[t] = "returned", At(t, "reply") # NoPack
                 PROVE  /\ pack[At(t, "reply")].reply.type = "null" =>
                             /\ pack[At(t, "reply")].info = cause[t]
                             /\ pack[At(t, "reply")].info.err # 0
                        /\ pack[At(t, "reply")].reply.type # "null" =>
                             pack[At(t, "reply")].info = [err |-> 0, host |-> served[t]]
      BY DEF ReportIsOwn
    <2>1. At(t, "reply") = Mine(t)
      BY MineAllocated
    <2> QED
      BY <2>1 DEF IInv, Content, Report
  <1> QED
    BY <1>1, CallInvariant, PTL

\* However a RedisReplyPtr is returned, converted, assigned and copied, each
\* reply has one owner, nothing points to one that was freed, and no reply is
\* lost; with the types of the state (RedisClient.h:60-129).
THEOREM EachReplyHasOneOwner == Spec => []RepliesOwned
PROOF
  <1>1. IInv => TypeOK
    BY DEF IInv, Types, SocketTypes, ThreadTypes, PackTypes, Holding, HasSocket, Labels, TypeOK
  <1>2. IInv => RepliesOwned
    BY <1>1, OneOwner DEF IInv, RepliesOwned
  <1> QED
    BY <1>2, CallInvariant, PTL

-----------------------------------------------------------------------------
(* Finite sets in order.                                                     *)

\* R puts the members of S in a line.
Ordered(S, R) ==
  /\ IsFiniteSet(S) /\ R \in SUBSET (S \X S)
  /\ \A x \in S : <<x, x>> \notin R
  /\ \A x, y, z \in S : <<x, y>> \in R /\ <<y, z>> \in R => <<x, z>> \in R
  /\ \A x, y \in S : x = y \/ <<x, y>> \in R \/ <<y, x>> \in R
Ascending(s, S, R) ==
  /\ s \in [1 .. Cardinality(S) -> S]
  /\ \A i, j \in 1 .. Cardinality(S) : i < j => <<s[i], s[j]>> \in R

\* Each member stands at the number of those that are before it.
LEMMA AscendingExists ==
  ASSUME NEW S, NEW R, Ordered(S, R)
  PROVE  \E s : Ascending(s, S, R)
PROOF
  <1> DEFINE n == Cardinality(S)
             upto(x) == {y \in S : y = x \/ <<y, x>> \in R}
             rank == [x \in S |-> Cardinality(upto(x))]
             s == [i \in 1 .. n |-> CHOOSE x \in S : rank[x] = i]
  <1>1. IsFiniteSet(S) /\ n \in Nat
    BY FS_CardinalityType DEF Ordered
  <1>2. \A x \in S : IsFiniteSet(upto(x)) /\ Cardinality(upto(x)) \in 1 .. n
    <2> TAKE x \in S
    <2>1. IsFiniteSet(upto(x)) /\ Cardinality(upto(x)) <= n
      BY <1>1, FS_Subset
    <2>2. upto(x) # {}
      OBVIOUS
    <2>3. Cardinality(upto(x)) # 0
      BY <2>1, <2>2, FS_EmptySet
    <2>4. Cardinality(upto(x)) \in Nat
      BY <2>1, FS_CardinalityType
    <2> QED
      BY <1>1, <2>1, <2>3, <2>4
  <1>3. ASSUME NEW x \in S, NEW y \in S, <<x, y>> \in R
        PROVE  Cardinality(upto(x)) < Cardinality(upto(y))
    <2>1. upto(x) \subseteq upto(y)
      BY <1>3 DEF Ordered
    <2>2. y \in upto(y) /\ y \notin upto(x)
      BY <1>3 DEF Ordered
    <2>3. /\ Cardinality(upto(x)) <= Cardinality(upto(y))
          /\ Cardinality(upto(x)) # Cardinality(upto(y))
      BY <1>2, <2>1, <2>2, FS_Subset
    <2>4. Cardinality(upto(x)) \in Nat /\ Cardinality(upto(y)) \in Nat
      BY <1>2
    <2> HIDE DEF upto
    <2> QED
      BY <2>3, <2>4
  <1>4. rank \in [S -> 1 .. n]
    BY <1>2
  <1>5. \A x, y \in S : <<x, y>> \in R => rank[x] < rank[y]
    BY <1>3
  <1>6. \A x \in S : rank[x] \in 1 .. n
    BY <1>4
  <1> HIDE DEF rank
  <1>7. \A x, y \in S : rank[x] = rank[y] => x = y
    <2> SUFFICES ASSUME NEW x \in S, NEW y \in S, rank[x] = rank[y], x # y
                 PROVE  FALSE
      OBVIOUS
    <2>1. rank[x] < rank[y] \/ rank[y] < rank[x]
      BY <1>5 DEF Ordered
    <2>2. rank[x] \in Nat /\ rank[y] \in Nat
      BY <1>1, <1>6
    <2> QED
      BY <2>1, <2>2
  <1>8. IsFiniteSet(1 .. n) /\ Cardinality(1 .. n) = n
    BY <1>1, FS_Interval
  <1>9. rank \in Surjection(S, 1 .. n)
    <2>1. rank \in Injection(S, 1 .. n)
      BY <1>4, <1>7 DEF Injection, IsInjective
    <2> QED
      BY <1>8, <2>1, FS_Injection
  <1>10. \A i \in 1 .. n : s[i] \in S /\ rank[s[i]] = i
    BY <1>9 DEF Surjection
  <1>11. ASSUME NEW i \in 1 .. n, NEW j \in 1 .. n, i < j
         PROVE  <<s[i], s[j]>> \in R
    <2>1. s[i] \in S /\ s[j] \in S /\ rank[s[i]] = i /\ rank[s[j]] = j
      BY <1>10
    <2>2. s[i] # s[j]
      BY <1>1, <1>11, <2>1
    <2>3. CASE <<s[j], s[i]>> \in R
      BY <1>1, <1>5, <1>11, <2>1, <2>3
    <2> QED
      BY <2>1, <2>2, <2>3 DEF Ordered
  <1>12. s \in [1 .. n -> S]
    BY <1>10
  <1> QED
    BY <1>11, <1>12 DEF Ascending

\* All members are there, once each.
LEMMA AscendingOnto ==
  ASSUME NEW S, NEW R, Ordered(S, R), NEW s, Ascending(s, S, R)
  PROVE  /\ \A x \in S : \E i \in 1 .. Cardinality(S) : s[i] = x
         /\ \A i, j \in 1 .. Cardinality(S) : s[i] = s[j] => i = j
PROOF
  <1> DEFINE n == Cardinality(S)
  <1>1. IsFiniteSet(S) /\ n \in Nat
    BY FS_CardinalityType DEF Ordered
  <1>2. s \in [1 .. n -> S] /\ \A i, j \in 1 .. n : i < j => <<s[i], s[j]>> \in R
    BY DEF Ascending
  <1>3. \A x \in S : <<x, x>> \notin R
    BY DEF Ordered
  <1>4. IsFiniteSet(1 .. n) /\ Cardinality(1 .. n) = n
    BY <1>1, FS_Interval
  <1> HIDE DEF n
  <1>5. \A i, j \in 1 .. n : s[i] = s[j] => i = j
    <2> SUFFICES ASSUME NEW i \in 1 .. n, NEW j \in 1 .. n, s[i] = s[j], i # j
                 PROVE  FALSE
      OBVIOUS
    <2>1. s[i] \in S /\ (i < j \/ j < i)
      BY <1>1, <1>2
    <2> QED
      BY <1>2, <1>3, <2>1
  <1>6. s \in Injection(1 .. n, S)
    BY <1>2, <1>5 DEF Injection, IsInjective
  <1>7. s \in Surjection(1 .. n, S)
    BY <1>1, <1>4, <1>6, FS_Injection DEF n
  <1> QED
    BY <1>5, <1>7 DEF Surjection, n

LEMMA LeastNumber ==
  ASSUME NEW T \in SUBSET Nat, T # {}
  PROVE  \E m \in T : \A k \in T : m <= k
PROOF
  <1> DEFINE Less == {p \in Nat \X Nat : p[1] < p[2]}
  <1>1. IsWellFoundedOn(Less, Nat)
    BY NatLessThanWellFounded, Zenon DEF OpToRel
  <1> HIDE DEF Less
  <1>2. \E m \in T : \A k \in T : ~(<<k, m>> \in Less)
    BY <1>1, WFMin
  <1>3. \A m, k \in Nat : <<k, m>> \notin Less => m <= k
    <2> SUFFICES ASSUME NEW m \in Nat, NEW k \in Nat, ~(m <= k)
                 PROVE  <<k, m>> \in Less
      OBVIOUS
    <2> QED
      BY DEF Less
  <1> QED
    BY <1>2, <1>3, Zenon

LEMMA AscendingOnce ==
  ASSUME NEW S, NEW R, Ordered(S, R), NEW s, Ascending(s, S, R), NEW t, Ascending(t, S, R)
  PROVE  s = t
PROOF
  <1> DEFINE n == Cardinality(S)
             D == {i \in 1 .. n : s[i] # t[i]}
  <1>1. n \in Nat
    BY FS_CardinalityType DEF Ordered
  <1>2. /\ s \in [1 .. n -> S] /\ \A i, j \in 1 .. n : i < j => <<s[i], s[j]>> \in R
        /\ t \in [1 .. n -> S] /\ \A i, j \in 1 .. n : i < j => <<t[i], t[j]>> \in R
    BY DEF Ascending
  <1>3. /\ \A x \in S : \E i \in 1 .. n : s[i] = x
        /\ \A x \in S : \E i \in 1 .. n : t[i] = x
        /\ \A i, j \in 1 .. n : s[i] = s[j] => i = j
        /\ \A i, j \in 1 .. n : t[i] = t[j] => i = j
    BY AscendingOnto
  <1>4. /\ \A x \in S : <<x, x>> \notin R
        /\ \A x, y, z \in S : <<x, y>> \in R /\ <<y, z>> \in R => <<x, z>> \in R
        /\ \A x, y \in S : x = y \/ <<x, y>> \in R \/ <<y, x>> \in R
    BY DEF Ordered
  <1> HIDE DEF n
  <1>5. ASSUME D # {}
        PROVE  FALSE
    <2>1. D \in SUBSET Nat
      BY <1>1
    <2>2. PICK i \in D : \A j \in D : i <= j
      BY <1>5, <2>1, LeastNumber
    <2>3. i \in 1 .. n /\ s[i] # t[i] /\ s[i] \in S /\ t[i] \in S
      BY <1>2, <2>2
    <2>4. \A j \in 1 .. n : j < i => s[j] = t[j]
      BY <1>1, <2>2, <2>3
    <2>5. PICK j \in 1 .. n : t[j] = s[i]
      BY <1>3, <2>3
    <2>6. PICK k \in 1 .. n : s[k] = t[i]
      BY <1>3, <2>3
    <2>7. j > i
      BY <1>1, <1>3, <2>3, <2>4, <2>5
    <2>8. k > i
      BY <1>1, <1>3, <2>3, <2>4, <2>6
    <2>9. <<t[i], s[i]>> \in R
      BY <1>2, <2>3, <2>5, <2>7
    <2>10. <<s[i], t[i]>> \in R
      BY <1>2, <2>3, <2>6, <2>8
    <2> QED
      BY <1>4, <2>3, <2>9, <2>10
  <1>6. \A i \in 1 .. n : s[i] = t[i]
    BY <1>5
  <1>7. s \in [1 .. n -> S] /\ t \in [1 .. n -> S]
    BY <1>2
  <1>8. s = [i \in 1 .. n |-> s[i]] /\ t = [i \in 1 .. n |-> t[i]]
    BY <1>7
  <1>9. [i \in 1 .. n |-> s[i]] = [i \in 1 .. n |-> t[i]]
    BY <1>6
  <1> QED
    BY <1>8, <1>9, Zenon

\* Ascending numbers.
Below(S) == {p \in S \X S : p[1] < p[2]}

LEMMA NumbersOrdered ==
  ASSUME NEW S, IsFiniteSet(S), S \subseteq Nat
  PROVE  Ordered(S, Below(S)) /\ \A x, y \in S : <<x, y>> \in Below(S) <=> x < y
PROOF
  <1>1. \A x, y \in S : <<x, y>> \in Below(S) <=> x < y
    BY DEF Below
  <1>2. \A x, y \in S : x \in Nat /\ y \in Nat
    OBVIOUS
  <1>3. Below(S) \in SUBSET (S \X S)
    BY DEF Below
  <1>4. \A x, y, z \in S : <<x, y>> \in Below(S) /\ <<y, z>> \in Below(S) => <<x, z>> \in Below(S)
    BY <1>1, <1>2
  <1>5. \A x \in S : <<x, x>> \notin Below(S)
    BY <1>1, <1>2
  <1>6. \A x, y \in S : x = y \/ <<x, y>> \in Below(S) \/ <<y, x>> \in Below(S)
    <2> TAKE x \in S, y \in S
    <2>1. x = y \/ x < y \/ y < x
      BY <1>2
    <2> QED
      BY <1>1, <2>1
  <1> QED
    BY <1>1, <1>3, <1>4, <1>5, <1>6 DEF Ordered

\* The members of a set of numbers in increasing order, and no other sequence.
LEMMA SortedIs ==
  ASSUME NEW S, IsFiniteSet(S), S \subseteq Nat
  PROVE  /\ Cardinality(S) \in Nat /\ Sorted(S) \in [1 .. Cardinality(S) -> S]
         /\ Sorted(S) \in Seq(S) /\ Sorted(S) \in Seq(Nat)
         /\ Len(Sorted(S)) = Cardinality(S) /\ DOMAIN Sorted(S) = 1 .. Cardinality(S)
         /\ \A i, j \in 1 .. Cardinality(S) : i < j => Sorted(S)[i] < Sorted(S)[j]
         /\ \A x \in S : \E i \in 1 .. Cardinality(S) : Sorted(S)[i] = x
         /\ \A i, j \in 1 .. Cardinality(S) : Sorted(S)[i] = Sorted(S)[j] => i = j
         /\ \A s \in [1 .. Cardinality(S) -> S] :
              (\A i, j \in 1 .. Cardinality(S) : i < j => s[i] < s[j]) => s = Sorted(S)
PROOF
  <1> DEFINE n == Cardinality(S)
  <1>1. n \in Nat
    BY FS_CardinalityType
  <1>2. Ordered(S, Below(S)) /\ \A x, y \in S : <<x, y>> \in Below(S) <=> x < y
    BY NumbersOrdered
  <1>3. \A s : Ascending(s, S, Below(S)) <=>
          s \in [1 .. n -> S] /\ \A i, j \in 1 .. n : i < j => s[i] < s[j]
    BY <1>2 DEF Ascending
  <1>4. \E s \in [1 .. n -> S] : \A i, j \in 1 .. n : i < j => s[i] < s[j]
    BY <1>2, <1>3, AscendingExists
  <1>5. Sorted(S) \in [1 .. n -> S] /\ \A i, j \in 1 .. n : i < j => Sorted(S)[i] < Sorted(S)[j]
    BY <1>4 DEF Sorted, InOrder
  <1>6. Ascending(Sorted(S), S, Below(S))
    BY <1>3, <1>5
  <1>7. /\ \A x \in S : \E i \in 1 .. n : Sorted(S)[i] = x
        /\ \A i, j \in 1 .. n : Sorted(S)[i] = Sorted(S)[j] => i = j
    BY <1>2, <1>6, AscendingOnto
  <1>8. \A s \in [1 .. n -> S] : (\A i, j \in 1 .. n : i < j => s[i] < s[j]) => s = Sorted(S)
    BY <1>2, <1>3, <1>6, AscendingOnce
  <1>9. /\ Sorted(S) \in Seq(S) /\ Sorted(S) \in Seq(Nat)
        /\ Len(Sorted(S)) = n /\ DOMAIN Sorted(S) = 1 .. n
    <2> DEFINE s == Sorted(S)
    <2>1. s \in [1 .. n -> S] /\ s \in [1 .. n -> Nat]
      BY <1>5
    <2> HIDE DEF n, s
    <2>2. s \in Seq(S) /\ s \in Seq(Nat) /\ DOMAIN s = 1 .. n /\ Len(s) = n
      BY <1>1, <2>1
    <2> QED
      BY <2>2 DEF s
  <1> QED
    BY <1>1, <1>5, <1>7, <1>8, <1>9

LEMMA InTurnIs ==
  ASSUME NEW A, NEW s \in Seq(A), NEW B, NEW t \in Seq(B), Len(s) = Len(t)
  PROVE  /\ Len(InTurn(s, t)) = 2 * Len(s) /\ DOMAIN InTurn(s, t) = 1 .. 2 * Len(s)
         /\ \A i \in 1 .. Len(s) : InTurn(s, t)[2 * i - 1] = s[i] /\ InTurn(s, t)[2 * i] = t[i]
         /\ Odd(InTurn(s, t)) = s /\ Even(InTurn(s, t)) = t
PROOF
  <1> DEFINE n == Len(s)
             u == InTurn(s, t)
  <1>1. n \in Nat /\ s = [i \in 1 .. n |-> s[i]] /\ t = [i \in 1 .. n |-> t[i]]
    BY LenProperties
  <1> HIDE DEF n
  <1>2. u = [i \in 1 .. 2 * n |-> IF i % 2 = 1 THEN s[(i + 1) \div 2] ELSE t[i \div 2]]
    BY DEF InTurn, n
  <1> HIDE DEF u
  <1>3. 2 * n \in Nat /\ DOMAIN u = 1 .. 2 * n
    BY <1>1, <1>2
  <1>4. Len(u) = 2 * n
    BY <1>3
  <1>5. ASSUME NEW i \in 1 .. n
        PROVE  u[2 * i - 1] = s[i] /\ u[2 * i] = t[i]
    <2>1. 2 * i - 1 \in 1 .. 2 * n /\ 2 * i \in 1 .. 2 * n
      BY <1>1
    <2>2. (2 * i - 1) % 2 = 1 /\ (2 * i) % 2 = 0 /\ (2 * i - 1 + 1) \div 2 = i /\ (2 * i) \div 2 = i
      BY <1>1
    <2> QED
      BY <1>2, <2>1, <2>2
  <1>6. Len(u) \div 2 = n
    BY <1>1, <1>4
  <1>7. Odd(u) = s
    <2>1. Odd(u) = [i \in 1 .. n |-> u[2 * i - 1]]
      BY <1>6 DEF Odd
    <2>2. [i \in 1 .. n |-> u[2 * i - 1]] = [i \in 1 .. n |-> s[i]]
      BY <1>5
    <2> QED
      BY <1>1, <2>1, <2>2, Zenon
  <1>8. Even(u) = t
    <2>1. Even(u) = [i \in 1 .. n |-> u[2 * i]]
      BY <1>6 DEF Even
    <2>2. [i \in 1 .. n |-> u[2 * i]] = [i \in 1 .. n |-> t[i]]
      BY <1>5
    <2> QED
      BY <1>1, <2>1, <2>2, Zenon
  <1> QED
    BY <1>3, <1>4, <1>5, <1>7, <1>8 DEF n, u

\* A container: names and values.
MapOK(map) ==
  /\ IsFiniteSet(DOMAIN map) /\ DOMAIN map \subseteq Nat
  /\ \A n \in DOMAIN map : map[n] \in Nat

LEMMA SortedSet ==
  ASSUME NEW S, IsFiniteSet(S), S \subseteq Nat
  PROVE  ToSet(Sorted(S)) = S
PROOF
  <1> DEFINE ks == Sorted(S)
             c == Cardinality(S)
  <1>1. DOMAIN ks = 1 .. c /\ ks \in [1 .. c -> S] /\ \A x \in S : \E i \in 1 .. c : ks[i] = x
    BY SortedIs
  <1> HIDE DEF ks, c
  <1>2. ToSet(ks) = {ks[i] : i \in 1 .. c}
    BY <1>1 DEF ToSet
  <1>3. \A x \in {ks[i] : i \in 1 .. c} : x \in S
    BY <1>1
  <1>4. \A x \in S : x \in {ks[i] : i \in 1 .. c}
    BY <1>1
  <1>5. ToSet(ks) = S
    BY <1>2, <1>3, <1>4, Zenon
  <1> QED
    BY <1>5, Zenon DEF ks

\* Each name with the value beside it.
LEMMA MapOfSorted ==
  ASSUME NEW S, IsFiniteSet(S), S \subseteq Nat, NEW v
  PROVE  MapOf(Sorted(S), [i \in DOMAIN Sorted(S) |-> v[Sorted(S)[i]]]) = [n \in S |-> v[n]]
PROOF
  <1> DEFINE ks == Sorted(S)
             vs == [i \in DOMAIN ks |-> v[ks[i]]]
             c == Cardinality(S)
             at(k) == CHOOSE i \in DOMAIN ks : ks[i] = k
  <1>1. /\ DOMAIN ks = 1 .. c /\ ks \in [1 .. c -> S]
        /\ \A x \in S : \E i \in 1 .. c : ks[i] = x
        /\ \A i, j \in 1 .. c : ks[i] = ks[j] => i = j
    BY SortedIs
  <1> HIDE DEF ks, c
  <1>2. ToSet(ks) = S
    BY SortedSet DEF ks
  <1>3. \A k \in S : vs[at(k)] = v[k]
    <2> TAKE k \in S
    <2>1. \E i \in DOMAIN ks : ks[i] = k
      BY <1>1
    <2> QED
      BY <2>1
  <1> HIDE DEF vs
  <1>4. MapOf(ks, vs) = [k \in S |-> vs[at(k)]]
    BY <1>2 DEF MapOf
  <1> HIDE DEF at
  <1>5. [k \in S |-> vs[at(k)]] = [k \in S |-> v[k]]
    BY <1>3
  <1>6. MapOf(ks, vs) = [k \in S |-> v[k]]
    BY <1>4, <1>5, Zenon
  <1> QED
    BY <1>6, Zenon DEF ks, vs

LEMMA SortedOne ==
  ASSUME NEW n \in Nat
  PROVE  /\ Sorted({n}) \in Seq(Nat) /\ Len(Sorted({n})) = 1 /\ DOMAIN Sorted({n}) = {1}
         /\ Sorted({n})[1] = n
PROOF
  <1>1. IsFiniteSet({n}) /\ Cardinality({n}) = 1 /\ {n} \subseteq Nat
    BY FS_Singleton
  <1>2. 1 .. 1 = {1} /\ 1 \in 1 .. 1
    OBVIOUS
  <1> QED
    BY <1>1, <1>2, SortedIs

LEMMA KindIs ==
  /\ \A cmd \in Commands["str"] : Kind(cmd) = "str"
  /\ \A cmd \in Commands["hash"] : Kind(cmd) = "hash"
  /\ \A cmd \in Commands["set"] : Kind(cmd) = "set"
  /\ \A cmd \in Commands["zset"] : Kind(cmd) = "zset"
PROOF
  <1>1. \A k, l \in Kinds : \A cmd \in Commands[k] : cmd \in Commands[l] => k = l
    BY DEF Commands, Kinds
  <1>2. \A k \in Kinds : \A cmd \in Commands[k] : Kind(cmd) = k
    BY <1>1 DEF Kind
  <1> QED
    BY <1>2 DEF Kinds

-----------------------------------------------------------------------------
(* What each kind of command sends and returns.                              *)

LEMMA ArgsAre ==
  ASSUME NEW call
  PROVE  /\ call.cmd \in {"SET", "MSET", "HSET", "HMSET", "INCRBY", "HINCRBY"}
              => Args(call) = PairArgs(call)
         /\ call.cmd \in {"ZADD", "ZINCRBY"} => Args(call) = ScoreArgs(call)
         /\ call.cmd \in Ranges \cup Indexed => Args(call) = <<call.vals[1], call.vals[2]>>
         /\ call.cmd \in {"GET", "MGET", "DEL", "HGET", "HMGET", "HDEL", "SADD", "SREM",
                          "SISMEMBER", "ZREM", "ZSCORE", "ZRANK"}
              => Args(call) = Sorted(call.names)
PROOF
  <1>1. CASE call.cmd \in Commands["str"]
    <2>1. Args(call) = StringArgs(call)
      BY <1>1, KindIs DEF Args
    <2> QED
      BY <1>1, <2>1 DEF StringArgs, Commands, Ranges, Indexed, NameArgs
  <1>2. CASE call.cmd \in Commands["hash"]
    <2>1. Args(call) = HashArgs(call)
      BY <1>2, KindIs DEF Args
    <2> QED
      BY <1>2, <2>1 DEF HashArgs, Commands, Ranges, Indexed, NameArgs
  <1>3. CASE call.cmd \in Commands["set"]
    <2>1. Args(call) = SetArgs(call)
      BY <1>3, KindIs DEF Args
    <2> QED
      BY <1>3, <2>1 DEF SetArgs, Commands, Ranges, Indexed, NameArgs
  <1>4. CASE call.cmd \in Commands["zset"]
    <2>1. Args(call) = SortedSetArgs(call)
      BY <1>4, KindIs DEF Args
    <2> QED
      BY <1>4, <2>1 DEF SortedSetArgs, Commands, Ranges, Indexed, NameArgs
  <1> QED
    BY <1>1, <1>2, <1>3, <1>4 DEF Commands, Ranges, Indexed

LEMMA OutIs ==
  ASSUME NEW call, NEW reply, NEW st, ok(st)
  PROVE  /\ call.cmd \in {"GET", "HGET", "ZSCORE", "ZINCRBY"}
              => Out(call, reply, st) = Number(reply2string(reply))
         /\ call.cmd \in {"DEL", "INCRBY", "SREM", "SCARD", "SISMEMBER", "HDEL", "HLEN",
                          "HINCRBY", "ZREM", "ZCOUNT", "ZRANK", "ZCARD"}
              => Out(call, reply, st) = Number(reply2integer(reply))
         /\ call.cmd \in Batches /\ reply.type = "array"
              => Out(call, reply, st) = List(ByName(call, reply))
         /\ call.cmd = "SMEMBERS" => Out(call, reply, st) = List(Collected(OneByOne(reply.element)))
         /\ call.cmd = "HGETALL" /\ reply.type = "array"
              => Out(call, reply, st) = List(Collected(InPairs(reply.element)))
         /\ call.cmd = "ZRANGE" /\ reply.type = "array"
              => Out(call, reply, st) = List(OneByOne(reply.element))
         /\ call.cmd \in {"ZRANGEWITHSCORES", "ZRANGEBYSCOREWITHSCORES"} /\ reply.type = "array"
              => Out(call, reply, st) = List(InPairs(reply.element))
         /\ call.cmd \in Puts \cup {"ZREMRANGEBYSCORE"} => Out(call, reply, st) = NoOut
PROOF
  <1>1. CASE call.cmd \in Commands["str"]
    <2>1. Out(call, reply, st) = StringOut(call, reply, st)
      BY <1>1, KindIs DEF Out
    <2> QED
      BY <1>1, <2>1 DEF StringOut, Commands, Batches, Puts
  <1>2. CASE call.cmd \in Commands["hash"]
    <2>1. Out(call, reply, st) = HashOut(call, reply, st)
      BY <1>2, KindIs DEF Out
    <2> QED
      BY <1>2, <2>1 DEF HashOut, Commands, Batches, Puts
  <1>3. CASE call.cmd \in Commands["set"]
    <2>1. Out(call, reply, st) = SetOut(call, reply, st)
      BY <1>3, KindIs DEF Out
    <2> QED
      BY <1>3, <2>1 DEF SetOut, Commands, Batches, Puts
  <1>4. CASE call.cmd \in Commands["zset"]
    <2>1. Out(call, reply, st) = SortedSetOut(call, reply, st)
      BY <1>4, KindIs DEF Out
    <2> QED
      BY <1>4, <2>1 DEF SortedSetOut, Commands, Batches, Puts
  <1> QED
    BY <1>1, <1>2, <1>3, <1>4 DEF Commands, Batches, Puts

-----------------------------------------------------------------------------
(* What the server makes of each command, and what a call means.             *)

LEMMA ServeChanges ==
  /\ \A cmd, args, map : cmd \in {"SET", "MSET", "HSET", "HMSET"}
       => Serve(cmd, args, map) = <<Over(MapOf(Odd(args), Even(args)), map), OK>>
  /\ \A cmd, args, map : cmd = "ZADD"
       => Serve(cmd, args, map)
            = <<Over(MapOf(Even(args), Odd(args)), map), Count(Len(args) \div 2)>>
  /\ \A cmd, args, map : cmd = "SADD"
       => Serve(cmd, args, map) = <<Over([n \in ToSet(args) |-> 0], map), Count(Len(args))>>
  /\ \A cmd, args, map : cmd \in {"INCRBY", "HINCRBY"}
       => Serve(cmd, args, map)
            = <<Incremented(map, args[1], args[2]), Count(Held(map, args[1]) + args[2])>>
  /\ \A cmd, args, map : cmd = "ZINCRBY"
       => Serve(cmd, args, map)
            = <<Incremented(map, args[2], args[1]), Bulk(Held(map, args[2]) + args[1])>>
  /\ \A cmd, args, map : cmd = "ZREMRANGEBYSCORE"
       => Serve(cmd, args, map)
            = <<Without(map, InRange(map, args[1], args[2])),
                Count(Cardinality(InRange(map, args[1], args[2])))>>
PROOF
  <1>1. \A cmd, args, map : cmd \in {"SET", "MSET", "HSET", "HMSET"}
          => Serve(cmd, args, map) = <<Over(MapOf(Odd(args), Even(args)), map), OK>>
    BY DEF Serve, Looks, Batches, Removes, Counts
  <1>2. \A cmd, args, map : cmd = "ZADD"
          => Serve(cmd, args, map)
               = <<Over(MapOf(Even(args), Odd(args)), map), Count(Len(args) \div 2)>>
    BY DEF Serve, Looks, Batches, Removes, Counts
  <1>3. \A cmd, args, map : cmd = "SADD"
          => Serve(cmd, args, map) = <<Over([n \in ToSet(args) |-> 0], map), Count(Len(args))>>
    BY DEF Serve, Looks, Batches, Removes, Counts
  <1>4. \A cmd, args, map : cmd \in {"INCRBY", "HINCRBY"}
          => Serve(cmd, args, map)
               = <<Incremented(map, args[1], args[2]), Count(Held(map, args[1]) + args[2])>>
    BY DEF Serve, Looks, Batches, Removes, Counts
  <1>5. \A cmd, args, map : cmd = "ZINCRBY"
          => Serve(cmd, args, map)
               = <<Incremented(map, args[2], args[1]), Bulk(Held(map, args[2]) + args[1])>>
    BY DEF Serve, Looks, Batches, Removes, Counts
  <1>6. \A cmd, args, map : cmd = "ZREMRANGEBYSCORE"
          => Serve(cmd, args, map)
               = <<Without(map, InRange(map, args[1], args[2])),
                   Count(Cardinality(InRange(map, args[1], args[2])))>>
    BY DEF Serve, Looks, Batches, Removes, Counts
  <1> QED
    BY <1>1, <1>2, <1>3, <1>4, <1>5, <1>6, Zenon

LEMMA ServeRemoves ==
  ASSUME NEW cmd \in Removes, NEW args, NEW map
  PROVE  Serve(cmd, args, map)
           = <<Without(map, ToSet(args)), Count(Cardinality(ToSet(args) \cap DOMAIN map))>>
PROOF
  BY DEF Serve, Looks, Batches, Removes, Counts

LEMMA ServeReads ==
  /\ \A cmd, args, map : cmd \in Looks => Serve(cmd, args, map) = <<map, Present(map, args[1])>>
  /\ \A cmd, args, map : cmd = "SMEMBERS"
       => Serve(cmd, args, map) = <<map, Alone(Unsorted(map))>>
  /\ \A cmd, args, map : cmd = "HGETALL"
       => Serve(cmd, args, map) = <<map, Paired(map, Unsorted(map))>>
  /\ \A cmd, args, map : cmd = "ZRANGE"
       => Serve(cmd, args, map)
            = <<map, Alone(FromTo(ByScore(map, DOMAIN map), args[1], args[2]))>>
  /\ \A cmd, args, map : cmd = "ZRANGEWITHSCORES"
       => Serve(cmd, args, map)
            = <<map, Paired(map, FromTo(ByScore(map, DOMAIN map), args[1], args[2]))>>
  /\ \A cmd, args, map : cmd = "ZRANGEBYSCOREWITHSCORES"
       => Serve(cmd, args, map)
            = <<map, Paired(map, ByScore(map, InRange(map, args[1], args[2])))>>
  /\ \A cmd, args, map : cmd \in Counts
       => Serve(cmd, args, map) = <<map, Count(Cardinality(DOMAIN map))>>
  /\ \A cmd, args, map : cmd = "SISMEMBER"
       => Serve(cmd, args, map) = <<map, Count(IF args[1] \in DOMAIN map THEN 1 ELSE 0)>>
  /\ \A cmd, args, map : cmd = "ZCOUNT"
       => Serve(cmd, args, map)
            = <<map, Count(Cardinality(InRange(map, args[1], args[2])))>>
  /\ \A cmd, args, map : cmd = "ZRANK"
       => Serve(cmd, args, map)
            = <<map, IF args[1] \in DOMAIN map
                     THEN Count(Cardinality(InRange(map, 0, map[args[1]] - 1))) ELSE Nil>>
PROOF
  <1>1. \A cmd, args, map : cmd \in Looks
       => Serve(cmd, args, map) = <<map, Present(map, args[1])>>
    BY DEF Serve, Looks, Batches, Removes, Counts
  <1>2. \A cmd, args, map : cmd = "SMEMBERS"
       => Serve(cmd, args, map) = <<map, Alone(Unsorted(map))>>
    BY DEF Serve, Looks, Batches, Removes, Counts
  <1>3. \A cmd, args, map : cmd = "HGETALL"
       => Serve(cmd, args, map) = <<map, Paired(map, Unsorted(map))>>
    BY DEF Serve, Looks, Batches, Removes, Counts
  <1>4. \A cmd, args, map : cmd = "ZRANGE"
       => Serve(cmd, args, map)
            = <<map, Alone(FromTo(ByScore(map, DOMAIN map), args[1], args[2]))>>
    BY DEF Serve, Looks, Batches, Removes, Counts
  <1>5. \A cmd, args, map : cmd = "ZRANGEWITHSCORES"
          => Serve(cmd, args, map)
               = <<map, Paired(map, FromTo(ByScore(map, DOMAIN map), args[1], args[2]))>>
    BY DEF Serve, Looks, Batches, Removes, Counts
  <1>6. \A cmd, args, map : cmd = "ZRANGEBYSCOREWITHSCORES"
          => Serve(cmd, args, map)
               = <<map, Paired(map, ByScore(map, InRange(map, args[1], args[2])))>>
    BY DEF Serve, Looks, Batches, Removes, Counts
  <1>7. \A cmd, args, map : cmd \in Counts
       => Serve(cmd, args, map) = <<map, Count(Cardinality(DOMAIN map))>>
    BY DEF Serve, Looks, Batches, Removes, Counts
  <1>8. \A cmd, args, map : cmd = "SISMEMBER"
          => Serve(cmd, args, map) = <<map, Count(IF args[1] \in DOMAIN map THEN 1 ELSE 0)>>
    BY DEF Serve, Looks, Batches, Removes, Counts
  <1>9. \A cmd, args, map : cmd = "ZCOUNT"
          => Serve(cmd, args, map)
               = <<map, Count(Cardinality(InRange(map, args[1], args[2])))>>
    BY DEF Serve, Looks, Batches, Removes, Counts
  <1>10. \A cmd, args, map : cmd = "ZRANK"
          => Serve(cmd, args, map)
               = <<map, IF args[1] \in DOMAIN map
                        THEN Count(Cardinality(InRange(map, 0, map[args[1]] - 1))) ELSE Nil>>
    BY DEF Serve, Looks, Batches, Removes, Counts
  <1> QED
    BY <1>1, <1>2, <1>3, <1>4, <1>5, <1>6, <1>7, <1>8, <1>9, <1>10, Zenon

LEMMA ServeBatches ==
  ASSUME NEW cmd \in Batches, NEW args, NEW map
  PROVE  Serve(cmd, args, map) = <<map, Array([i \in DOMAIN args |-> Present(map, args[i])])>>
PROOF
  BY DEF Serve, Looks, Batches, Removes, Counts

LEMMA EffectIs ==
  /\ \A call, map : call.cmd = "SADD" => Effect(call, map) = Over([n \in call.names |-> 0], map)
  /\ \A call, map : call.cmd \in Puts \ {"SADD"}
       => Effect(call, map) = Over([n \in call.names |-> call.vals[n]], map)
  /\ \A call, map : call.cmd \in Removes => Effect(call, map) = Without(map, call.names)
  /\ \A call, map : call.cmd \in Incrs
       => Effect(call, map)
            = Over([n \in call.names |-> Held(map, n) + call.vals[n]], map)
  /\ \A call, map : call.cmd = "ZREMRANGEBYSCORE"
       => Effect(call, map) = Without(map, Chosen(call, map))
  /\ \A call, map : call.cmd \in Looks \cup Batches \cup Counts
       \cup {"SISMEMBER", "ZCOUNT", "ZRANK", "HGETALL", "SMEMBERS", "ZRANGE",
             "ZRANGEWITHSCORES", "ZRANGEBYSCOREWITHSCORES"}
       => Effect(call, map) = map
PROOF
  BY DEF Effect, Puts, Removes, Incrs, Looks, Batches, Counts

LEMMA TruthIs ==
  /\ \A call, map : call.cmd \in Looks => Truth(call, map) = Number(Held(map, Name(call)))
  /\ \A call, map : call.cmd \in Incrs
       => Truth(call, map) = Number(Held(map, Name(call)) + call.vals[Name(call)])
  /\ \A call, map : call.cmd \in Removes
       => Truth(call, map) = Number(Cardinality(call.names \cap DOMAIN map))
  /\ \A call, map : call.cmd \in Counts => Truth(call, map) = Number(Cardinality(DOMAIN map))
  /\ \A call, map : call.cmd = "SISMEMBER"
       => Truth(call, map) = Number(IF Name(call) \in DOMAIN map THEN 1 ELSE 0)
  /\ \A call, map : call.cmd = "ZCOUNT"
       => Truth(call, map) = Number(Cardinality(Chosen(call, map)))
  /\ \A call, map : call.cmd = "ZRANK"
       => Truth(call, map)
            = Number(IF Name(call) \in DOMAIN map
                     THEN Cardinality({m \in DOMAIN map : map[m] < map[Name(call)]})
                     ELSE 0)
PROOF
  BY DEF Truth, Puts, Removes, Incrs, Looks, Batches, Counts

LEMMA TruthLists ==
  /\ \A call, map : call.cmd \in Batches
       => Truth(call, map) = List(Entries(map, call.names \cap DOMAIN map))
  /\ \A call, map : call.cmd = "HGETALL" => Truth(call, map) = List(Entries(map, DOMAIN map))
  /\ \A call, map : call.cmd = "SMEMBERS" => Truth(call, map) = List(NamesOf(DOMAIN map))
  /\ \A call, map : call.cmd = "ZRANGE"
       => Truth(call, map)
            = List([i \in DOMAIN Selected(call, map) |-> <<Selected(call, map)[i], 0>>])
  /\ \A call, map : call.cmd = "ZRANGEWITHSCORES"
       => Truth(call, map) = List(Ranking(map, Selected(call, map)))
  /\ \A call, map : call.cmd = "ZRANGEBYSCOREWITHSCORES"
       => Truth(call, map) = List(Ranking(map, ByScore(map, Chosen(call, map))))
  /\ \A call, map : call.cmd \in Puts \cup {"ZREMRANGEBYSCORE"} => Truth(call, map) = NoOut
PROOF
  BY DEF Truth, Puts, Removes, Incrs, Looks, Batches, Counts

\* How a reply reads.
LEMMA ReplyIs ==
  /\ \A v : reply2string(Bulk(v)) = v /\ Bulk(v).type = "string" /\ Bulk(v).num = v
  /\ \A v : reply2integer(Count(v)) = v /\ Count(v).type = "integer"
  /\ reply2string(Nil) = 0 /\ reply2integer(Nil) = 0 /\ Nil.type = "nil"
  /\ OK.type = "status" /\ Error.type = "error"
  /\ \A s : Array(s).type = "array" /\ Array(s).element = s
PROOF
  BY DEF reply2string, reply2integer, Bulk, Count, Nil, OK, Error, Array

\* The reply to a call tells its caller what it is to be told, and the database
\* has changed by what the call means.
AnswerTold(call, map) ==
  LET reply == Serve(call.cmd, Args(call), map)[2] IN
  /\ reply.type \notin {"null", "error"}
  /\ \A st : ok(st) => Out(call, reply, st) = Truth(call, map)
StoreServed(call, map) == Serve(call.cmd, Args(call), map)[1] = Effect(call, map)

\* Names with their values, in turn.
LEMMA PairsSent ==
  ASSUME NEW call, CallOK(call), call.cmd \in Valued
  PROVE  /\ Odd(PairArgs(call)) = Sorted(call.names) /\ Even(PairArgs(call)) = ValsOf(call)
         /\ Odd(ScoreArgs(call)) = ValsOf(call) /\ Even(ScoreArgs(call)) = Sorted(call.names)
         /\ Len(ScoreArgs(call)) \div 2 = Cardinality(call.names)
         /\ MapOf(Sorted(call.names), ValsOf(call)) = [n \in call.names |-> call.vals[n]]
         /\ ~(call.names = {})
              => /\ PairArgs(call)[1] = Sorted(call.names)[1] /\ PairArgs(call)[2] = ValsOf(call)[1]
                 /\ ScoreArgs(call)[1] = ValsOf(call)[1]
                 /\ ScoreArgs(call)[2] = Sorted(call.names)[1]
                 /\ ValsOf(call)[1] = call.vals[Sorted(call.names)[1]]
PROOF
  <1> DEFINE S == call.names
             s == Sorted(S)
             t == ValsOf(call)
             c == Cardinality(S)
  <1>1. IsFiniteSet(S) /\ S \subseteq Nat /\ \A n \in S : call.vals[n] \in Nat
    BY DEF CallOK
  <1>2. /\ c \in Nat /\ s \in Seq(Nat) /\ Len(s) = c /\ DOMAIN s = 1 .. c /\ s \in [1 .. c -> S]
    BY <1>1, SortedIs
  <1>3. t = [i \in 1 .. c |-> call.vals[s[i]]]
    BY <1>2 DEF ValsOf
  <1>4. MapOf(s, t) = [n \in S |-> call.vals[n]]
    BY <1>1, MapOfSorted DEF ValsOf
  <1>5. PairArgs(call) = InTurn(s, t) /\ ScoreArgs(call) = InTurn(t, s)
    BY DEF PairArgs, ScoreArgs
  <1>6. S # {} => c # 0
    BY <1>1, FS_EmptySet
  <1> HIDE DEF s, t, c, S
  <1>7. t \in [1 .. c -> Nat]
    BY <1>1, <1>2, <1>3
  <1>8. t \in Seq(Nat) /\ Len(t) = c
    BY <1>2, <1>7
  <1>9. /\ Len(InTurn(s, t)) = 2 * c /\ Odd(InTurn(s, t)) = s /\ Even(InTurn(s, t)) = t
        /\ \A i \in 1 .. c : InTurn(s, t)[2 * i - 1] = s[i] /\ InTurn(s, t)[2 * i] = t[i]
    <2>1. Len(s) = Len(t)
      BY <1>2, <1>8
    <2>2. /\ Len(InTurn(s, t)) = 2 * Len(s)
          /\ \A i \in 1 .. Len(s) : InTurn(s, t)[2 * i - 1] = s[i] /\ InTurn(s, t)[2 * i] = t[i]
          /\ Odd(InTurn(s, t)) = s /\ Even(InTurn(s, t)) = t
      BY <1>2, <1>8, <2>1, InTurnIs, ZenonT(40)
    <2>3. Len(s) = c
      BY <1>2, <1>8
    <2> QED
      BY <2>2, <2>3, Zenon
  <1>10. /\ Len(InTurn(t, s)) = 2 * c /\ Odd(InTurn(t, s)) = t /\ Even(InTurn(t, s)) = s
         /\ \A i \in 1 .. c : InTurn(t, s)[2 * i - 1] = t[i] /\ InTurn(t, s)[2 * i] = s[i]
    <2>1. Len(t) = Len(s)
      BY <1>2, <1>8
    <2>2. /\ Len(InTurn(t, s)) = 2 * Len(t)
          /\ \A i \in 1 .. Len(t) : InTurn(t, s)[2 * i - 1] = t[i] /\ InTurn(t, s)[2 * i] = s[i]
          /\ Odd(InTurn(t, s)) = t /\ Even(InTurn(t, s)) = s
      BY <1>2, <1>8, <2>1, InTurnIs, ZenonT(40)
    <2>3. Len(t) = c
      BY <1>2, <1>8
    <2> QED
      BY <2>2, <2>3, Zenon
  <1>11. Len(ScoreArgs(call)) \div 2 = c
    BY <1>2, <1>5, <1>10
  <1>12. ASSUME S # {}
         PROVE  /\ InTurn(s, t)[1] = s[1] /\ InTurn(s, t)[2] = t[1]
                /\ InTurn(t, s)[1] = t[1] /\ InTurn(t, s)[2] = s[1]
                /\ t[1] = call.vals[s[1]]
    <2>1. 1 \in 1 .. c
      BY <1>2, <1>6, <1>12
    <2>2. 2 * 1 - 1 = 1 /\ 2 * 1 = 2
      OBVIOUS
    <2> QED
      BY <1>3, <1>9, <1>10, <2>1, <2>2
  <1> QED
    BY <1>4, <1>5, <1>9, <1>10, <1>11, <1>12 DEF s, t, c, S

LEMMA PutsTold ==
  ASSUME NEW call, CallOK(call), call.cmd \in Puts, NEW map
  PROVE  AnswerTold(call, map) /\ StoreServed(call, map)
PROOF
  <1> DEFINE reply == Serve(call.cmd, Args(call), map)[2]
  <1>1. \A st : ok(st) => Out(call, reply, st) = Truth(call, map)
    <2>1. Truth(call, map) = NoOut
      BY TruthLists
    <2>2. \A st : ok(st) => Out(call, reply, st) = NoOut
      BY OutIs
    <2> QED
      BY <2>1, <2>2, Zenon
  <1>2. CASE call.cmd \in Puts \ {"SADD", "ZADD"}
    <2>1. call.cmd \in {"SET", "MSET", "HSET", "HMSET"} /\ call.cmd \in Valued
      BY <1>2 DEF Puts, Valued
    <2>2. Serve(call.cmd, Args(call), map)
            = <<Over(MapOf(Odd(PairArgs(call)), Even(PairArgs(call))), map), OK>>
      BY <2>1, ServeChanges, ArgsAre
    <2>3. Serve(call.cmd, Args(call), map) = <<Over([n \in call.names |-> call.vals[n]], map), OK>>
      BY <2>1, <2>2, PairsSent
    <2>4. Effect(call, map) = Over([n \in call.names |-> call.vals[n]], map)
      BY <1>2, EffectIs
    <2> QED
      BY <1>1, <2>3, <2>4, ReplyIs DEF AnswerTold, StoreServed
  <1>3. CASE call.cmd = "ZADD"
    <2>1. call.cmd \in Valued
      BY <1>3 DEF Puts, Valued
    <2>2. Serve(call.cmd, Args(call), map)
            = <<Over(MapOf(Even(ScoreArgs(call)), Odd(ScoreArgs(call))), map),
                Count(Len(ScoreArgs(call)) \div 2)>>
      BY <1>3, ServeChanges, ArgsAre
    <2>3. Serve(call.cmd, Args(call), map)
            = <<Over([n \in call.names |-> call.vals[n]], map), Count(Cardinality(call.names))>>
      BY <2>1, <2>2, PairsSent
    <2>4. Effect(call, map) = Over([n \in call.names |-> call.vals[n]], map)
      BY <1>3, EffectIs DEF Puts
    <2> QED
      BY <1>1, <2>3, <2>4, ReplyIs DEF AnswerTold, StoreServed
  <1>4. CASE call.cmd = "SADD"
    <2>a. Args(call) = Sorted(call.names)
      BY <1>4, ArgsAre
    <2>b. \A args : Serve(call.cmd, args, map)
                      = <<Over([n \in ToSet(args) |-> 0], map), Count(Len(args))>>
      BY <1>4, ServeChanges
    <2>1. Serve(call.cmd, Args(call), map)
            = <<Over([n \in ToSet(Sorted(call.names)) |-> 0], map), Count(Len(Sorted(call.names)))>>
      BY <2>a, <2>b, Zenon
    <2>2. ToSet(Sorted(call.names)) = call.names
      BY SortedSet DEF CallOK
    <2>3. Effect(call, map) = Over([n \in call.names |-> 0], map)
      BY <1>4, EffectIs
    <2> QED
      BY <1>1, <2>1, <2>2, <2>3, ReplyIs DEF AnswerTold, StoreServed
  <1> QED
    BY <1>2, <1>3, <1>4

\* The only name of a call.
LEMMA NameIs ==
  ASSUME NEW call, CallOK(call), call.cmd \in Singles
  PROVE  /\ Name(call) \in Nat /\ call.names = {Name(call)}
         /\ Sorted(call.names)[1] = Name(call)
PROOF
  <1>1. PICK n \in call.names : call.names = {n}
    BY DEF CallOK
  <1>2. n \in Nat
    BY DEF CallOK
  <1>3. Name(call) = n
    BY <1>1 DEF Name
  <1>4. Sorted({n})[1] = n
    BY <1>2, SortedOne
  <1> QED
    BY <1>1, <1>2, <1>3, <1>4

LEMMA LooksTold ==
  ASSUME NEW call, CallOK(call), call.cmd \in Looks, NEW map
  PROVE  AnswerTold(call, map) /\ StoreServed(call, map)
PROOF
  <1> DEFINE n == Name(call)
             reply == Serve(call.cmd, Args(call), map)[2]
  <1>1. Args(call) = Sorted(call.names) /\ Sorted(call.names)[1] = n
    BY ArgsAre, NameIs DEF Looks, Singles
  <1>2. Serve(call.cmd, Args(call), map) = <<map, Present(map, n)>>
    BY <1>1, ServeReads
  <1>3. /\ reply2string(Present(map, n)) = Held(map, n)
        /\ Present(map, n).type \notin {"null", "error"}
    BY ReplyIs DEF Present, Held
  <1>4. \A st : ok(st) => Out(call, reply, st) = Number(reply2string(reply))
    BY OutIs DEF Looks
  <1>5. Truth(call, map) = Number(Held(map, n)) /\ Effect(call, map) = map
    BY TruthIs, EffectIs
  <1> QED
    BY <1>2, <1>3, <1>4, <1>5 DEF AnswerTold, StoreServed

LEMMA IncrsTold ==
  ASSUME NEW call, CallOK(call), call.cmd \in Incrs, NEW map
  PROVE  AnswerTold(call, map) /\ StoreServed(call, map)
PROOF
  <1> DEFINE n == Name(call)
             v == call.vals[n]
             s == Sorted(call.names)
             reply == Serve(call.cmd, Args(call), map)[2]
             after == Over([m \in {n} |-> Held(map, m) + call.vals[m]], map)
  <1>1. call.names = {n} /\ s[1] = n
    BY NameIs DEF Incrs, Singles
  <1>2. /\ PairArgs(call)[1] = s[1] /\ PairArgs(call)[2] = ValsOf(call)[1]
        /\ ScoreArgs(call)[1] = ValsOf(call)[1] /\ ScoreArgs(call)[2] = s[1]
        /\ ValsOf(call)[1] = call.vals[s[1]]
    BY <1>1, PairsSent DEF Incrs, Valued
  <1>3. /\ PairArgs(call)[1] = n /\ PairArgs(call)[2] = v
        /\ ScoreArgs(call)[1] = v /\ ScoreArgs(call)[2] = n
    BY <1>1, <1>2
  <1>4. Incremented(map, n, v) = after
    <2>1. [m \in {n} |-> Held(map, n) + v] = [m \in {n} |-> Held(map, m) + call.vals[m]]
      OBVIOUS
    <2> QED
      BY <2>1, Zenon DEF Incremented
  <1>5. Truth(call, map) = Number(Held(map, n) + v) /\ Effect(call, map) = after
    BY <1>1, TruthIs, EffectIs
  <1>6. CASE call.cmd \in {"INCRBY", "HINCRBY"}
    <2>1. Serve(call.cmd, Args(call), map) = <<Incremented(map, n, v), Count(Held(map, n) + v)>>
      BY <1>3, <1>6, ServeChanges, ArgsAre
    <2>2. \A st : ok(st) => Out(call, reply, st) = Number(reply2integer(reply))
      BY <1>6, OutIs
    <2> HIDE DEF n, v, after
    <2> QED
      BY <1>4, <1>5, <2>1, <2>2, ReplyIs DEF AnswerTold, StoreServed
  <1>7. CASE call.cmd = "ZINCRBY"
    <2>1. Serve(call.cmd, Args(call), map) = <<Incremented(map, n, v), Bulk(Held(map, n) + v)>>
      BY <1>3, <1>7, ServeChanges, ArgsAre
    <2>2. \A st : ok(st) => Out(call, reply, st) = Number(reply2string(reply))
      BY <1>7, OutIs
    <2> HIDE DEF n, v, after
    <2> QED
      BY <1>4, <1>5, <2>1, <2>2, ReplyIs DEF AnswerTold, StoreServed
  <1> QED
    BY <1>6, <1>7 DEF Incrs

LEMMA RemovesTold ==
  ASSUME NEW call, CallOK(call), call.cmd \in Removes, NEW map
  PROVE  AnswerTold(call, map) /\ StoreServed(call, map)
PROOF
  <1> DEFINE reply == Serve(call.cmd, Args(call), map)[2]
             c == Cardinality(call.names \cap DOMAIN map)
  <1>1. Args(call) = Sorted(call.names)
    BY ArgsAre DEF Removes
  <1>2. ToSet(Sorted(call.names)) = call.names
    BY SortedSet DEF CallOK
  <1>3. Serve(call.cmd, Args(call), map) = <<Without(map, call.names), Count(c)>>
    <2>1. \A args : Serve(call.cmd, args, map)
            = <<Without(map, ToSet(args)), Count(Cardinality(ToSet(args) \cap DOMAIN map))>>
      BY ServeRemoves, Zenon
    <2> QED
      BY <1>1, <1>2, <2>1, Zenon
  <1>4. \A st : ok(st) => Out(call, reply, st) = Number(reply2integer(reply))
    BY OutIs DEF Removes
  <1>5. Truth(call, map) = Number(c) /\ Effect(call, map) = Without(map, call.names)
    BY TruthIs, EffectIs
  <1> HIDE DEF c
  <1> QED
    BY <1>3, <1>4, <1>5, ReplyIs DEF AnswerTold, StoreServed

LEMMA CountsTold ==
  ASSUME NEW call, CallOK(call), call.cmd \in Counts \cup {"SISMEMBER", "ZCOUNT", "ZRANK"},
         NEW map, MapOK(map)
  PROVE  AnswerTold(call, map) /\ StoreServed(call, map)
PROOF
  <1> DEFINE reply == Serve(call.cmd, Args(call), map)[2]
             n == Name(call)
  <1>1. \A st : ok(st) => Out(call, reply, st) = Number(reply2integer(reply))
    BY OutIs DEF Counts
  <1>2. Effect(call, map) = map
    BY EffectIs
  <1> SUFFICES ASSUME TRUE
               PROVE  /\ Serve(call.cmd, Args(call), map)[1] = map
                      /\ reply.type \notin {"null", "error"}
                      /\ Number(reply2integer(reply)) = Truth(call, map)
    BY <1>1, <1>2 DEF AnswerTold, StoreServed
  <1>3. CASE call.cmd \in Counts
    <2>1. Serve(call.cmd, Args(call), map) = <<map, Count(Cardinality(DOMAIN map))>>
      BY <1>3, ServeReads
    <2> QED
      BY <1>3, <2>1, TruthIs, ReplyIs
  <1>4. CASE call.cmd = "ZCOUNT"
    <2>1. Serve(call.cmd, Args(call), map) = <<map, Count(Cardinality(Chosen(call, map)))>>
      BY <1>4, ServeReads, ArgsAre DEF Ranges, Chosen
    <2> QED
      BY <1>4, <2>1, TruthIs, ReplyIs
  <1>5. CASE call.cmd \in {"SISMEMBER", "ZRANK"}
    <2>1. Args(call) = Sorted(call.names) /\ Sorted(call.names)[1] = n
      BY <1>5, ArgsAre, NameIs DEF Singles
    <2>2. CASE call.cmd = "SISMEMBER"
      <3>1. Serve(call.cmd, Args(call), map) = <<map, Count(IF n \in DOMAIN map THEN 1 ELSE 0)>>
        BY <2>1, <2>2, ServeReads
      <3> QED
        BY <2>2, <3>1, TruthIs, ReplyIs
    <2>3. CASE call.cmd = "ZRANK"
      <3>1. Serve(call.cmd, Args(call), map)
              = <<map, IF n \in DOMAIN map
                       THEN Count(Cardinality(InRange(map, 0, map[n] - 1))) ELSE Nil>>
        BY <2>1, <2>3, ServeReads
      <3>2. ASSUME n \in DOMAIN map
            PROVE  InRange(map, 0, map[n] - 1) = {m \in DOMAIN map : map[m] < map[n]}
        <4>1. \A m \in DOMAIN map : 0 <= map[m] /\ map[m] <= map[n] - 1 <=> map[m] < map[n]
          BY <3>2 DEF MapOK
        <4> QED
          BY <4>1 DEF InRange
      <3>3. Truth(call, map)
              = Number(IF n \in DOMAIN map
                       THEN Cardinality({m \in DOMAIN map : map[m] < map[n]}) ELSE 0)
        BY <2>3, TruthIs
      <3>4. CASE n \in DOMAIN map
        BY <3>1, <3>2, <3>3, <3>4, ReplyIs
      <3>5. CASE n \notin DOMAIN map
        BY <3>1, <3>3, <3>5, ReplyIs
      <3> QED
        BY <3>4, <3>5
    <2> QED
      BY <1>5, <2>2, <2>3
  <1> QED
    BY <1>3, <1>4, <1>5

LEMMA RangeRemoved ==
  ASSUME NEW call, CallOK(call), call.cmd = "ZREMRANGEBYSCORE", NEW map
  PROVE  AnswerTold(call, map) /\ StoreServed(call, map)
PROOF
  <1>1. Serve(call.cmd, Args(call), map)
          = <<Without(map, Chosen(call, map)), Count(Cardinality(Chosen(call, map)))>>
    BY ServeChanges, ArgsAre DEF Ranges, Chosen
  <1>2. \A st : ok(st) => Out(call, Serve(call.cmd, Args(call), map)[2], st) = Truth(call, map)
    <2>1. Truth(call, map) = NoOut
      BY TruthLists
    <2>2. \A st : ok(st) => Out(call, Serve(call.cmd, Args(call), map)[2], st) = NoOut
      BY OutIs
    <2> QED
      BY <2>1, <2>2, Zenon
  <1> QED
    BY <1>1, <1>2, EffectIs, ReplyIs DEF AnswerTold, StoreServed

-----------------------------------------------------------------------------
(* Lists.                                                                    *)

LEMMA SameSize ==
  ASSUME NEW S, NEW T, IsFiniteSet(S), NEW f \in [S -> T],
         \A x, y \in S : f[x] = f[y] => x = y, \A z \in T : \E x \in S : f[x] = z
  PROVE  IsFiniteSet(T) /\ Cardinality(T) = Cardinality(S)
PROOF
  <1>1. f \in Injection(S, T)
    BY DEF Injection, IsInjective
  <1>2. f \in Surjection(S, T)
    BY DEF Surjection
  <1>3. ExistsBijection(S, T)
    BY <1>1, <1>2 DEF ExistsBijection, Bijection
  <1> QED
    BY <1>3, FS_Bijection

\* A std::set or std::map of one entry for each name is in the order of the names.
LEMMA CollectedIs ==
  ASSUME NEW S, IsFiniteSet(S), S \subseteq Nat, NEW f,
         NEW list, \A x : x \in ToSet(list) <=> \E n \in S : x = <<n, f[n]>>
  PROVE  Collected(list) = Entries(f, S)
PROOF
  <1> DEFINE P == {<<n, f[n]>> : n \in S}
             R == {p \in P \X P : p[1][1] < p[2][1]}
             c == Cardinality(S)
             s == Sorted(S)
             e == [i \in 1 .. c |-> <<s[i], f[s[i]]>>]
  <1>1. /\ c \in Nat /\ s \in [1 .. c -> S] /\ \A i, j \in 1 .. c : i < j => s[i] < s[j]
    BY SortedIs
  <1>2. IsFiniteSet(P) /\ Cardinality(P) = c
    <2> DEFINE g == [n \in S |-> <<n, f[n]>>]
    <2>1. /\ g \in [S -> P] /\ \A x, y \in S : g[x] = g[y] => x = y
          /\ \A z \in P : \E x \in S : g[x] = z
      OBVIOUS
    <2> HIDE DEF g, P
    <2> QED
      BY <2>1, SameSize
  <1>3. \A p \in P : p = <<p[1], p[2]>> /\ p[1] \in Nat /\ p[2] = f[p[1]]
    OBVIOUS
  <1>4. \A p, q \in P : <<p, q>> \in R <=> p[1] < q[1]
    OBVIOUS
  <1>5. R \in SUBSET (P \X P)
    OBVIOUS
  <1>6. e \in [1 .. c -> P] /\ \A i, j \in 1 .. c : i < j => e[i][1] < e[j][1]
    BY <1>1
  <1>a. ToSet(list) = P
    OBVIOUS
  <1>7. Collected(list)
          = CHOOSE t \in [1 .. Cardinality(P) -> P] :
              \A i, j \in 1 .. Cardinality(P) : i < j => t[i][1] < t[j][1]
    BY <1>a DEF Collected, InOrder
  <1> HIDE DEF P, R, c, s, e
  <1>8. Ordered(P, R)
    <2>1. \A p \in P : <<p, p>> \notin R
      BY <1>3, <1>4
    <2>2. \A x, y, z \in P : <<x, y>> \in R /\ <<y, z>> \in R => <<x, z>> \in R
      <3> TAKE x \in P, y \in P, z \in P
      <3>1. x[1] \in Nat /\ y[1] \in Nat /\ z[1] \in Nat
        BY <1>3
      <3> QED
        BY <1>4, <3>1
    <2>3. \A x, y \in P : x = y \/ <<x, y>> \in R \/ <<y, x>> \in R
      <3> TAKE x \in P, y \in P
      <3>1. x[1] < y[1] \/ y[1] < x[1] \/ x[1] = y[1]
        BY <1>3
      <3>2. x[1] = y[1] => x = y
        BY <1>3
      <3> QED
        BY <1>4, <3>1, <3>2
    <2> QED
      BY <1>2, <1>5, <2>1, <2>2, <2>3 DEF Ordered
  <1>9. \A t \in [1 .. c -> P] :
          (\A i, j \in 1 .. c : i < j => t[i][1] < t[j][1]) <=> Ascending(t, P, R)
    BY <1>2, <1>4 DEF Ascending
  <1> DEFINE got == Collected(list)
  <1>10. got \in [1 .. c -> P] /\ \A i, j \in 1 .. c : i < j => got[i][1] < got[j][1]
    BY <1>2, <1>6, <1>7
  <1> HIDE DEF got
  <1>11. got = e
    BY <1>6, <1>8, <1>9, <1>10, AscendingOnce
  <1> QED
    BY <1>11 DEF got, e, c, s, Entries

\* The names of a hash or a set, in its own order.
LEMMA UnsortedIs ==
  ASSUME NEW map, MapOK(map)
  PROVE  /\ Unsorted(map) \in Seq(DOMAIN map) /\ ToSet(Unsorted(map)) = DOMAIN map
PROOF
  <1> DEFINE S == DOMAIN map
             c == Cardinality(S)
             s == Sorted(S)
             u == Unsorted(map)
  <1>1. /\ c \in Nat /\ s \in [1 .. c -> S] /\ Len(s) = c /\ \A x \in S : \E i \in 1 .. c : s[i] = x
    BY SortedIs DEF MapOK
  <1>2. u = [i \in 1 .. Len(s) |-> s[(Len(s) - i) + 1]]
    BY DEF Unsorted, Reverse
  <1> HIDE DEF S, c, s, u
  <1>3. u \in [1 .. c -> S] /\ DOMAIN u = 1 .. c
    BY <1>1, <1>2
  <1>4. u \in Seq(S)
    BY <1>1, <1>3
  <1>5. \A x \in S : \E i \in 1 .. c : u[i] = x
    <2> TAKE x \in S
    <2>1. PICK i \in 1 .. c : s[i] = x
      BY <1>1
    <2>2. c - i + 1 \in 1 .. c /\ (c - (c - i + 1)) + 1 = i
      BY <1>1
    <2>3. u[c - i + 1] = x
      BY <1>1, <1>2, <2>1, <2>2
    <2> QED
      BY <2>2, <2>3
  <1>6. ToSet(u) = {u[i] : i \in 1 .. c}
    BY <1>3 DEF ToSet
  <1>7. \A x \in {u[i] : i \in 1 .. c} : x \in S
    BY <1>3
  <1>8. \A x \in S : x \in {u[i] : i \in 1 .. c}
    BY <1>5
  <1>9. ToSet(u) = S
    BY <1>6, <1>7, <1>8, Zenon
  <1> QED
    BY <1>4, <1>9 DEF S, u

\* What the reader makes of the elements.
LEMMA OneByOneIs ==
  ASSUME NEW A, NEW u \in Seq(A)
  PROVE  OneByOne(Alone(u).element) = [i \in 1 .. Len(u) |-> <<u[i], 0>>]
PROOF
  <1> DEFINE b == [i \in DOMAIN u |-> Bulk(u[i])]
  <1>1. DOMAIN u = 1 .. Len(u)
    OBVIOUS
  <1>2. Alone(u).element = b
    BY ReplyIs DEF Alone
  <1>3. OneByOne(b) = [i \in 1 .. Len(u) |-> <<reply2string(b[i]), 0>>]
    BY <1>1 DEF OneByOne
  <1>4. \A i \in 1 .. Len(u) : reply2string(b[i]) = u[i]
    BY <1>1, ReplyIs
  <1> HIDE DEF b
  <1>5. [i \in 1 .. Len(u) |-> <<reply2string(b[i]), 0>>] = [i \in 1 .. Len(u) |-> <<u[i], 0>>]
    BY <1>4
  <1> QED
    BY <1>2, <1>3, <1>5, Zenon

LEMMA InPairsIs ==
  ASSUME NEW map, NEW u \in Seq(DOMAIN map)
  PROVE  InPairs(Paired(map, u).element) = [i \in 1 .. Len(u) |-> <<u[i], map[u[i]]>>]
PROOF
  <1> DEFINE c == Len(u)
             a == [i \in DOMAIN u |-> Bulk(u[i])]
             b == [i \in DOMAIN u |-> Bulk(map[u[i]])]
             B == {a[i] : i \in 1 .. c} \cup {b[i] : i \in 1 .. c}
             e == InTurn(a, b)
  <1>1. DOMAIN u = 1 .. c /\ c \in Nat
    OBVIOUS
  <1>2. Paired(map, u).element = e
    BY ReplyIs DEF Paired
  <1>3. a \in [1 .. c -> B] /\ b \in [1 .. c -> B]
    BY <1>1
  <1>4. \A i \in 1 .. c : reply2string(a[i]) = u[i] /\ reply2string(b[i]) = map[u[i]]
    BY <1>1, ReplyIs
  <1> HIDE DEF a, b, B, c, e
  <1>5. a \in Seq(B) /\ b \in Seq(B) /\ Len(a) = c /\ Len(b) = c
    BY <1>1, <1>3
  <1>6. Len(e) = 2 * Len(a) /\ \A i \in 1 .. Len(a) : e[2 * i - 1] = a[i] /\ e[2 * i] = b[i]
    BY <1>5, InTurnIs DEF e
  <1>7. Len(e) \div 2 = c
    BY <1>1, <1>5, <1>6
  <1>8. InPairs(e) = [i \in 1 .. c |-> <<reply2string(e[2 * i - 1]), reply2string(e[2 * i])>>]
    BY <1>7 DEF InPairs
  <1>9. \A i \in 1 .. c : reply2string(e[2 * i - 1]) = u[i] /\ reply2string(e[2 * i]) = map[u[i]]
    BY <1>4, <1>5, <1>6
  <1>10. [i \in 1 .. c |-> <<reply2string(e[2 * i - 1]), reply2string(e[2 * i])>>]
          = [i \in 1 .. c |-> <<u[i], map[u[i]]>>]
    BY <1>9
  <1>11. InPairs(e) = [i \in 1 .. c |-> <<u[i], map[u[i]]>>]
    BY <1>8, <1>10, Zenon
  <1> QED
    BY <1>2, <1>11 DEF c

\* mget and hmget: the names that have a value, in order.
LEMMA ByNameIs ==
  ASSUME NEW call, CallOK(call), NEW map, MapOK(map), NEW reply,
         reply.element = [i \in DOMAIN Sorted(call.names) |-> Present(map, Sorted(call.names)[i])]
  PROVE  ByName(call, reply) = Entries(map, call.names \cap DOMAIN map)
PROOF
  <1> DEFINE N == call.names
             D == DOMAIN map
             T == N \cap D
             names == Sorted(N)
             n == Cardinality(N)
             el == reply.element
             F == {i \in DOMAIN names : el[i].type = "string"}
             found == Sorted(F)
             c == Cardinality(T)
             s == Sorted(T)
             q == [j \in 1 .. c |-> names[found[j]]]
  <1>1. IsFiniteSet(N) /\ N \subseteq Nat
    BY DEF CallOK
  <1>2. /\ n \in Nat /\ names \in [1 .. n -> N] /\ DOMAIN names = 1 .. n
        /\ \A i, j \in 1 .. n : i < j => names[i] < names[j]
        /\ \A x \in N : \E i \in 1 .. n : names[i] = x
        /\ \A i, j \in 1 .. n : names[i] = names[j] => i = j
    BY <1>1, SortedIs
  <1>3. \A i \in 1 .. n : el[i] = Present(map, names[i])
    BY <1>2
  <1>4. \A x : /\ x \in D => Present(map, x).type = "string" /\ Present(map, x).num = map[x]
               /\ x \notin D => Present(map, x).type = "nil"
    BY ReplyIs DEF Present
  <1> HIDE DEF N, D, names, n, el
  <1>5. F = {i \in 1 .. n : names[i] \in D}
    BY <1>2, <1>3, <1>4
  <1>6. F \subseteq 1 .. n /\ F \subseteq Nat /\ IsFiniteSet(F)
    <2>1. IsFiniteSet(1 .. n)
      BY <1>2, FS_Interval, 0 \in Int, 1 \in Int, n \in Int, Zenon
    <2>2. F \subseteq 1 .. n
      BY <1>5
    <2> QED
      BY <1>2, <2>1, <2>2, FS_Subset
  <1>7. Cardinality(F) = c
    <2> DEFINE h == [i \in F |-> names[i]]
    <2>1. /\ h \in [F -> T] /\ \A x, y \in F : h[x] = h[y] => x = y
          /\ \A z \in T : \E x \in F : h[x] = z
      BY <1>2, <1>5
    <2> HIDE DEF h, F, T
    <2> QED
      BY <1>6, <2>1, SameSize DEF c
  <1>8. IsFiniteSet(T) /\ T \subseteq Nat
    BY <1>1, FS_Subset
  <1>9. /\ found \in [1 .. c -> F] /\ DOMAIN found = 1 .. c
        /\ \A i, j \in 1 .. c : i < j => found[i] < found[j]
    <2> HIDE DEF F
    <2> QED
      BY <1>6, <1>7, SortedIs
  <1>10. \A t \in [1 .. c -> T] : (\A i, j \in 1 .. c : i < j => t[i] < t[j]) => t = s
    <2> HIDE DEF T
    <2> QED
      BY <1>8, SortedIs
  <1> HIDE DEF found, s, c
  <1>11. \A j \in 1 .. c : found[j] \in 1 .. n /\ names[found[j]] \in T
    BY <1>2, <1>5, <1>9
  <1>12. q \in [1 .. c -> T] /\ \A i, j \in 1 .. c : i < j => q[i] < q[j]
    BY <1>2, <1>9, <1>11
  <1>13. q = s
    <2> HIDE DEF q, T
    <2> QED
      BY <1>10, <1>12
  <1>14. \A j \in 1 .. c : names[found[j]] = s[j] /\ el[found[j]].num = map[s[j]]
    <2> TAKE j \in 1 .. c
    <2>1. names[found[j]] = q[j]
      OBVIOUS
    <2>2. el[found[j]].num = map[names[found[j]]]
      BY <1>3, <1>4, <1>11
    <2> HIDE DEF q
    <2> QED
      BY <1>13, <2>1, <2>2
  <1>15. ByName(call, reply) = [j \in 1 .. c |-> <<names[found[j]], el[found[j]].num>>]
    <2>1. ByName(call, reply) = [j \in DOMAIN found |-> <<names[found[j]], el[found[j]].num>>]
      BY DEF ByName, found, names, el, N
    <2> QED
      BY <1>9, <2>1
  <1>16. [j \in 1 .. c |-> <<names[found[j]], el[found[j]].num>>]
           = [j \in 1 .. c |-> <<s[j], map[s[j]]>>]
    BY <1>14
  <1>17. ByName(call, reply) = [j \in 1 .. c |-> <<s[j], map[s[j]]>>]
    BY <1>15, <1>16, Zenon
  <1> QED
    BY <1>17 DEF Entries, c, s, N, D

\* Names in the order of their values.
LEMMA ByScoreIs ==
  ASSUME NEW map, MapOK(map), NEW S, S \subseteq DOMAIN map
  PROVE  /\ Cardinality(S) \in Nat /\ ByScore(map, S) \in Seq(DOMAIN map)
         /\ Len(ByScore(map, S)) = Cardinality(S)
PROOF
  <1> DEFINE R == {p \in S \X S : map[p[1]] < map[p[2]]
                                   \/ (map[p[1]] = map[p[2]] /\ p[1] < p[2])}
             c == Cardinality(S)
             b == ByScore(map, S)
  <1>1. IsFiniteSet(S) /\ \A x \in S : x \in Nat /\ map[x] \in Nat
    BY FS_Subset DEF MapOK
  <1>2. \A x, y \in S : <<x, y>> \in R <=> map[x] < map[y] \/ (map[x] = map[y] /\ x < y)
    OBVIOUS
  <1>3. R \in SUBSET (S \X S)
    OBVIOUS
  <1>4. b = CHOOSE s \in [1 .. c -> S] :
              \A i, j \in 1 .. c : i < j => map[s[i]] < map[s[j]]
                                            \/ (map[s[i]] = map[s[j]] /\ s[i] < s[j])
    BY DEF ByScore, InOrder
  <1>5. c \in Nat
    BY <1>1, FS_CardinalityType
  <1> HIDE DEF R
  <1>6. Ordered(S, R)
    <2>1. \A x \in S : <<x, x>> \notin R
      BY <1>1, <1>2
    <2>2. \A x, y, z \in S : <<x, y>> \in R /\ <<y, z>> \in R => <<x, z>> \in R
      BY <1>1, <1>2
    <2>3. \A x, y \in S : x = y \/ <<x, y>> \in R \/ <<y, x>> \in R
      <3> TAKE x \in S, y \in S
      <3>1. x < y \/ y < x \/ x = y
        BY <1>1
      <3>2. map[x] < map[y] \/ map[y] < map[x] \/ map[x] = map[y]
        BY <1>1
      <3> QED
        BY <1>2, <3>1, <3>2
    <2> QED
      BY <1>1, <1>3, <2>1, <2>2, <2>3 DEF Ordered
  <1>7. PICK t : Ascending(t, S, R)
    BY <1>6, AscendingExists
  <1>8. t \in [1 .. c -> S] /\ \A i, j \in 1 .. c : i < j => <<t[i], t[j]>> \in R
    BY <1>7 DEF Ascending
  <1>9. \A i, j \in 1 .. c : i < j => map[t[i]] < map[t[j]]
                                      \/ (map[t[i]] = map[t[j]] /\ t[i] < t[j])
    BY <1>2, <1>8
  <1>10. b \in [1 .. c -> S]
    BY <1>4, <1>8, <1>9
  <1> HIDE DEF b, c
  <1>11. b \in [1 .. c -> DOMAIN map]
    BY <1>10
  <1>12. b \in Seq(DOMAIN map) /\ Len(b) = c
    BY <1>5, <1>11
  <1> QED
    BY <1>5, <1>12 DEF b, c

\* What is selected by index are elements.
LEMMA FromToType ==
  ASSUME NEW S, NEW s \in Seq(S), NEW start \in Int, NEW stop \in Int
  PROVE  FromTo(s, start, stop) \in Seq(S)
PROOF
  <1> DEFINE a == IF start < 0 THEN Len(s) + start ELSE start
             b == IF stop < 0 THEN Len(s) + stop ELSE stop
             m == 1 + Max({0, a})
             n == 1 + Min({Len(s) - 1, b})
  <1>1. Len(s) \in Nat /\ a \in Int /\ b \in Int
    BY LenProperties
  <1> HIDE DEF a, b
  <1>2. Max({0, a}) = (IF a <= 0 THEN 0 ELSE a) /\ Min({Len(s) - 1, b}) = (IF b <= Len(s) - 1 THEN b ELSE Len(s) - 1)
    BY <1>1 DEF Max, Min
  <1>3. m \in Int /\ n \in Int /\ m >= 1 /\ n <= Len(s)
    BY <1>1, <1>2
  <1> HIDE DEF m, n
  <1>4. \A i \in m .. n : s[i] \in S
    BY <1>1, <1>3, ElementOfSeq
  <1>5. SubSeq(s, m, n) \in Seq(S)
    BY <1>3, <1>4, SubSeqProperties
  <1> QED
    BY <1>5 DEF FromTo, a, b, m, n

\* mget, hmget, smembers, hgetall, zrange and those with scores.
LEMMA ListsTold ==
  ASSUME NEW call, CallOK(call), NEW map, MapOK(map),
         call.cmd \in Batches \cup {"HGETALL", "SMEMBERS", "ZRANGE", "ZRANGEWITHSCORES",
                                    "ZRANGEBYSCOREWITHSCORES"}
  PROVE  AnswerTold(call, map) /\ StoreServed(call, map)
PROOF
  <1> DEFINE reply == Serve(call.cmd, Args(call), map)[2]
             D == DOMAIN map
  <1>1. Effect(call, map) = map
    BY EffectIs
  <1>2. ASSUME NEW s, Serve(call.cmd, Args(call), map) = <<map, Array(s)>>,
               NEW list, \A st : ok(st) => Out(call, reply, st) = List(list),
               Truth(call, map) = List(list)
        PROVE  AnswerTold(call, map) /\ StoreServed(call, map)
    BY <1>1, <1>2, ReplyIs DEF AnswerTold, StoreServed
  <1>3. ASSUME NEW s, Serve(call.cmd, Args(call), map) = <<map, Array(s)>>
        PROVE  reply.type = "array" /\ reply.element = s
    BY <1>3, ReplyIs
  <1>4. CASE call.cmd \in Batches
    <2> DEFINE s == [i \in DOMAIN Sorted(call.names) |-> Present(map, Sorted(call.names)[i])]
               list == Entries(map, call.names \cap D)
    <2>1. Args(call) = Sorted(call.names)
      BY <1>4, ArgsAre DEF Batches
    <2>2. \A args : Serve(call.cmd, args, map)
                      = <<map, Array([i \in DOMAIN args |-> Present(map, args[i])])>>
      BY <1>4, ServeBatches, Zenon
    <2>3. Serve(call.cmd, Args(call), map) = <<map, Array(s)>>
      BY <2>1, <2>2, Zenon
    <2>4. reply.type = "array" /\ reply.element = s
      BY <1>3, <2>3
    <2>5. ByName(call, reply) = list
      BY <2>4, ByNameIs
    <2>6. Truth(call, map) = List(list)
      BY <1>4, TruthLists
    <2> HIDE DEF reply, s, list
    <2>7. \A st : ok(st) => Out(call, reply, st) = List(list)
      BY <1>4, <2>4, <2>5, OutIs
    <2> QED
      BY <1>2, <2>3, <2>6, <2>7 DEF reply
  <1>5. CASE call.cmd \in {"HGETALL", "SMEMBERS"}
    <2> DEFINE u == Unsorted(map)
               f == IF call.cmd = "HGETALL" THEN map ELSE [n \in D |-> 0]
               s == Sorted(D)
               list == Entries(f, D)
               p == [i \in 1 .. Len(u) |-> <<u[i], f[u[i]]>>]
    <2>1. u \in Seq(D) /\ ToSet(u) = D
      BY UnsortedIs
    <2>2. \A x : x \in ToSet(p) <=> \E n \in D : x = <<n, f[n]>>
      <3>1. DOMAIN u = 1 .. Len(u) /\ \A n : n \in D <=> \E i \in 1 .. Len(u) : n = u[i]
        BY <2>1 DEF ToSet
      <3> HIDE DEF u, f, D
      <3>2. DOMAIN p = 1 .. Len(u) /\ \A i \in 1 .. Len(u) : p[i] = <<u[i], f[u[i]]>>
        OBVIOUS
      <3> HIDE DEF p
      <3>3. \A x : x \in ToSet(p) <=> \E i \in 1 .. Len(u) : x = p[i]
        BY <3>2 DEF ToSet
      <3>4. ASSUME NEW x, NEW i \in 1 .. Len(u), x = p[i]
            PROVE  \E n \in D : x = <<n, f[n]>>
        BY <3>1, <3>2, <3>4
      <3>5. ASSUME NEW x, NEW n \in D, x = <<n, f[n]>>
            PROVE  \E i \in 1 .. Len(u) : x = p[i]
        BY <3>1, <3>2, <3>5
      <3> QED
        BY <3>3, <3>4, <3>5
    <2>3. IsFiniteSet(D) /\ D \subseteq Nat
      BY DEF MapOK
    <2>4. Collected(p) = list
      <3> HIDE DEF p, D, f
      <3> QED
        BY <2>2, <2>3, CollectedIs
    <2>5. CASE call.cmd = "HGETALL"
      <3>1. Serve(call.cmd, Args(call), map) = <<map, Paired(map, u)>>
        BY <2>5, ServeReads
      <3>2. PICK e : Paired(map, u) = Array(e)
        BY DEF Paired
      <3>3. reply.type = "array" /\ reply = Paired(map, u)
        BY <1>3, <3>1, <3>2
      <3>4. f = map
        BY <2>5
      <3> HIDE DEF f
      <3>5. InPairs(Paired(map, u).element) = p
        BY <2>1, <3>4, InPairsIs
      <3>6. list = Entries(map, D)
        BY <3>4
      <3> HIDE DEF reply, p, list, u
      <3>7. \A st : ok(st) => Out(call, reply, st) = List(list)
        BY <2>4, <2>5, <3>3, <3>5, OutIs
      <3>8. Truth(call, map) = List(list)
        BY <2>5, <3>6, TruthLists
      <3> QED
        BY <1>2, <3>1, <3>2, <3>7, <3>8 DEF reply
    <2>6. CASE call.cmd = "SMEMBERS"
      <3>1. Serve(call.cmd, Args(call), map) = <<map, Alone(u)>>
        BY <2>6, ServeReads
      <3>2. PICK e : Alone(u) = Array(e)
        BY DEF Alone
      <3>3. reply = Alone(u)
        BY <1>3, <3>1, <3>2
      <3>4. f = [n \in D |-> 0]
        BY <2>6
      <3>4a. \A i \in 1 .. Len(u) : f[u[i]] = 0
        BY <2>1, <3>4
      <3>4b. \A i \in 1 .. Cardinality(D) : f[s[i]] = 0
        <4>1. \A i \in 1 .. Cardinality(D) : s[i] \in D
          BY <2>3, SortedIs
        <4> HIDE DEF f, s, D
        <4> QED
          BY <3>4, <4>1
      <3> HIDE DEF f, u
      <3>5. OneByOne(Alone(u).element) = [i \in 1 .. Len(u) |-> <<u[i], 0>>]
        BY <2>1, OneByOneIs
      <3>5a. [i \in 1 .. Len(u) |-> <<u[i], 0>>] = p
        BY <3>4a
      <3>6. list = NamesOf(D)
        BY <3>4b DEF NamesOf, Entries
      <3> HIDE DEF reply, p, list
      <3>7. \A st : ok(st) => Out(call, reply, st) = List(list)
        <4>1. OneByOne(reply.element) = p
          BY <3>3, <3>5, <3>5a, Zenon
        <4>2. \A st : ok(st) => Out(call, reply, st) = List(Collected(OneByOne(reply.element)))
          BY <2>6, OutIs
        <4> QED
          BY <2>4, <4>1, <4>2, Zenon
      <3>8. Truth(call, map) = List(list)
        BY <2>6, <3>6, TruthLists
      <3> QED
        BY <1>2, <3>1, <3>2, <3>7, <3>8 DEF reply
    <2> QED
      BY <1>5, <2>5, <2>6
  <1>6. CASE call.cmd = "ZRANGE"
    <2> DEFINE b == Selected(call, map)
               list == [i \in 1 .. Len(b) |-> <<b[i], 0>>]
    <2>1. b \in Seq(D) /\ DOMAIN b = 1 .. Len(b)
      <3>1. ByScore(map, D) \in Seq(D)
        BY ByScoreIs
      <3>2. call.vals[1] \in Int /\ call.vals[2] \in Int
        BY <1>6 DEF CallOK, Indexed
      <3> QED
        BY <3>1, <3>2, FromToType, LenProperties DEF Selected
    <2>2. Serve(call.cmd, Args(call), map) = <<map, Alone(b)>>
      <3>1. Args(call) = <<call.vals[1], call.vals[2]>>
        BY <1>6, ArgsAre DEF Indexed
      <3> QED
        BY <1>6, <3>1, ServeReads DEF Selected
    <2>3. PICK e : Alone(b) = Array(e)
      BY DEF Alone
    <2>4. reply.type = "array" /\ reply = Alone(b)
      BY <1>3, <2>2, <2>3
    <2>5. Truth(call, map) = List([i \in DOMAIN b |-> <<b[i], 0>>])
      BY <1>6, TruthLists, Zenon
    <2> HIDE DEF b
    <2>6. OneByOne(Alone(b).element) = list
      BY <2>1, OneByOneIs
    <2>7. Truth(call, map) = List(list)
      BY <2>1, <2>5
    <2> HIDE DEF reply, list
    <2>8. \A st : ok(st) => Out(call, reply, st) = List(list)
      BY <1>6, <2>4, <2>6, OutIs
    <2> QED
      BY <1>2, <2>2, <2>3, <2>7, <2>8 DEF reply
  <1>7. CASE call.cmd \in {"ZRANGEWITHSCORES", "ZRANGEBYSCOREWITHSCORES"}
    <2> DEFINE b == IF call.cmd = "ZRANGEWITHSCORES" THEN Selected(call, map)
                    ELSE ByScore(map, Chosen(call, map))
               list == Ranking(map, b)
    <2>1. Args(call) = <<call.vals[1], call.vals[2]>>
      BY <1>7, ArgsAre DEF Ranges, Indexed
    <2>2. /\ Serve(call.cmd, Args(call), map) = <<map, Paired(map, b)>>
          /\ Truth(call, map) = List(list)
          /\ b \in Seq(D)
      <3>1. CASE call.cmd = "ZRANGEWITHSCORES"
        <4>1. ByScore(map, D) \in Seq(D)
          BY ByScoreIs
        <4>2. call.vals[1] \in Int /\ call.vals[2] \in Int
          BY <3>1 DEF CallOK, Indexed
        <4>3. Selected(call, map) \in Seq(D)
          BY <4>1, <4>2, FromToType DEF Selected
        <4>4. Serve(call.cmd, Args(call), map) = <<map, Paired(map, Selected(call, map))>>
          BY <2>1, <3>1, ServeReads DEF Selected
        <4>5. Truth(call, map) = List(Ranking(map, Selected(call, map)))
          BY <3>1, TruthLists, Zenon
        <4> QED
          BY <3>1, <4>3, <4>4, <4>5
      <3>2. CASE call.cmd = "ZRANGEBYSCOREWITHSCORES"
        <4>1. Chosen(call, map) \subseteq D
          BY DEF Chosen, InRange
        <4>2. ByScore(map, Chosen(call, map)) \in Seq(D)
          BY <4>1, ByScoreIs
        <4>3. Serve(call.cmd, Args(call), map)
                = <<map, Paired(map, ByScore(map, Chosen(call, map)))>>
          BY <2>1, <3>2, ServeReads DEF Chosen
        <4>4. Truth(call, map) = List(Ranking(map, ByScore(map, Chosen(call, map))))
          BY <3>2, TruthLists, Zenon
        <4> QED
          BY <3>2, <4>2, <4>3, <4>4
      <3> QED
        BY <1>7, <3>1, <3>2
    <2> HIDE DEF b
    <2>3. DOMAIN b = 1 .. Len(b)
      BY <2>2, LenProperties
    <2>4. PICK e : Paired(map, b) = Array(e)
      BY DEF Paired
    <2>5. reply.type = "array" /\ reply = Paired(map, b)
      BY <1>3, <2>2, <2>4
    <2>6. InPairs(Paired(map, b).element) = [i \in 1 .. Len(b) |-> <<b[i], map[b[i]]>>]
      BY <2>2, InPairsIs
    <2>7. list = [i \in 1 .. Len(b) |-> <<b[i], map[b[i]]>>]
      BY <2>3 DEF Ranking
    <2> HIDE DEF reply, list
    <2>8. \A st : ok(st) => Out(call, reply, st) = List(list)
      BY <1>7, <2>5, <2>6, <2>7, OutIs
    <2> QED
      BY <1>2, <2>2, <2>4, <2>8 DEF reply
  <1> QED
    BY <1>4, <1>5, <1>6, <1>7

\* Every call is told the truth, and changes the database by what it means.
LEMMA CallTold ==
  ASSUME NEW call, CallOK(call), NEW map, MapOK(map)
  PROVE  AnswerTold(call, map) /\ StoreServed(call, map)
PROOF
  <1> DEFINE Lists == Batches \cup {"HGETALL", "SMEMBERS", "ZRANGE", "ZRANGEWITHSCORES",
                                    "ZRANGEBYSCOREWITHSCORES"}
             Numbers == Counts \cup {"SISMEMBER", "ZCOUNT", "ZRANK"}
  <1>1. call.cmd \in Puts \/ call.cmd \in Looks \/ call.cmd \in Incrs \/ call.cmd \in Removes
          \/ call.cmd \in Numbers \/ call.cmd = "ZREMRANGEBYSCORE" \/ call.cmd \in Lists
    BY DEF CallOK, Kinds, Commands, Puts, Looks, Batches, Removes, Counts, Incrs
  <1> QED
    BY <1>1, PutsTold, LooksTold, IncrsTold, RemovesTold, CountsTold, RangeRemoved, ListsTold

LEMMA OverOK ==
  ASSUME NEW S, IsFiniteSet(S), S \subseteq Nat, NEW f \in [S -> Nat], NEW map, MapOK(map)
  PROVE  MapOK(Over(f, map))
PROOF
  <1> DEFINE g == Over(f, map)
  <1>1. DOMAIN f = S /\ \A n \in S : f[n] \in Nat
    OBVIOUS
  <1>2. DOMAIN g = S \cup DOMAIN map
        /\ \A n \in S \cup DOMAIN map : g[n] = IF n \in S THEN f[n] ELSE map[n]
    BY <1>1 DEF Over
  <1>3. IsFiniteSet(S \cup DOMAIN map)
    BY FS_Union DEF MapOK
  <1> HIDE DEF g
  <1>4. \A n \in DOMAIN g : g[n] \in Nat
    BY <1>1, <1>2 DEF MapOK
  <1>5. IsFiniteSet(DOMAIN g) /\ DOMAIN g \subseteq Nat
    BY <1>2, <1>3 DEF MapOK
  <1> QED
    BY <1>4, <1>5 DEF MapOK, g

LEMMA WithoutOK ==
  ASSUME NEW S, NEW map, MapOK(map)
  PROVE  MapOK(Without(map, S))
PROOF
  <1> DEFINE g == Without(map, S)
  <1>1. DOMAIN g = DOMAIN map \ S /\ \A n \in DOMAIN map \ S : g[n] = map[n]
    BY DEF Without
  <1>2. IsFiniteSet(DOMAIN map \ S)
    BY FS_Difference DEF MapOK
  <1> HIDE DEF g
  <1>3. IsFiniteSet(DOMAIN g) /\ DOMAIN g \subseteq Nat /\ \A n \in DOMAIN g : g[n] \in Nat
    BY <1>1, <1>2 DEF MapOK
  <1> QED
    BY <1>3 DEF MapOK, g

\* What a call leaves behind is a container.
LEMMA EffectOK ==
  ASSUME NEW call, CallOK(call), NEW map, MapOK(map)
  PROVE  MapOK(Effect(call, map))
PROOF
  <1> DEFINE S == call.names
  <1>1. IsFiniteSet(S) /\ S \subseteq Nat
    BY DEF CallOK
  <1>2. CASE call.cmd = "SADD"
    <2> DEFINE f == [n \in S |-> 0]
    <2>1. f \in [S -> Nat] /\ Effect(call, map) = Over(f, map)
      BY <1>2, EffectIs
    <2> HIDE DEF f, S
    <2> QED
      BY <1>1, <2>1, OverOK
  <1>3. CASE call.cmd \in Puts \ {"SADD"}
    <2> DEFINE f == [n \in S |-> call.vals[n]]
    <2>1. \A n \in S : call.vals[n] \in Nat
      BY <1>3 DEF CallOK, Valued
    <2>2. f \in [S -> Nat]
      BY <2>1
    <2>3. Effect(call, map) = Over(f, map)
      BY <1>3, EffectIs
    <2> HIDE DEF f, S
    <2> QED
      BY <1>1, <2>2, <2>3, OverOK
  <1>4. CASE call.cmd \in Incrs
    <2> DEFINE f == [n \in S |-> Held(map, n) + call.vals[n]]
    <2>1. \A n \in S : call.vals[n] \in Nat
      BY <1>4 DEF CallOK, Valued
    <2>2. \A n \in S : Held(map, n) \in Nat
      BY DEF Held, MapOK
    <2>3. f \in [S -> Nat]
      BY <2>1, <2>2
    <2>4. Effect(call, map) = Over(f, map)
      BY <1>4, EffectIs
    <2> HIDE DEF f, S
    <2> QED
      BY <1>1, <2>3, <2>4, OverOK
  <1>5. CASE call.cmd \in Removes
    BY <1>5, EffectIs, WithoutOK
  <1>6. CASE call.cmd = "ZREMRANGEBYSCORE"
    BY <1>6, EffectIs, WithoutOK
  <1>7. CASE call.cmd \in Looks \cup Batches \cup Counts
               \cup {"SISMEMBER", "ZCOUNT", "ZRANK", "HGETALL", "SMEMBERS", "ZRANGE",
                     "ZRANGEWITHSCORES", "ZRANGEBYSCOREWITHSCORES"}
    BY <1>7, EffectIs
  <1>8. call.cmd = "SADD" \/ call.cmd \in Puts \ {"SADD"} \/ call.cmd \in Incrs
          \/ call.cmd \in Removes \/ call.cmd = "ZREMRANGEBYSCORE"
          \/ call.cmd \in Looks \cup Batches \cup Counts
               \cup {"SISMEMBER", "ZCOUNT", "ZRANK", "HGETALL", "SMEMBERS", "ZRANGE",
                     "ZRANGEWITHSCORES", "ZRANGEBYSCOREWITHSCORES"}
    BY DEF CallOK, Kinds, Commands, Puts, Looks, Batches, Removes, Counts, Incrs
  <1> QED
    BY <1>2, <1>3, <1>4, <1>5, <1>6, <1>7, <1>8

-----------------------------------------------------------------------------
(* The answer of a call.                                                     *)

StoreTyped == DOMAIN store = Kinds /\ \A k \in Kinds : MapOK(store[k])
AnswerTypes == DOMAIN truth = Threads /\ DOMAIN out = Threads

\* The reply of the call tells the truth, if it is one.
Tells(t) ==
  pack[Mine(t)].reply.type \notin {"null", "error"} =>
    \A st \in Statuses : ok(st) => Out(op[t], pack[Mine(t)].reply, st) = truth[t]

Truly(t) ==
  /\ \/ pc[t] \in {"target", "release", "return", "assign"}
     \/ pc[t] = "returned" /\ At(t, "reply") # NoPack
     => Tells(t)
  /\ pc[t] = "answered" /\ ok(status[t]) => out[t] = truth[t]

TInv == StoreTyped /\ AnswerTypes /\ \A t \in Threads : Truly(t)

\* The answer of a thread is as it was when nothing that it uses is changed.
LEMMA TrulyElsewhere ==
  ASSUME IInv, NEW u \in Threads, Truly(u),
         pc'[u] = pc[u], op'[u] = op[u], number'[u] = number[u], truth'[u] = truth[u],
         status'[u] = status[u], out'[u] = out[u],
         ptr'[<<u, "reply">>] = ptr[<<u, "reply">>],
         Mine(u) \in heap => pack'[Mine(u)].reply = pack[Mine(u)].reply
  PROVE  Truly(u)'
PROOF
  <1>1. Mine(u)' = Mine(u) /\ At(u, "reply")' = At(u, "reply")
    BY DEF Mine, At
  <1>2. ASSUME \/ pc'[u] \in {"target", "release", "return", "assign"}
               \/ pc'[u] = "returned" /\ At(u, "reply")' # NoPack
        PROVE  Tells(u)'
    <2>1. Tells(u)
      BY <1>1, <1>2 DEF Truly
    <2>2. pack'[Mine(u)].reply = pack[Mine(u)].reply
      BY <1>1, <1>2, MineAllocated DEF Making
    <2> QED
      BY <1>1, <2>1, <2>2 DEF Tells
  <1>3. pc'[u] = "answered" /\ ok(status'[u]) => out'[u] = truth'[u]
    BY DEF Truly
  <1> QED
    BY <1>2, <1>3 DEF Truly

\* A call carried out by a server.
LEMMA ExecuteIs ==
  ASSUME IInv, StoreTyped, NEW t \in Threads, Execute(t)
  PROVE  LET k == Kind(op[t].cmd) IN
         /\ k \in Kinds /\ CallOK(op[t]) /\ MapOK(store[k])
         /\ store' = [store EXCEPT ![k] = Effect(op[t], @)] /\ StoreTyped'
         /\ truth' = [truth EXCEPT ![t] = Truth(op[t], store[k])]
PROOF
  <1> DEFINE k == Kind(op[t].cmd)
             call == op[t]
  <1>1. CallOK(call)
    BY ClientAssumption DEF IInv, Types, ThreadTypes
  <1>2. k \in Kinds
    <2>1. \E l \in Kinds : call.cmd \in Commands[l]
      BY <1>1 DEF CallOK
    <2> QED
      BY <2>1 DEF Kind
  <1>3. MapOK(store[k]) /\ k \in DOMAIN store
    BY <1>2 DEF StoreTyped
  <1>4. Serve(call.cmd, Args(call), store[k])[1] = Effect(call, store[k])
    BY <1>1, <1>3, CallTold DEF StoreServed
  <1>5. /\ store' = [store EXCEPT ![k] = Effect(call, store[k])]
        /\ truth' = [truth EXCEPT ![t] = Truth(call, store[k])]
    BY <1>4 DEF Execute
  <1>6. MapOK(Effect(call, store[k]))
    BY <1>1, <1>3, EffectOK
  <1> HIDE DEF k, call
  <1>7. StoreTyped'
    BY <1>3, <1>5, <1>6 DEF StoreTyped
  <1> QED
    BY <1>1, <1>2, <1>3, <1>5, <1>7 DEF k, call

LEMMA RepliesTruly ==
  ASSUME IInv, TInv, NEW t \in Threads, Replies(t)
  PROVE  TInv'
PROOF
  <1> DEFINE call == op[t]
             map == store[Kind(op[t].cmd)]
             serve == Serve(call.cmd, Args(call), map)[2]
  <1>1. /\ pc[t] \in {"first", "retry"}
        /\ pc' = [pc EXCEPT ![t] = "target"]
        /\ UNCHANGED <<op, number, doneVars, ptrVars>>
    BY DEF Replies, Goto
  <1>2. At(t, "made") = Mine(t) /\ Mine(t) \in heap /\ Mine(t) \in Packs
    BY <1>1, MineAllocated DEF Making
  <1>3. \/ Execute(t) /\ pack' = [pack EXCEPT ![Mine(t)].reply = serve]
        \/ pack' = [pack EXCEPT ![Mine(t)].reply = Error] /\ UNCHANGED <<store, truth>>
    BY <1>2 DEF Replies
  <1>4. /\ pc'[t] = "target" /\ \A u \in Threads : u # t => pc'[u] = pc[u]
        /\ \A u \in Threads : Mine(u)' = Mine(u)
        /\ DOMAIN pack = Packs
    BY <1>1 DEF IInv, Types, ThreadTypes, PackTypes, Mine
  <1>5. ASSUME Execute(t)
        PROVE  /\ StoreTyped' /\ DOMAIN truth' = Threads
               /\ truth'[t] = Truth(call, map) /\ \A u \in Threads : u # t => truth'[u] = truth[u]
               /\ CallOK(call) /\ MapOK(map)
    BY <1>5, ExecuteIs DEF TInv, AnswerTypes
  <1>6. StoreTyped' /\ AnswerTypes'
    BY <1>1, <1>3, <1>5 DEF TInv, StoreTyped, AnswerTypes, doneVars
  <1>7. ASSUME NEW u \in Threads, u # t
        PROVE  Truly(u)'
    <2>1. Mine(u) # Mine(t)
      BY <1>7, Apart
    <2>2. Mine(u) \in heap => pack'[Mine(u)] = pack[Mine(u)]
      BY <1>2, <1>3, <1>4, <2>1 DEF IInv, Owned
    <2>3. truth'[u] = truth[u]
      BY <1>3, <1>5, <1>7
    <2> QED
      BY <1>1, <1>4, <1>7, <2>2, <2>3, TrulyElsewhere DEF TInv, doneVars, ptrVars
  <1>8. Tells(t)'
    <2>1. CASE Execute(t) /\ pack' = [pack EXCEPT ![Mine(t)].reply = serve]
      <3>1. AnswerTold(call, map)
        BY <1>5, <2>1, CallTold
      <3>2. \A st : ok(st) => Out(call, serve, st) = Truth(call, map)
        BY <3>1 DEF AnswerTold
      <3>3. pack'[Mine(t)].reply = serve
        BY <1>2, <1>4, <2>1 DEF IInv, Types, PackTypes
      <3> QED
        BY <1>1, <1>4, <1>5, <2>1, <3>2, <3>3 DEF Tells
    <2>2. CASE pack' = [pack EXCEPT ![Mine(t)].reply = Error]
      <3>1. pack'[Mine(t)].reply = Error
        BY <1>2, <1>4, <2>2 DEF IInv, Types, PackTypes
      <3>2. Error.type = "error"
        BY DEF Error
      <3> QED
        BY <1>4, <3>1, <3>2 DEF Tells
    <2> QED
      BY <1>3, <2>1, <2>2
  <1>9. Truly(t)'
    BY <1>4, <1>8 DEF Truly
  <1> QED
    BY <1>6, <1>7, <1>9 DEF TInv

\* An attempt that fails: the command may have been executed.
LEMMA NullTruly ==
  ASSUME IInv, TInv, NEW t \in Threads, pc[t] \in {"first", "retry"}, NEW e, Null(t, e),
         NEW label \in {"retry", "error"}, pc' = [pc EXCEPT ![t] = label],
         UNCHANGED <<op, packVars, doneVars, ptrVars>>
  PROVE  TInv'
PROOF
  <1>1. Execute(t) \/ UNCHANGED <<store, truth>>
    BY DEF Null
  <1>2. StoreTyped' /\ AnswerTypes' /\ \A u \in Threads : u # t => truth'[u] = truth[u]
    <2>1. CASE Execute(t)
      BY <2>1, ExecuteIs DEF TInv, AnswerTypes, doneVars
    <2>2. CASE UNCHANGED <<store, truth>>
      BY <2>2 DEF TInv, StoreTyped, AnswerTypes, doneVars
    <2> QED
      BY <1>1, <2>1, <2>2
  <1>3. pc'[t] = label /\ \A u \in Threads : u # t => pc'[u] = pc[u]
    BY DEF IInv, Types, ThreadTypes
  <1>4. ASSUME NEW u \in Threads, u # t
        PROVE  Truly(u)'
    BY <1>2, <1>3, <1>4, TrulyElsewhere DEF TInv, packVars, doneVars, ptrVars
  <1>5. Truly(t)'
    BY <1>3 DEF Truly
  <1> QED
    BY <1>2, <1>4, <1>5 DEF TInv

\* A step that goes on without a word about the answer.
LEMMA SilentTruly ==
  ASSUME IInv, TInv, NEW t \in Threads, NEW label, pc' = [pc EXCEPT ![t] = label],
         UNCHANGED <<store, truth, doneVars>>,
         \A u \in Threads : u # t => op'[u] = op[u] /\ number'[u] = number[u],
         \A u \in Threads : u # t => ptr'[<<u, "reply">>] = ptr[<<u, "reply">>],
         \A u \in Threads : u # t /\ Mine(u) \in heap => pack'[Mine(u)].reply = pack[Mine(u)].reply,
         Truly(t)'
  PROVE  TInv'
PROOF
  <1>1. StoreTyped' /\ AnswerTypes'
    BY DEF TInv, StoreTyped, AnswerTypes, doneVars
  <1>2. \A u \in Threads : u # t => pc'[u] = pc[u]
    BY DEF IInv, Types, ThreadTypes
  <1>3. ASSUME NEW u \in Threads, u # t
        PROVE  Truly(u)'
    BY <1>2, <1>3, TrulyElsewhere DEF TInv, doneVars
  <1> QED
    BY <1>1, <1>3 DEF TInv

\* The answer through each action.
LEMMA CallTruly ==
  ASSUME IInv, TInv, NEW t \in Threads, Call(t) \/ CallUnconfigured(t)
  PROVE  TInv'
PROOF
  <1>1. /\ pc[t] = "idle" /\ Chooses(t) /\ number' = [number EXCEPT ![t] = @ + 1]
        /\ UNCHANGED <<store, pack, doneVars, histVars>>
        /\ \/ pc' = [pc EXCEPT ![t] = "get"] /\ Ptr!Make(<<t, "made">>, <<t, number'[t]>>)
           \/ pc' = [pc EXCEPT ![t] = "returned"] /\ UNCHANGED ptrVars
    BY DEF Call, CallUnconfigured, Goto
  <1>2. \A u \in Threads : u # t => op'[u] = op[u] /\ number'[u] = number[u]
    BY <1>1 DEF Chooses, IInv, Types, ThreadTypes, Numbered
  <1>3. \A u \in Threads : ptr'[<<u, "reply">>] = ptr[<<u, "reply">>]
    <2>1. \A u \in Threads : <<u, "reply">> \in Pointers /\ <<u, "reply">> # <<t, "made">>
      BY DEF Pointers, Places
    <2> QED
      BY <1>1, <2>1 DEF IInv, Owned, Ptr!Make, ptrVars
  <1>4. At(t, "reply")' = NoPack
    BY <1>1, <1>3 DEF IInv, Place, At
  <1>5. pc'[t] \in {"get", "returned"}
    BY <1>1 DEF IInv, Types, ThreadTypes
  <1>6. Truly(t)'
    BY <1>4, <1>5 DEF Truly
  <1>7. CASE pc' = [pc EXCEPT ![t] = "get"]
    BY <1>1, <1>2, <1>3, <1>6, <1>7, SilentTruly DEF histVars
  <1>8. CASE pc' = [pc EXCEPT ![t] = "returned"]
    BY <1>1, <1>2, <1>3, <1>6, <1>8, SilentTruly DEF histVars
  <1> QED
    BY <1>1, <1>7, <1>8

LEMMA GetSocketTruly ==
  ASSUME IInv, TInv, NEW t \in Threads, NEW s \in Socks, GetSocket(t, s)
  PROVE  TInv'
PROOF
  <1>1. /\ pc' = [pc EXCEPT ![t] = "first"]
        /\ UNCHANGED <<store, op, packVars, doneVars, ptrVars, histVars>>
    BY DEF GetSocket, Goto
  <1>2. pc'[t] = "first"
    BY <1>1 DEF IInv, Types, ThreadTypes
  <1>3. Truly(t)'
    BY <1>2 DEF Truly
  <1> QED
    BY <1>1, <1>3, SilentTruly DEF packVars, ptrVars, histVars

\* The information about the call is written into its pack.
LEMMA InfoTruly ==
  ASSUME IInv, TInv, NEW t \in Threads, NoSocket(t) \/ SetTarget(t) \/ SetError(t)
  PROVE  TInv'
PROOF
  <1>1. PICK info, label :
          /\ label \in {"return", "release"}
          /\ pack' = [pack EXCEPT ![At(t, "made")].info = info]
          /\ pc' = [pc EXCEPT ![t] = label]
    <2>1. ASSUME NEW info, NEW label \in {"return", "release"}, SetInfo(t, info), Goto(t, label)
          PROVE  \E i, l :
                   /\ l \in {"return", "release"}
                   /\ pack' = [pack EXCEPT ![At(t, "made")].info = i]
                   /\ pc' = [pc EXCEPT ![t] = l]
      BY <2>1 DEF SetInfo, Goto
    <2>2. \E info, label : label \in {"return", "release"} /\ SetInfo(t, info) /\ Goto(t, label)
      BY DEF NoSocket, SetTarget, SetError
    <2> QED
      BY <2>1, <2>2
  <1>2. /\ pc[t] \in {"get", "target", "error"}
        /\ UNCHANGED <<store, op, number, truth, doneVars, ptrVars>>
    BY DEF NoSocket, SetTarget, SetError, histVars
  <1>3. At(t, "made") = Mine(t) /\ Mine(t) \in Packs
    BY <1>2, MineAllocated DEF Making
  <1>4. \A p \in Packs : pack'[p].reply = pack[p].reply
    BY <1>1, <1>3 DEF IInv, Types, PackTypes
  <1>5. pc'[t] = label /\ label \notin {"returned", "answered"}
    BY <1>1 DEF IInv, Types, ThreadTypes
  <1>6. Mine(t)' = Mine(t)
    BY <1>2 DEF Mine
  <1>7. Tells(t)
    <2>1. CASE pc[t] = "target"
      BY <2>1 DEF TInv, Truly
    <2>2. CASE pc[t] \in {"get", "error"}
      <3>1. pack[Mine(t)] = NoReply
        BY <2>2 DEF IInv, Content
      <3> QED
        BY <3>1 DEF Tells, NoReply, NullReply
    <2> QED
      BY <1>2, <2>1, <2>2
  <1>8. Tells(t)'
    BY <1>2, <1>3, <1>4, <1>6, <1>7 DEF Tells
  <1>9. Truly(t)'
    BY <1>5, <1>8 DEF Truly
  <1>10. \A u \in Threads : Mine(u) \in heap => pack'[Mine(u)].reply = pack[Mine(u)].reply
    BY <1>4 DEF IInv, Owned
  <1> QED
    BY <1>1, <1>2, <1>9, <1>10, SilentTruly DEF ptrVars

LEMMA ReleaseTruly ==
  ASSUME IInv, TInv, NEW t \in Threads, Release(t)
  PROVE  TInv'
PROOF
  <1>1. /\ pc[t] = "release" /\ pc' = [pc EXCEPT ![t] = "return"]
        /\ UNCHANGED <<store, op, packVars, doneVars, ptrVars, histVars>>
    BY DEF Release, Goto
  <1>2. pc'[t] = "return"
    BY <1>1 DEF IInv, Types, ThreadTypes
  <1>3. Tells(t)'
    BY <1>1 DEF TInv, Truly, Tells, Mine, packVars, histVars
  <1>4. Truly(t)'
    BY <1>2, <1>3 DEF Truly
  <1> QED
    BY <1>1, <1>4, SilentTruly DEF packVars, ptrVars, histVars

LEMMA HandedTruly ==
  ASSUME IInv, TInv, NEW t \in Threads, ReturnTemp(t) \/ AssignReply(t)
  PROVE  TInv'
PROOF
  <1>1. PICK label \in {"assign", "returned"}, x \in Places, y \in Places :
          pc' = [pc EXCEPT ![t] = label] /\ Ptr!HandOver(<<t, x>>, <<t, y>>)
    BY DEF ReturnTemp, AssignReply, Goto, Places
  <1>2. pc[t] \in {"return", "assign"} /\ UNCHANGED <<store, op, packVars, doneVars, histVars>>
    BY DEF ReturnTemp, AssignReply, same
  <1>3. pc'[t] = label
    BY <1>1 DEF IInv, Types, ThreadTypes
  <1>4. \A u \in Threads : u # t => ptr'[<<u, "reply">>] = ptr[<<u, "reply">>]
    <2>1. \A u \in Threads : u # t => <<u, "reply">> # <<t, x>> /\ <<u, "reply">> # <<t, y>>
                                       /\ <<u, "reply">> \in Pointers
      BY DEF Pointers, Places
    <2> QED
      BY <1>1, <2>1 DEF IInv, Owned, Ptr!HandOver
  <1>5. Tells(t)'
    BY <1>2 DEF TInv, Truly, Tells, Mine, packVars, histVars
  <1>6. Truly(t)'
    BY <1>3, <1>5 DEF Truly
  <1> QED
    BY <1>1, <1>2, <1>4, <1>6, SilentTruly DEF packVars, histVars

LEMMA AnswerTruly ==
  ASSUME IInv, TInv, NEW t \in Threads, Answer(t)
  PROVE  TInv'
PROOF
  <1> DEFINE st == IF At(t, "reply") = NoPack THEN "CONFIG_ERR"
                   ELSE reply2status(ReplyOf(t), pack[At(t, "reply")].info.err)
  <1>1. /\ pc[t] = "returned" /\ pc' = [pc EXCEPT ![t] = "answered"]
        /\ status' = [status EXCEPT ![t] = st]
        /\ out' = [out EXCEPT ![t] = Out(op[t], ReplyOf(t), st)]
        /\ UNCHANGED <<store, op, packVars, ptrVars, histVars>>
    BY DEF Answer, Goto
  <1>2. st \in Statuses
    BY DEF reply2status, Statuses
  <1>3. ASSUME ok(st)
        PROVE  Out(op[t], ReplyOf(t), st) = truth[t]
    <2>1. At(t, "reply") # NoPack
      BY <1>3 DEF ok
    <2>2. At(t, "reply") = Mine(t) /\ Tells(t)
      BY <1>1, <2>1, MineAllocated DEF TInv, Truly
    <2>3. ReplyOf(t) = pack[Mine(t)].reply
      BY <2>1, <2>2 DEF ReplyOf
    <2>4. ReplyOf(t).type \notin {"null", "error"}
      BY <1>3, <2>1 DEF ok, reply2status
    <2> HIDE DEF st
    <2> QED
      BY <1>2, <1>3, <2>2, <2>3, <2>4 DEF Tells
  <1> HIDE DEF st
  <1>4. /\ pc'[t] = "answered" /\ status'[t] = st /\ out'[t] = Out(op[t], ReplyOf(t), st)
        /\ \A u \in Threads : u # t => pc'[u] = pc[u] /\ status'[u] = status[u] /\ out'[u] = out[u]
        /\ truth' = truth
    BY <1>1 DEF IInv, Types, ThreadTypes, TInv, AnswerTypes, histVars
  <1>5. Truly(t)'
    BY <1>3, <1>4 DEF Truly
  <1>6. ASSUME NEW u \in Threads, u # t
        PROVE  Truly(u)'
    BY <1>1, <1>4, <1>6, TrulyElsewhere DEF TInv, packVars, ptrVars
  <1>7. StoreTyped' /\ AnswerTypes'
    BY <1>1, <1>4 DEF TInv, StoreTyped, AnswerTypes
  <1> QED
    BY <1>5, <1>6, <1>7 DEF TInv

LEMMA ReturnTruly ==
  ASSUME IInv, TInv, NEW t \in Threads, Return(t)
  PROVE  TInv'
PROOF
  <1>1. /\ pc[t] = "answered" /\ Ptr!Destroy(<<t, "reply">>)
        /\ pack' = [p \in Packs |-> IF p \in heap' THEN pack[p] ELSE NoReply]
        /\ pc' = [pc EXCEPT ![t] = "idle"]
        /\ status' = [status EXCEPT ![t] = "ok"] /\ out' = [out EXCEPT ![t] = NoOut]
        /\ truth' = [truth EXCEPT ![t] = NoTruth]
        /\ UNCHANGED <<store, op, number>>
    BY DEF Return, Goto
  <1>2. /\ pc'[t] = "idle" /\ \A u \in Threads : u # t => pc'[u] = pc[u]
        /\ \A u \in Threads : u # t => /\ status'[u] = status[u] /\ out'[u] = out[u]
                                       /\ truth'[u] = truth[u]
    BY <1>1 DEF IInv, Types, ThreadTypes, TInv, AnswerTypes
  <1>3. /\ heap' = heap \ {At(t, "reply")}
        /\ \A u \in Threads : u # t => ptr'[<<u, "reply">>] = ptr[<<u, "reply">>]
    <2>1. \A u \in Threads : <<u, "reply">> \in Pointers
      BY DEF Pointers, Places
    <2> QED
      BY <1>1, <2>1 DEF Ptr!Destroy, At, IInv, Owned
  <1>4. ASSUME NEW u \in Threads, u # t
        PROVE  Truly(u)'
    <2>1. ASSUME Mine(u) \in heap
          PROVE  pack'[Mine(u)] = pack[Mine(u)]
      <3>1. Mine(u) \in Packs /\ Mine(u) # NoPack
        BY <2>1, NoPackIsNone DEF IInv, Owned
      <3>2. "reply" \in Places
        BY DEF Places
      <3>3. Mine(u) # At(t, "reply")
        BY <1>4, <3>1, <3>2, Apart
      <3> QED
        BY <1>1, <1>3, <2>1, <3>1, <3>3
    <2> QED
      BY <1>1, <1>2, <1>3, <1>4, <2>1, TrulyElsewhere DEF TInv
  <1>5. Truly(t)'
    BY <1>2 DEF Truly
  <1>6. StoreTyped' /\ AnswerTypes'
    BY <1>1 DEF TInv, StoreTyped, AnswerTypes
  <1> QED
    BY <1>4, <1>5, <1>6 DEF TInv

LEMMA KeepTruly ==
  ASSUME IInv, TInv, NEW t \in Threads, Keep(t)
  PROVE  TInv'
PROOF
  <1>1. /\ pc[t] = "answered"
        /\ UNCHANGED <<store, op, packVars, doneVars, histVars, pc>>
        /\ UNCHANGED <<heap, ptr>> \/ Ptr!HandOver(<<t, "spare">>, <<t, "reply">>)
    BY DEF Keep, Ptr!Assign, same
  <1>2. \A u \in Threads : u # t => ptr'[<<u, "reply">>] = ptr[<<u, "reply">>]
    <2>1. \A u \in Threads : <<u, "reply">> \in Pointers /\ <<u, "reply">> # <<t, "spare">>
                             /\ (u # t => <<u, "reply">> # <<t, "reply">>)
      BY DEF Pointers, Places
    <2> QED
      BY <1>1, <2>1 DEF IInv, Owned, Ptr!HandOver
  <1>3. ASSUME NEW u \in Threads, u # t
        PROVE  Truly(u)'
    BY <1>1, <1>2, <1>3, TrulyElsewhere DEF TInv, packVars, doneVars, histVars
  <1>4. Truly(t)'
    BY <1>1 DEF TInv, Truly, doneVars, histVars
  <1>5. StoreTyped' /\ AnswerTypes'
    BY <1>1 DEF TInv, StoreTyped, AnswerTypes, doneVars, histVars
  <1> QED
    BY <1>3, <1>4, <1>5 DEF TInv

-----------------------------------------------------------------------------
(* The theorems about answers.                                               *)

LEMMA InitTruly == Init => TInv
PROOF
  <1> SUFFICES ASSUME Init PROVE TInv
    OBVIOUS
  <1>1. DOMAIN <<>> = {} /\ IsFiniteSet({})
    BY FS_EmptySet
  <1>2. MapOK(<<>>)
    BY <1>1 DEF MapOK
  <1>3. StoreTyped /\ AnswerTypes
    BY <1>2 DEF Init, StoreTyped, AnswerTypes
  <1>4. \A t \in Threads : Truly(t)
    BY DEF Init, Truly
  <1> QED
    BY <1>3, <1>4 DEF TInv

LEMMA NextTruly == IInv /\ TInv /\ [Next]_vars => TInv'
PROOF
  <1> SUFFICES ASSUME IInv, TInv, [Next]_vars PROVE TInv'
    OBVIOUS
  <1>1. ASSUME UNCHANGED <<store, pc, op, packVars, doneVars, ptrVars, histVars>>
        PROVE  TInv'
    <2>1. \A u \in Threads : Truly(u)'
      BY <1>1, TrulyElsewhere DEF TInv, packVars, doneVars, ptrVars, histVars
    <2>2. StoreTyped' /\ AnswerTypes'
      BY <1>1 DEF TInv, StoreTyped, AnswerTypes, doneVars, histVars
    <2> QED
      BY <2>1, <2>2 DEF TInv
  <1>2. CASE UNCHANGED vars
    BY <1>1, <1>2 DEF vars
  <1>3. ASSUME NEW s \in Socks, ConnectFree(s)
        PROVE  TInv'
    BY <1>1, <1>3 DEF ConnectFree
  <1>4. ASSUME NEW t \in Threads, Reconnect(t) \/ RetryFails(t)
        PROVE  TInv'
    <2>1. PICK e : Null(t, e)
      BY <1>4 DEF Reconnect, RetryFails
    <2>2. /\ pc[t] \in {"first", "retry"} /\ UNCHANGED <<op, packVars, doneVars, ptrVars>>
          /\ \E label \in {"retry", "error"} : pc' = [pc EXCEPT ![t] = label]
      BY <1>4 DEF Reconnect, RetryFails, Goto
    <2> QED
      BY <2>1, <2>2, NullTruly
  <1>5. ASSUME NEW t \in Threads, Step(t)
        PROVE  TInv'
    BY <1>4, <1>5, CallTruly, GetSocketTruly, InfoTruly, RepliesTruly, ReleaseTruly,
       HandedTruly, AnswerTruly, ReturnTruly, KeepTruly DEF Step
  <1> QED
    BY <1>2, <1>3, <1>5 DEF Next

LEMMA AnswerInvariant == Spec => [](IInv /\ TInv)
PROOF
  BY InitInvariant, NextInvariant, InitTruly, NextTruly, PTL DEF Spec

\* For every set of typed calls, of threads, sockets and hosts: when the status
\* of a call is ok, a server has carried it out, and what the caller is handed
\* is what the database held then: each value under its own name, the members
\* in order, the right count; and the database holds names and values only
\* (RedisClientYaf.cpp:483-1308).
THEOREM AnswersAreTrue == Spec => []AnswersTrue
PROOF
  <1>1. IInv /\ TInv => AnswersTrue
    BY DEF TInv, Truly, StoreTyped, MapOK, StoreOK, AnswersTrue
  <1> QED
    BY <1>1, AnswerInvariant, PTL

\* The database changes only when a server carries out the call of a thread
\* that is at its first or its second attempt, and by what that call means: the
\* arguments of each command arrive as the command takes them.
THEOREM ChangesAreCalls == Spec => StoreByCalls
PROOF
  <1> DEFINE Changes == store' # store =>
               \E t \in Threads :
                 /\ pc[t] \in {"first", "retry"}
                 /\ store' = [store EXCEPT ![Kind(op[t].cmd)] = Effect(op[t], @)]
  <1>1. ASSUME IInv, TInv, Next, store' # store
        PROVE  \E t \in Threads :
                 /\ pc[t] \in {"first", "retry"}
                 /\ store' = [store EXCEPT ![Kind(op[t].cmd)] = Effect(op[t], @)]
    <2>1. ~ \E s \in Socks : ConnectFree(s)
      BY <1>1 DEF ConnectFree
    <2>2. PICK t \in Threads : Step(t)
      BY <1>1, <2>1 DEF Next
    <2>3. Replies(t) \/ Reconnect(t) \/ RetryFails(t)
      BY <1>1, <2>2 DEF Step, Call, CallUnconfigured, GetSocket, NoSocket, SetTarget, SetError,
                        Release, ReturnTemp, AssignReply, Answer, Return, Keep, same
    <2>4. pc[t] \in {"first", "retry"} /\ Execute(t)
      BY <1>1, <2>3 DEF Replies, Reconnect, RetryFails, Null
    <2>5. store' = [store EXCEPT ![Kind(op[t].cmd)] = Effect(op[t], @)]
      BY <1>1, <2>4, ExecuteIs DEF TInv
    <2> QED
      BY <2>4, <2>5
  <1>2. IInv /\ TInv /\ [Next]_vars => [Changes]_vars
    BY <1>1
  <1>3. Spec => [][Changes]_vars
    BY <1>2, AnswerInvariant, PTL DEF Spec
  <1> QED
    BY <1>3 DEF StoreByCalls

=============================================================================
