---------------------------- MODULE PoolRegistry ----------------------------
(***************************************************************************)
(* Which pool a client uses: ramcloud::Config, RedisClientPtr and Client   *)
(* of RedisClientYaf.cpp.                                                  *)
(*                                                                         *)
(* Config keeps, per database, its configuration (metaMap, under           *)
(* metaMutex) and, once it has been asked for, its pool (instMap, under    *)
(* instMutex).  Every command of a Client looks its pool up anew; a        *)
(* watcher of the framework adds configurations and, as servers come and   *)
(* go, changes their endpoints and throws the pools made from them away.   *)
(* Pools are counted references: the last RedisClientPtr destroys its pool.*)
(*                                                                         *)
(* One action is one critical section, or one access to a member of the    *)
(* Client outside of any.  The two words of a RedisClientPtr are read and  *)
(* written together.  Null pointers are not counted.                       *)
(*                                                                         *)
(* A definition under the comment "Fault:" is used nowhere: it is a        *)
(* plausible mistake in the code that the properties are known to notice.  *)
(***************************************************************************)
EXTENDS Integers, FiniteSets

CONSTANTS
  Threads, Clients, Dbs, Servers,
  Pools,             \* cells a RedisClient can live in
  ClientOf,          \* thread -> the Client object it uses
  DbOf,              \* Client -> its dbname
  Watched,           \* the databases whose s2sname and groupId are the servers'
  Watcher,           \* the thread of the framework that calls the watcher
  NoProc, NoPool,
  MaxCalls,          \* bound: commands each thread sends
  MaxEvents          \* bound: calls of the watcher

ASSUME RegistryAssumption ==
  /\ ClientOf \in [Threads -> Clients] /\ DbOf \in [Clients -> Dbs]
  /\ Watched \subseteq Dbs
  /\ Watcher \notin Threads /\ NoProc \notin Threads \cup {Watcher}
  /\ NoPool \notin Pools
  /\ IsFiniteSet(Threads) /\ IsFiniteSet(Clients) /\ IsFiniteSet(Dbs)
  /\ MaxCalls \in Nat /\ MaxEvents \in Nat

VARIABLES
  metaMap,           \* the endpoints configured for each database that is known
  instMap,           \* database -> its pool
  metaMutex, instMutex,
  live, rc,          \* the allocated pools, and their reference counts
  endpoints,         \* pool -> the endpoints it was created with
  client,            \* Client -> the pool its member "client" points to
  pc, calls,         \* thread -> where it is, its calls so far
  meta,              \* thread -> its copy of the configuration
  temp, old, used,   \* thread -> the pool looked up, replaced, in use
  watch, event,      \* the watcher: in which event it is
  todo, deleting,    \* the databases of its loop, and the one at hand
  events,
  overtaken          \* history: where the last change overtook a lookup

countVars == <<live, rc>>
mutexVars == <<metaMutex, instMutex>>
callVars  == <<client, calls, meta, temp, old, used>>
watchVars == <<watch, event, todo, deleting, events, overtaken>>
vars == <<metaMap, instMap, mutexVars, countVars, endpoints, pc, callVars,
          watchVars>>

NoEvent == <<"none", NoProc>>
Db(t) == DbOf[ClientOf[t]]
Goto(t, label) == pc' = [pc EXCEPT ![t] = label]

\* A copy of a RedisClientPtr to p, and its destruction.
AddRef(p) ==
  /\ rc' = [rc EXCEPT ![p] = @ + 1]
  /\ UNCHANGED live

Release(p) ==
  IF p = NoPool
  THEN UNCHANGED countVars
  ELSE /\ rc' = [rc EXCEPT ![p] = @ - 1]
       /\ live' = IF rc[p] = 1 THEN live \ {p} ELSE live
-----------------------------------------------------------------------------
(* Config::getRedisClient, called by each command.                          *)

StartCall(t) ==
  /\ pc[t] = "idle" /\ calls[t] < MaxCalls
  /\ calls' = [calls EXCEPT ![t] = @ + 1]
  /\ Goto(t, "find")
  /\ UNCHANGED <<metaMap, instMap, mutexVars, countVars, endpoints, client, meta,
                 temp, old, used, watchVars>>

Found(t) ==
  /\ instMap[Db(t)] # NoPool
  /\ AddRef(instMap[Db(t)])
  /\ temp' = [temp EXCEPT ![t] = instMap[Db(t)]]
  /\ Goto(t, "assign")

\* Fault: the pool that is found is returned as a bare pointer.
FindInstUncounted(t) ==
  /\ pc[t] = "find" /\ instMutex = NoProc
  /\ IF instMap[Db(t)] = NoPool
     THEN Goto(t, "meta") /\ UNCHANGED temp
     ELSE /\ temp' = [temp EXCEPT ![t] = instMap[Db(t)]]
          /\ Goto(t, "assign")
  /\ UNCHANGED <<metaMap, instMap, mutexVars, countVars, endpoints, client, calls,
                 meta, old, used, watchVars>>

\* Fault: one lock is held over the whole lookup.
FindInstKeepsLock(t) ==
  /\ pc[t] = "find" /\ instMutex = NoProc
  /\ \/ Found(t) /\ UNCHANGED instMutex
     \/ /\ instMap[Db(t)] = NoPool
        /\ instMutex' = t
        /\ Goto(t, "meta")
        /\ UNCHANGED <<countVars, temp>>
  /\ UNCHANGED <<metaMap, instMap, metaMutex, endpoints, client, calls, meta, old,
                 used, watchVars>>

FindInst(t) ==
  /\ pc[t] = "find" /\ instMutex = NoProc
  /\ \/ Found(t)
     \/ /\ instMap[Db(t)] = NoPool
        /\ Goto(t, "meta")
        /\ UNCHANGED <<countVars, temp>>
  /\ UNCHANGED <<metaMap, instMap, mutexVars, endpoints, client, calls, meta, old,
                 used, watchVars>>

\* Copy the configuration, if there is one.
FindMeta(t) ==
  /\ pc[t] = "meta" /\ metaMutex = NoProc
  /\ IF Db(t) \in DOMAIN metaMap
     THEN /\ meta' = [meta EXCEPT ![t] = metaMap[Db(t)]]
          /\ Goto(t, "create")
     ELSE Goto(t, "assign") /\ UNCHANGED meta
  /\ UNCHANGED <<metaMap, instMap, mutexVars, countVars, endpoints, client, calls,
                 temp, old, used, watchVars>>

LockInst(t) ==
  /\ pc[t] = "create" /\ instMutex = NoProc
  /\ instMutex' = t
  /\ Goto(t, "creating")
  /\ UNCHANGED <<metaMap, instMap, metaMutex, countVars, endpoints, callVars,
                 watchVars>>

UnlockInst(t) == instMutex' = NoProc /\ meta' = [meta EXCEPT ![t] = {}]

\* Another thread has created the pool meanwhile.
CreateFinds(t) ==
  /\ pc[t] = "creating"
  /\ Found(t)
  /\ UnlockInst(t)
  /\ UNCHANGED <<metaMap, instMap, metaMutex, endpoints, client, calls, old, used,
                 watchVars>>

\* Fault: the map is not searched again under the lock.
CreatePoolAgain(t) ==
  /\ pc[t] = "creating" /\ meta[t] # {}
  /\ \E p \in Pools \ live :
       /\ live' = live \cup {p}
       /\ rc' = [rc EXCEPT ![p] = 2]
       /\ endpoints' = [endpoints EXCEPT ![p] = meta[t]]
       /\ instMap' = [instMap EXCEPT ![Db(t)] = p]
       /\ temp' = [temp EXCEPT ![t] = p]
  /\ UnlockInst(t)
  /\ Goto(t, "assign")
  /\ UNCHANGED <<metaMap, metaMutex, client, calls, old, used, watchVars>>

\* The new pool is referenced by the map and by the caller.
CreatePool(t) ==
  /\ pc[t] = "creating" /\ instMap[Db(t)] = NoPool /\ meta[t] # {}
  /\ \E p \in Pools \ live :
       /\ live' = live \cup {p}
       /\ rc' = [rc EXCEPT ![p] = 2]
       /\ endpoints' = [endpoints EXCEPT ![p] = meta[t]]
       /\ instMap' = [instMap EXCEPT ![Db(t)] = p]
       /\ temp' = [temp EXCEPT ![t] = p]
  /\ UnlockInst(t)
  /\ Goto(t, "assign")
  /\ UNCHANGED <<metaMap, metaMutex, client, calls, old, used, watchVars>>

\* Fault: the exception leaves the critical section without the unlock.
CreateThrowsLocked(t) ==
  /\ pc[t] = "creating" /\ instMap[Db(t)] = NoPool
  /\ meta' = [meta EXCEPT ![t] = {}]
  /\ Goto(t, "assign")
  /\ UNCHANGED <<metaMap, instMap, mutexVars, countVars, endpoints, client, calls,
                 temp, old, used, watchVars>>

\* redis_pool_create refuses, always when there is no endpoint: the exception
\* is caught, the caller gets a null pointer.
CreateThrows(t) ==
  /\ pc[t] = "creating" /\ instMap[Db(t)] = NoPool
  /\ UnlockInst(t)
  /\ Goto(t, "assign")
  /\ UNCHANGED <<metaMap, instMap, metaMutex, countVars, endpoints, client, calls,
                 temp, old, used, watchVars>>
-----------------------------------------------------------------------------
(* Client::_init and the command.  The member "client" is not locked.       *)

\* client = the result: operator= swaps, and drops what was there before.
ReadOld(t) ==
  /\ pc[t] = "assign"
  /\ old' = [old EXCEPT ![t] = client[ClientOf[t]]]
  /\ Goto(t, "swap")
  /\ UNCHANGED <<metaMap, instMap, mutexVars, countVars, endpoints, client, calls,
                 meta, temp, used, watchVars>>

WriteNew(t) ==
  /\ pc[t] = "swap"
  /\ client' = [client EXCEPT ![ClientOf[t]] = temp[t]]
  /\ temp' = [temp EXCEPT ![t] = NoPool]
  /\ Goto(t, "drop")
  /\ UNCHANGED <<metaMap, instMap, mutexVars, countVars, endpoints, calls, meta,
                 old, used, watchVars>>

DropOld(t) ==
  /\ pc[t] = "drop"
  /\ Release(old[t])
  /\ old' = [old EXCEPT ![t] = NoPool]
  /\ Goto(t, "run")
  /\ UNCHANGED <<metaMap, instMap, mutexVars, endpoints, client, calls, meta, temp,
                 used, watchVars>>

\* The command runs on the pool, through the bare pointer.
Run(t) ==
  /\ pc[t] = "run" /\ client[ClientOf[t]] # NoPool
  /\ used' = [used EXCEPT ![t] = client[ClientOf[t]]]
  /\ Goto(t, "running")
  /\ UNCHANGED <<metaMap, instMap, mutexVars, countVars, endpoints, client, calls,
                 meta, temp, old, watchVars>>

RunFails(t) ==
  /\ pc[t] = "run" /\ client[ClientOf[t]] = NoPool
  /\ Goto(t, "idle")
  /\ UNCHANGED <<metaMap, instMap, mutexVars, countVars, endpoints, callVars,
                 watchVars>>

RunEnds(t) ==
  /\ pc[t] = "running"
  /\ used' = [used EXCEPT ![t] = NoPool]
  /\ Goto(t, "idle")
  /\ UNCHANGED <<metaMap, instMap, mutexVars, countVars, endpoints, client, calls,
                 meta, temp, old, watchVars>>

\* Client::~Client, once no thread uses the object any more.
ClientDies(c) ==
  /\ \A t \in Threads : ClientOf[t] = c => pc[t] = "idle"
  /\ Release(client[c])
  /\ client' = [client EXCEPT ![c] = NoPool]
  /\ pc' = [t \in Threads |-> IF ClientOf[t] = c THEN "gone" ELSE pc[t]]
  /\ UNCHANGED <<metaMap, instMap, mutexVars, endpoints, calls, meta, temp, old,
                 used, watchVars>>
-----------------------------------------------------------------------------
(* The watcher.                                                             *)

\* MapValuesConfigUpdate, one database of it: addMeta takes a new one and
\* refuses one it has, whatever its endpoints.
AddMeta(db, servers) ==
  /\ watch = "idle" /\ events < MaxEvents /\ metaMutex = NoProc
  /\ events' = events + 1
  /\ metaMap' = [d \in DOMAIN metaMap \cup {db} |->
                   IF d \in DOMAIN metaMap THEN metaMap[d] ELSE servers]
  /\ UNCHANGED <<instMap, mutexVars, countVars, endpoints, pc, callVars, watch,
                 event, todo, deleting, overtaken>>

\* onAddServer and onRemoveServer hold metaMutex over their whole loop.
OnServer(what, server) ==
  /\ watch = "idle" /\ events < MaxEvents /\ metaMutex = NoProc
  /\ events' = events + 1
  /\ metaMutex' = Watcher
  /\ event' = <<what, server>>
  /\ todo' = Watched \cap DOMAIN metaMap
  /\ watch' = "loop"
  /\ UNCHANGED <<metaMap, instMap, instMutex, countVars, endpoints, pc, callVars,
                 deleting, overtaken>>

\* A thread has copied the configuration of db and not used it yet.
LookingUp(db) == \E t \in Threads : pc[t] \in {"create", "creating"} /\ Db(t) = db

UpdateMeta(db) ==
  /\ watch = "loop" /\ db \in todo /\ deleting = {}
  /\ metaMap' = [metaMap EXCEPT ![db] =
                   IF event[1] = "add" THEN @ \cup {event[2]} ELSE @ \ {event[2]}]
  /\ deleting' = {db}
  /\ overtaken' = IF LookingUp(db) THEN overtaken \cup {db} ELSE overtaken \ {db}
  /\ UNCHANGED <<instMap, mutexVars, countVars, endpoints, pc, callVars, watch,
                 event, todo, events>>

\* Fault: the pool is destroyed, whoever has a pointer to it.
DeleteInstDestroys(db) ==
  /\ db \in deleting /\ instMutex = NoProc
  /\ live' = live \ {instMap[db]}
  /\ instMap' = [instMap EXCEPT ![db] = NoPool]
  /\ deleting' = {} /\ todo' = todo \ {db}
  /\ UNCHANGED <<metaMap, mutexVars, rc, endpoints, pc, callVars, watch, event,
                 events, overtaken>>

\* Fault: the pool made from the old configuration stays.
DeleteInstForgotten(db) ==
  /\ db \in deleting /\ instMutex = NoProc
  /\ deleting' = {} /\ todo' = todo \ {db}
  /\ UNCHANGED <<metaMap, instMap, mutexVars, countVars, endpoints, pc, callVars,
                 watch, event, events, overtaken>>

DeleteInst(db) ==
  /\ db \in deleting /\ instMutex = NoProc
  /\ Release(instMap[db])
  /\ instMap' = [instMap EXCEPT ![db] = NoPool]
  /\ deleting' = {} /\ todo' = todo \ {db}
  /\ UNCHANGED <<metaMap, mutexVars, endpoints, pc, callVars, watch, event,
                 events, overtaken>>

ServerDone ==
  /\ watch = "loop" /\ todo = {}
  /\ metaMutex' = NoProc
  /\ watch' = "idle" /\ event' = NoEvent
  /\ UNCHANGED <<metaMap, instMap, instMutex, countVars, endpoints, pc, callVars,
                 todo, deleting, events, overtaken>>

\* Config::~Config, when the process ends.
ConfigDies ==
  /\ watch = "idle" /\ \A t \in Threads : pc[t] = "gone"
  /\ rc' = [p \in Pools |-> rc[p] - Cardinality({db \in Dbs : instMap[db] = p})]
  /\ live' = {p \in live : rc'[p] > 0}
  /\ instMap' = [db \in Dbs |-> NoPool]
  /\ metaMap' = [db \in {} |-> {}]
  /\ watch' = "gone"
  /\ UNCHANGED <<mutexVars, endpoints, pc, callVars, event, todo, deleting,
                 events, overtaken>>

Ended == watch = "gone" /\ UNCHANGED vars
-----------------------------------------------------------------------------
Init ==
  /\ metaMap = [db \in {} |-> {}]
  /\ instMap = [db \in Dbs |-> NoPool]
  /\ metaMutex = NoProc /\ instMutex = NoProc
  /\ live = {} /\ rc = [p \in Pools |-> 0]
  /\ endpoints = [p \in Pools |-> {}]
  /\ client = [c \in Clients |-> NoPool]
  /\ pc = [t \in Threads |-> "idle"]
  /\ calls = [t \in Threads |-> 0]
  /\ meta = [t \in Threads |-> {}]
  /\ temp = [t \in Threads |-> NoPool]
  /\ old = [t \in Threads |-> NoPool]
  /\ used = [t \in Threads |-> NoPool]
  /\ watch = "idle" /\ event = NoEvent
  /\ todo = {} /\ deleting = {}
  /\ events = 0 /\ overtaken = {}

CallStep(t) ==
  \/ FindInst(t) \/ FindMeta(t)
  \/ LockInst(t) \/ CreateFinds(t) \/ CreatePool(t) \/ CreateThrows(t)
  \/ ReadOld(t) \/ WriteNew(t) \/ DropOld(t)
  \/ Run(t) \/ RunFails(t) \/ RunEnds(t)

WatchStep == (\E db \in Dbs : UpdateMeta(db) \/ DeleteInst(db)) \/ ServerDone

Next ==
  \/ \E t \in Threads : StartCall(t) \/ CallStep(t)
  \/ \E c \in Clients : ClientDies(c)
  \/ \E db \in Dbs, servers \in SUBSET Servers : AddMeta(db, servers)
  \/ \E what \in {"add", "remove"}, server \in Servers : OnServer(what, server)
  \/ WatchStep
  \/ ConfigDies
  \/ Ended

\* A thread and the watcher, once called, are scheduled again and again.
Fairness == WF_vars(WatchStep) /\ \A t \in Threads : WF_vars(CallStep(t))

Spec == Init /\ [][Next]_vars /\ Fairness
-----------------------------------------------------------------------------
(* Properties.                                                              *)

PoolPtr == Pools \cup {NoPool}
Labels == {"idle", "find", "meta", "create", "creating", "assign", "swap", "drop",
           "run", "running", "gone"}

MapType ==
  /\ DOMAIN metaMap \subseteq Dbs /\ metaMap \in [DOMAIN metaMap -> SUBSET Servers]
  /\ instMap \in [Dbs -> PoolPtr]
  /\ endpoints \in [Pools -> SUBSET Servers]

CountType == live \in SUBSET Pools /\ rc \in [Pools -> Nat]

CallType ==
  /\ client \in [Clients -> PoolPtr]
  /\ pc \in [Threads -> Labels] /\ calls \in [Threads -> 0 .. MaxCalls]
  /\ meta \in [Threads -> SUBSET Servers]
  /\ temp \in [Threads -> PoolPtr]
  /\ old \in [Threads -> PoolPtr] /\ used \in [Threads -> PoolPtr]

WatchType ==
  /\ watch \in {"idle", "loop", "gone"}
  /\ todo \in SUBSET Dbs /\ deleting \in SUBSET todo
  /\ events \in 0 .. MaxEvents /\ overtaken \in SUBSET Dbs

\* Each mutex is locked exactly while its holder is in a critical section that
\* spans several steps, also after an exception.
MutexesHeld ==
  /\ metaMutex = IF watch = "loop" THEN Watcher ELSE NoProc
  /\ instMutex \in Threads \cup {NoProc}
  /\ \A t \in Threads : instMutex = t <=> pc[t] = "creating"

\* Types, and who holds the mutexes.
TypeOK == MapType /\ CountType /\ CallType /\ WatchType /\ MutexesHeld

\* The RedisClientPtr objects that point to p: in the map, in the Clients, and
\* the temporary ones.  While operator= runs, what it swapped out is in "old".
Refs(p) ==
  Cardinality({db \in Dbs : instMap[db] = p})
  + Cardinality({c \in Clients : client[c] = p})
  + Cardinality({t \in Threads : temp[t] = p})
  + Cardinality({t \in Threads : pc[t] = "drop" /\ old[t] = p})

\* A pool counts its references exactly and is destroyed with the last one: a
\* pool that servers' changes have replaced lives on until the last Client has
\* looked up its successor, and no longer.
RefsExact ==
  \A p \in Pools : IF p \in live THEN rc[p] = Refs(p) /\ rc[p] > 0
                                 ELSE rc[p] = 0 /\ Refs(p) = 0

\* "Thread-safe" (RedisClientYaf.h, on class Client): the pool a command runs on
\* is not destroyed before the command returns.
UsedIsLive == \A t \in Threads : used[t] # NoPool => used[t] \in live

\* However many threads find no pool at once, only one of them creates it: a
\* database's pool is taken out of the map by the watcher, and by nobody else.
ReplacedByWatcher ==
  [][\A db \in Dbs : instMap[db] # NoPool /\ instMap'[db] # instMap[db]
       => metaMutex = Watcher \/ watch' = "gone"]_vars

\* Clients get pools for the endpoints that are configured, but for one case: a
\* change came between the copy of the configuration and the creation of the
\* pool from it.  Then the stale pool stays until the next change.
StaleIfOvertaken ==
  \A db \in Dbs :
    instMap[db] # NoPool /\ watch = "idle" /\ endpoints[instMap[db]] # metaMap[db]
      => db \in overtaken

\* Every command and every call of the watcher returns: those who take both
\* mutexes take metaMutex first.
CallsReturn ==
  /\ \A t \in Threads : pc[t] = "find" ~> pc[t] = "idle"
  /\ watch = "loop" ~> watch = "idle"
=============================================================================
