------------------------------ MODULE RedisPool ------------------------------
(***************************************************************************)
(* The connection pool of hiredispool.c, used by several threads at once.  *)
(*                                                                         *)
(* A main thread creates the pool (redis_pool_create) and destroys it when *)
(* the workers are through (redis_pool_destroy).  Each worker repeats what *)
(* RedisClient::redisvCommand does: lease a socket, run one command on it  *)
(* with a reconnect and a single retry, give the socket back.              *)
(*                                                                         *)
(* One action is one access to memory the threads share: the trylock, the  *)
(* reading of connect_after, its writing, the writing of last_used, the    *)
(* unlock.  What a thread does alone, under a socket's mutex, is part of   *)
(* the action that follows or precedes it.                                 *)
(*                                                                         *)
(* A context of hiredis is a cell of a small heap, Contexts: "live" holds  *)
(* the allocated ones, and a freed cell may be allocated again, as malloc  *)
(* does.  Whether an endpoint accepts a connection, and whether a command  *)
(* gets its reply, is the choice of the environment.                       *)
(*                                                                         *)
(* A definition under the comment "Fault:" is used nowhere: it is a        *)
(* plausible mistake in the code that the properties are known to notice.  *)
(***************************************************************************)
EXTENDS Integers, FiniteSets

CONSTANTS
  Threads,          \* the workers
  Main,             \* the thread that creates and destroys the pool
  NoProc,           \* the owner of an unlocked mutex
  Contexts,         \* cells a redisContext can live in
  NoCtx,            \* the null redisContext pointer
  NumSocks,         \* config->num_redis_socks
  NumEndpoints,     \* config->num_endpoints
  connect_failure_retry_delay,   \* as the caller configured it, in seconds
  ConnectAtInit,    \* TRUE: hiredispool.c; FALSE: experimental/redisclient
  Reliable,         \* the endpoints that accept every connection
  MaxTime           \* bound: the clock stops there

NULL      == -1     \* the null REDIS_SOCKET pointer
Socks     == 0 .. NumSocks - 1
Endpoints == 0 .. NumEndpoints - 1
Procs     == Threads \cup {Main}

ASSUME PoolAssumption ==
  /\ Main \notin Threads /\ NoProc \notin Procs /\ NoCtx \notin Contexts
  /\ NumSocks \in Nat /\ NumEndpoints \in Nat \ {0}
  /\ connect_failure_retry_delay \in Int
  /\ ConnectAtInit \in BOOLEAN
  /\ Reliable \subseteq Endpoints
  /\ MaxTime \in Nat \ {0}

\* A delay that is not positive disables the grace period.
RetryDelay ==
  IF connect_failure_retry_delay <= 0 THEN -1 ELSE connect_failure_retry_delay

VARIABLES
  now,              \* time(NULL)
  connect_after,    \* inst->connect_after
  redis_pool,       \* inst->redis_pool, the head of the list of sockets
  last_used,        \* inst->last_used
  mutex,            \* socket -> the thread that has it locked
  inuse, state, conn, backup,    \* the other fields of each REDIS_SOCKET
  live,             \* the allocated contexts
  broken,           \* those of them with an error: hiredis refuses to use them
  peer,             \* context -> the endpoint it is connected to
  pc, cur, start,   \* where each thread is; its "cur" and "start"
  tries, ret,       \* in connect_single_socket: its "i", and who called it
  stamp,            \* the time it is about to store in connect_after
  skipped           \* history: the sockets this call has passed over

instVars == <<connect_after, redis_pool, last_used>>
sockVars == <<mutex, inuse, state, conn, backup>>
heapVars == <<live, broken, peer>>
callVars == <<start, skipped>>
connVars == <<tries, ret, stamp>>
vars == <<now, instVars, sockVars, heapVars, pc, cur, callVars, connVars>>

Goto(p, label) == pc' = [pc EXCEPT ![p] = label]
-----------------------------------------------------------------------------
(* connect_single_socket, on the socket cur[p] that only p can touch.       *)

\* Where its caller goes on, after a success and after a failure.
OnConnected == [init |-> "link", get |-> "grab", cmd |-> "retry"]
OnRefused   == [init |-> "link", get |-> "skip", cmd |-> "done"]

CallConnect(p, caller) ==
  /\ Goto(p, "connect")
  /\ ret' = [ret EXCEPT ![p] = caller]
  /\ UNCHANGED <<tries, stamp>>

\* Fault: the index is not wrapped.
NextBackupUnwrapped(s) == backup[s] + 1

NextBackup(s) == (backup[s] + 1) % NumEndpoints

\* Fault: the loop gives up one endpoint early.
LastTryEarly(p) == tries[p] + 1 >= NumEndpoints - 1

LastTry(p) == tries[p] = NumEndpoints - 1

\* The distances rand() can move the backup index after a success.
Hops == IF NumEndpoints > 1 THEN 1 .. NumEndpoints - 1 ELSE {0}

\* The endpoint at the backup index accepts.  Setting the timeout or the
\* keepalive may fail: that is logged, the context has its error set, and the
\* socket counts as connected all the same.
ConnectUp(p) ==
  LET s == cur[p] IN
  /\ pc[p] = "connect"
  /\ \E c \in Contexts \ live, hop \in Hops :
       /\ live' = live \cup {c}
       /\ broken' \in {broken, broken \cup {c}}
       /\ peer' = [peer EXCEPT ![c] = backup[s]]
       /\ conn' = [conn EXCEPT ![s] = c]
       /\ backup' = [backup EXCEPT ![s] = (backup[s] + hop) % NumEndpoints]
  /\ state' = [state EXCEPT ![s] = "sockconnected"]
  /\ tries' = [tries EXCEPT ![p] = 0]
  /\ Goto(p, OnConnected[ret[p]])
  /\ ret' = [ret EXCEPT ![p] = "none"]
  /\ UNCHANGED <<now, instVars, mutex, inuse, cur, callVars, stamp>>

\* It refuses, and there are more endpoints to try.
ConnectNext(p) ==
  LET s == cur[p] IN
  /\ pc[p] = "connect" /\ backup[s] \notin Reliable
  /\ ~LastTry(p)
  /\ backup' = [backup EXCEPT ![s] = NextBackup(s)]
  /\ tries' = [tries EXCEPT ![p] = @ + 1]
  /\ UNCHANGED <<now, instVars, mutex, inuse, state, conn, heapVars, pc, cur,
                 callVars, ret, stamp>>

\* Fault: each failure prolongs the period that is already running.
ConnectDownProlongs(p) ==
  LET s == cur[p] IN
  /\ pc[p] = "connect" /\ backup[s] \notin Reliable
  /\ LastTry(p)
  /\ conn' = [conn EXCEPT ![s] = NoCtx]
  /\ state' = [state EXCEPT ![s] = "sockunconnected"]
  /\ backup' = [backup EXCEPT ![s] = NextBackup(s)]
  /\ tries' = [tries EXCEPT ![p] = 0]
  /\ stamp' = [stamp EXCEPT ![p] = connect_after + now + RetryDelay]
  /\ Goto(p, "stamp")
  /\ UNCHANGED <<now, instVars, mutex, inuse, heapVars, cur, callVars, ret>>

\* It was the last one: the socket is unconnected; sample the clock.
ConnectDown(p) ==
  LET s == cur[p] IN
  /\ pc[p] = "connect" /\ backup[s] \notin Reliable
  /\ LastTry(p)
  /\ conn' = [conn EXCEPT ![s] = NoCtx]
  /\ state' = [state EXCEPT ![s] = "sockunconnected"]
  /\ backup' = [backup EXCEPT ![s] = NextBackup(s)]
  /\ tries' = [tries EXCEPT ![p] = 0]
  /\ stamp' = [stamp EXCEPT ![p] = now + RetryDelay]
  /\ Goto(p, "stamp")
  /\ UNCHANGED <<now, instVars, mutex, inuse, heapVars, cur, callVars, ret>>

\* Store the end of the grace period, shared by all threads and not locked.
StampGrace(p) ==
  /\ pc[p] = "stamp"
  /\ connect_after' = stamp[p]
  /\ stamp' = [stamp EXCEPT ![p] = 0]
  /\ Goto(p, OnRefused[ret[p]])
  /\ ret' = [ret EXCEPT ![p] = "none"]
  /\ UNCHANGED <<now, redis_pool, last_used, sockVars, heapVars, cur, callVars,
                 tries>>

Connect(p) == ConnectUp(p) \/ ConnectNext(p) \/ ConnectDown(p) \/ StampGrace(p)
-----------------------------------------------------------------------------
(* redis_get_socket.                                                        *)

\* Sockets are pushed on the list in the order of their ids: "next" of s is
\* s - 1, and NULL for socket 0.
next(s) == s - 1

GetStart(t) ==
  LET first == IF last_used = NULL THEN redis_pool ELSE last_used IN
  /\ pc[t] = "idle" /\ pc[Main] = "serving"
  /\ cur' = [cur EXCEPT ![t] = first]
  /\ start' = [start EXCEPT ![t] = first]
  /\ Goto(t, IF first = NULL THEN "none" ELSE "scan")
  /\ UNCHANGED <<now, instVars, sockVars, heapVars, skipped, connVars>>

\* Fault: the search ends at the end of the list and does not wrap.
AdvanceNoWrap(t) ==
  LET n == next(cur[t]) IN
  /\ cur' = [cur EXCEPT ![t] = n]
  /\ Goto(t, IF n = NULL THEN "none" ELSE "scan")
  /\ skipped' = [skipped EXCEPT ![t] = @ \cup {cur[t]}]
  /\ UNCHANGED start

\* Fault: the search does not notice that it is back at its start.
AdvanceForever(t) ==
  LET n == IF next(cur[t]) = NULL THEN redis_pool ELSE next(cur[t]) IN
  /\ cur' = [cur EXCEPT ![t] = n]
  /\ Goto(t, "scan")
  /\ skipped' = [skipped EXCEPT ![t] = @ \cup {cur[t]}]
  /\ UNCHANGED start

\* "next:": move along the circular list, stop where the search started.
Advance(t) ==
  LET n == IF next(cur[t]) = NULL THEN redis_pool ELSE next(cur[t]) IN
  /\ cur' = [cur EXCEPT ![t] = n]
  /\ Goto(t, IF n = start[t] THEN "none" ELSE "scan")
  /\ skipped' = [skipped EXCEPT ![t] = @ \cup {cur[t]}]
  /\ UNCHANGED start

Unlock(s) == mutex' = [mutex EXCEPT ![s] = NoProc]

TrylockBusy(t) ==
  /\ pc[t] = "scan" /\ mutex[cur[t]] # NoProc
  /\ Advance(t)
  /\ UNCHANGED <<now, instVars, sockVars, heapVars, connVars>>

\* Fault: the result of pthread_mutex_trylock is ignored.
TrylockIgnored(t) ==
  /\ pc[t] = "scan"
  /\ mutex' = [mutex EXCEPT ![cur[t]] = t]
  /\ Goto(t, "locked")
  /\ UNCHANGED <<now, instVars, inuse, state, conn, backup, heapVars, cur,
                 callVars, connVars>>

TrylockOk(t) ==
  /\ pc[t] = "scan" /\ mutex[cur[t]] = NoProc
  /\ mutex' = [mutex EXCEPT ![cur[t]] = t]
  /\ Goto(t, "locked")
  /\ UNCHANGED <<now, instVars, inuse, state, conn, backup, heapVars, cur,
                 callVars, connVars>>

\* Look at the socket just locked; reads connect_after if it is unconnected.
Examine(t) ==
  LET s == cur[t] IN
  /\ pc[t] = "locked"
  /\ IF inuse[s]
     THEN Unlock(s) /\ Advance(t) /\ UNCHANGED <<inuse, connVars>>
     ELSE /\ inuse' = [inuse EXCEPT ![s] = TRUE]
          /\ IF state[s] = "sockunconnected" /\ now > connect_after
             THEN CallConnect(t, "get")
             ELSE /\ Goto(t, IF state[s] = "sockconnected" THEN "grab" ELSE "skip")
                  /\ UNCHANGED connVars
          /\ UNCHANGED <<mutex, cur, callVars>>
  /\ UNCHANGED <<now, instVars, state, conn, backup, heapVars>>

\* Fault: the socket that is passed over stays marked in use.
SkipStillInUse(t) ==
  /\ pc[t] = "skip"
  /\ Unlock(cur[t])
  /\ Advance(t)
  /\ UNCHANGED <<now, instVars, inuse, state, conn, backup, heapVars, connVars>>

SkipUnconnected(t) ==
  /\ pc[t] = "skip"
  /\ inuse' = [inuse EXCEPT ![cur[t]] = FALSE]
  /\ Unlock(cur[t])
  /\ Advance(t)
  /\ UNCHANGED <<now, instVars, state, conn, backup, heapVars, connVars>>

\* Return the socket, locked; the next search starts behind it.
Grab(t) ==
  /\ pc[t] = "grab"
  /\ last_used' = next(cur[t])
  /\ start' = [start EXCEPT ![t] = NULL]
  /\ skipped' = [skipped EXCEPT ![t] = {}]
  /\ Goto(t, "held")
  /\ UNCHANGED <<now, connect_after, redis_pool, sockVars, heapVars, cur, connVars>>

\* No socket: RedisClient reports it and gives the caller a null reply.
ReturnNull(t) ==
  /\ pc[t] = "none"
  /\ cur' = [cur EXCEPT ![t] = NULL]
  /\ start' = [start EXCEPT ![t] = NULL]
  /\ skipped' = [skipped EXCEPT ![t] = {}]
  /\ Goto(t, "idle")
  /\ UNCHANGED <<now, instVars, sockVars, heapVars, connVars>>

GetSocket(t) ==
  \/ TrylockBusy(t) \/ TrylockOk(t) \/ Examine(t) \/ SkipUnconnected(t)
  \/ Grab(t) \/ ReturnNull(t)
-----------------------------------------------------------------------------
(* redis_vcommand on the leased socket, then redis_release_socket.          *)

CommandReply(t) ==
  /\ pc[t] = "held" /\ conn[cur[t]] \notin broken
  /\ Goto(t, "done")
  /\ UNCHANGED <<now, instVars, sockVars, heapVars, cur, callVars, connVars>>

\* Fault: the failed context is not freed before the reconnect.
CommandFailsLeaks(t) ==
  /\ pc[t] = "held"
  /\ CallConnect(t, "cmd")
  /\ UNCHANGED <<now, instVars, sockVars, heapVars, cur, callVars>>

\* No reply: free the context, while the socket still points to it.
CommandFails(t) ==
  /\ pc[t] = "held"
  /\ live' = live \ {conn[cur[t]]}
  /\ broken' = broken \ {conn[cur[t]]}
  /\ CallConnect(t, "cmd")
  /\ UNCHANGED <<now, instVars, sockVars, peer, cur, callVars>>

RetryReply(t) ==
  /\ pc[t] = "retry" /\ conn[cur[t]] \notin broken
  /\ Goto(t, "done")
  /\ UNCHANGED <<now, instVars, sockVars, heapVars, cur, callVars, connVars>>

\* Fault: there is no limit to the number of retries.
RetryFailsForever(t) ==
  /\ pc[t] = "retry"
  /\ live' = live \ {conn[cur[t]]}
  /\ broken' = broken \ {conn[cur[t]]}
  /\ CallConnect(t, "cmd")
  /\ UNCHANGED <<now, instVars, sockVars, peer, cur, callVars>>

\* The retry fails too: the context keeps its error until the next lease.
RetryFails(t) ==
  /\ pc[t] = "retry"
  /\ broken' = broken \cup {conn[cur[t]]}
  /\ Goto(t, "done")
  /\ UNCHANGED <<now, instVars, sockVars, live, peer, cur, callVars, connVars>>

Command(t) == CommandReply(t) \/ CommandFails(t) \/ RetryReply(t) \/ RetryFails(t)

Release(t) ==
  /\ pc[t] = "done"
  /\ inuse' = [inuse EXCEPT ![cur[t]] = FALSE]
  /\ Unlock(cur[t])
  /\ cur' = [cur EXCEPT ![t] = NULL]
  /\ Goto(t, "idle")
  /\ UNCHANGED <<now, instVars, state, conn, backup, heapVars, callVars, connVars>>
-----------------------------------------------------------------------------
(* redis_pool_create and redis_pool_destroy, by the main thread.            *)

InitSocket ==
  LET i == cur[Main] IN
  /\ pc[Main] = "init" /\ i < NumSocks
  /\ conn' = [conn EXCEPT ![i] = NoCtx]
  /\ backup' = [backup EXCEPT ![i] = i % NumEndpoints]
  /\ state' = [state EXCEPT ![i] = "sockunconnected"]
  /\ inuse' = [inuse EXCEPT ![i] = FALSE]
  /\ IF ConnectAtInit /\ now > connect_after
     THEN CallConnect(Main, "init")
     ELSE Goto(Main, "link") /\ UNCHANGED connVars
  /\ UNCHANGED <<now, instVars, mutex, heapVars, cur, callVars>>

\* pthread_mutex_init fails: give up and free what has been built.
InitFails ==
  /\ pc[Main] = "init" /\ cur[Main] < NumSocks
  /\ cur' = [cur EXCEPT ![Main] = redis_pool]
  /\ Goto(Main, "free")
  /\ UNCHANGED <<now, instVars, sockVars, heapVars, callVars, connVars>>

LinkSocket ==
  /\ pc[Main] = "link"
  /\ redis_pool' = cur[Main]
  /\ cur' = [cur EXCEPT ![Main] = @ + 1]
  /\ Goto(Main, "init")
  /\ UNCHANGED <<now, connect_after, last_used, sockVars, heapVars, callVars, connVars>>

InitDone ==
  /\ pc[Main] = "init" /\ cur[Main] = NumSocks
  /\ last_used' = NULL
  /\ cur' = [cur EXCEPT ![Main] = NULL]
  /\ Goto(Main, "serving")
  /\ UNCHANGED <<now, connect_after, redis_pool, sockVars, heapVars, callVars, connVars>>

\* The caller has joined its threads: no call is under way.
Destroy ==
  /\ pc[Main] = "serving" /\ \A t \in Threads : pc[t] = "idle"
  /\ cur' = [cur EXCEPT ![Main] = redis_pool]
  /\ Goto(Main, "free")
  /\ UNCHANGED <<now, instVars, sockVars, heapVars, callVars, connVars>>

\* redis_close_socket.  A freed socket has no fields: the model blanks them.
CloseSocket ==
  LET s == cur[Main] IN
  /\ pc[Main] = "free" /\ s # NULL
  /\ live' = IF state[s] = "sockconnected" THEN live \ {conn[s]} ELSE live
  /\ broken' = broken \cap live'
  /\ conn' = [conn EXCEPT ![s] = NoCtx]
  /\ state' = [state EXCEPT ![s] = "sockunconnected"]
  /\ cur' = [cur EXCEPT ![Main] = next(s)]
  /\ UNCHANGED <<now, instVars, mutex, inuse, backup, peer, pc, callVars, connVars>>

PoolFreed ==
  /\ pc[Main] = "free" /\ cur[Main] = NULL
  /\ redis_pool' = NULL
  /\ last_used' = NULL
  /\ Goto(Main, "gone")
  /\ UNCHANGED <<now, connect_after, sockVars, heapVars, cur, callVars, connVars>>

MainStep ==
  \/ InitSocket \/ InitFails \/ LinkSocket \/ InitDone
  \/ Destroy \/ CloseSocket \/ PoolFreed \/ Connect(Main)
-----------------------------------------------------------------------------
Init ==
  /\ now = 1 /\ connect_after = 0
  /\ redis_pool = NULL /\ last_used = NULL
  /\ mutex = [s \in Socks |-> NoProc]
  /\ inuse = [s \in Socks |-> FALSE]
  /\ state = [s \in Socks |-> "sockunconnected"]
  /\ conn = [s \in Socks |-> NoCtx]
  /\ backup = [s \in Socks |-> 0]
  /\ live = {} /\ broken = {}
  /\ peer = [c \in Contexts |-> 0]
  /\ pc = [p \in Procs |-> IF p = Main THEN "init" ELSE "idle"]
  /\ cur = [p \in Procs |-> IF p = Main THEN 0 ELSE NULL]
  /\ start = [t \in Threads |-> NULL]
  /\ tries = [p \in Procs |-> 0]
  /\ ret = [p \in Procs |-> "none"]
  /\ stamp = [p \in Procs |-> 0]
  /\ skipped = [t \in Threads |-> {}]

Tick ==
  /\ now < MaxTime
  /\ now' = now + 1
  /\ UNCHANGED <<instVars, sockVars, heapVars, pc, cur, callVars, connVars>>

\* The process goes on without the pool.
Gone == pc[Main] = "gone" /\ UNCHANGED vars

\* A call under way; only its first step is the caller's choice.
CallStep(t) == GetSocket(t) \/ Connect(t) \/ Command(t) \/ Release(t)

Next ==
  \/ \E t \in Threads : GetStart(t) \/ CallStep(t)
  \/ MainStep
  \/ Tick
  \/ Gone

\* A thread in a call is scheduled again and again; connecting and waiting for
\* a reply end by themselves, in a success or in a timeout.
Fairness == \A t \in Threads : WF_vars(CallStep(t))

Spec == Init /\ [][Next]_vars /\ Fairness
-----------------------------------------------------------------------------
(* Properties.                                                              *)

CallLabels == {"idle", "scan", "none", "locked", "connect", "stamp", "skip",
               "grab", "held", "retry", "done"}
MainLabels == {"init", "connect", "stamp", "link", "serving", "free", "gone"}

InstType ==
  /\ now \in 1 .. MaxTime
  /\ connect_after \in Int
  /\ redis_pool \in Socks \cup {NULL}
  /\ last_used \in Socks \cup {NULL}

SockType ==
  /\ mutex \in [Socks -> Threads \cup {NoProc}]
  /\ inuse \in [Socks -> BOOLEAN]
  /\ state \in [Socks -> {"sockconnected", "sockunconnected"}]
  /\ conn \in [Socks -> Contexts \cup {NoCtx}]
  /\ backup \in [Socks -> Endpoints]

HeapType ==
  /\ live \in SUBSET Contexts
  /\ broken \in SUBSET (Contexts \cup {NoCtx})
  /\ peer \in [Contexts -> Endpoints]

CallType ==
  /\ pc \in [Procs -> CallLabels \cup MainLabels]
  /\ \A t \in Threads : pc[t] \in CallLabels
  /\ pc[Main] \in MainLabels
  /\ cur \in [Procs -> Socks \cup {NULL, NumSocks}]
  /\ start \in [Threads -> Socks \cup {NULL}]
  /\ skipped \in [Threads -> SUBSET Socks]

ConnType ==
  /\ tries \in [Procs -> Endpoints]
  /\ ret \in [Procs -> {"none", "init", "get", "cmd"}]
  /\ stamp \in [Procs -> Int]

\* Every variable has the type its declaration in hiredispool.h gives it; a
\* backup index in particular is always one of config->endpoints.
TypeOK == InstType /\ SockType /\ HeapType /\ CallType /\ ConnType

\* The thread has the mutex of its "cur".
Locked(t) == pc[t] \in {"locked", "connect", "stamp", "skip", "grab", "held",
                       "retry", "done"}

\* The mutex of a socket is locked exactly while one thread is between the
\* trylock that succeeded and the unlock; "inuse" says the same but for the
\* moment after the trylock.  So no two threads have one socket, none keeps a
\* lock after it returned, and the reports "I'm NOT in use. Bug?", "I'm still
\* in use. Bug?" and the branch for an unlocked socket in use are never reached.
LockDiscipline ==
  /\ \A t \in Threads, s \in Socks : mutex[s] = t <=> Locked(t) /\ cur[t] = s
  /\ \A s \in Socks :
       inuse[s] <=> \E t \in Threads : Locked(t) /\ pc[t] # "locked" /\ cur[t] = s

\* The context of the socket is allocated: the socket is connected and not
\* between redisFree and the reconnect of redis_vcommand.
Owned(s) ==
  /\ state[s] = "sockconnected"
  /\ ~\E t \in Threads : pc[t] = "connect" /\ ret[t] = "cmd" /\ cur[t] = s

\* The heap holds the contexts of the connected sockets and nothing else, one
\* for each: none leaks, none is freed twice, no two sockets share one, and a
\* thread about to use its socket's context finds it allocated.
HeapExact ==
  /\ live = {conn[s] : s \in {u \in Socks : Owned(u)}}
  /\ \A s, u \in Socks : Owned(s) /\ Owned(u) /\ conn[s] = conn[u] => s = u
  /\ broken \subseteq live
  /\ \A t \in Threads : pc[t] \in {"held", "retry"} => Owned(cur[t])

\* The sockets on the list: those at and behind its head.
Linked == {s \in Socks : s <= redis_pool}

\* Those from where the search of t began up to, not including, where it is.
Passed(t) ==
  {s \in Linked : IF cur[t] <= start[t] THEN cur[t] < s /\ s <= start[t]
                                       ELSE cur[t] < s \/ s <= start[t]}

\* A search of the circular list passes over each socket at most once, in
\* order, and gives up only after it has looked at every socket of the pool,
\* wherever last_used made it begin and whoever overwrote it meanwhile.
ScanCoversOnce ==
  \A t \in Threads :
    skipped[t] = IF pc[t] = "none" THEN Linked
                 ELSE IF start[t] = NULL THEN {} ELSE Passed(t)

\* However many threads fail at once, and in whatever order they store what
\* they computed, the grace period ends within one delay from now, so that
\* connecting is never held off for good.
GraceBounded == connect_after <= now + RetryDelay

\* A socket is given up only after every endpoint refused: with an endpoint
\* that accepts, no connect fails, whatever the backup index was at the start.
FailOver == Reliable # {} => \A p \in Procs : pc[p] # "stamp"

\* redis_get_socket finds no socket only when every one "is unconnected and
\* unconnectABLE, or in use" (the comment above its last return).  With no
\* more threads than sockets, and endpoints that accept, that never is the case.
NoneMeansBusy ==
  Reliable = Endpoints /\ Cardinality(Threads) <= NumSocks =>
    \A t \in Threads : pc[t] # "none"

\* Every call returns: a search ends after at most one round, a command after
\* at most one retry, and nobody waits for a lock.
CallTerminates == \A t \in Threads : pc[t] # "idle" ~> pc[t] = "idle"

-----------------------------------------------------------------------------
(* What the pool promises its callers: SocketLease.                         *)

\* The thread is between the return of redis_get_socket and the unlock of
\* redis_release_socket.
HasLease(t) ==
  \/ pc[t] \in {"held", "retry", "done"}
  \/ pc[t] \in {"connect", "stamp"} /\ ret[t] = "cmd"

LeaseHolder ==
  [s \in Socks |-> IF mutex[s] # NoProc /\ HasLease(mutex[s]) THEN mutex[s]
                                                            ELSE NoProc]

Lease == INSTANCE SocketLease WITH
  open <- pc[Main] = "serving",
  up <- {s \in Socks : state[s] = "sockconnected"},
  holder <- LeaseHolder

\* The pool implements the leases: a socket is given to one caller at a time,
\* only when it is connected, its connection is lost only under its holder, and
\* sockets come up behind the callers' backs only while nobody holds them.
ImplementsLease == Lease!Safety

\* Every lease ends, since nothing a holder does can wait for ever.
EveryLeaseEnds == Lease!LeasesEnd

=============================================================================
