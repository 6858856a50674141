----------------------------- MODULE ClientCall -----------------------------
(* A typed command from its call to its status: ramcloud::Client of          *)
(* RedisClientYaf.cpp on RedisClient and hiredispool.c of                    *)
(* experimental/redisclient, where a socket keeps the last error.  Threads   *)
(* share the pool; each has a RedisReplyPtr that it may use again.           *)
(*                                                                           *)
(* The pool is reduced to which socket is held by whom, hiredis to its       *)
(* result, an error the context keeps.  The servers share one database.      *)
(* A definition under the comment "Fault:" is used nowhere: it is a          *)
(* plausible mistake in the code that the properties are known to notice.    *)
EXTENDS TypedCommands

CONSTANTS
  Threads, Socks, Hosts,
  NoProc,      \* the holder of a free socket
  NoHost,      \* "N/A"
  Ops,         \* thread -> the calls it makes
  MaxCalls     \* bound: calls of all threads

ASSUME ClientAssumption ==
  /\ NoProc \notin Threads /\ NoHost \notin Hosts
  /\ IsFiniteSet(Threads) /\ Socks # {} /\ MaxCalls \in Nat
  /\ \A t \in Threads : Ops[t] # {} /\ \A o \in Ops[t] : CallOK(o)

VARIABLES
  store,       \* the database: kind -> names -> values
  holder,      \* socket -> the thread that holds it
  conn,        \* socket -> the host and the error of its context
  last,        \* socket -> err and errhost
  pc, sock,    \* thread -> where it is, its socket
  op,          \* thread -> its call
  number,      \* thread -> how many packs it has made
  pack,        \* the RedisReplyPack objects: reply and info
  status, out, \* thread -> what the call returned
  heap, ptr,   \* as in ReplyPtr
  truth,       \* history: what the last execution of this call means
  cause,       \* history: the last failure in this call, err and host
  served       \* history: the host that replied to this call

Info == [err : -1 .. 2, host : Hosts \cup {NoHost}]
Unset == [err |-> 0, host |-> NoHost]
NoConn == [err |-> -1, host |-> NoHost]
NoReply == [reply |-> NullReply, info |-> Unset]
NoTruth == [num |-> -1, list |-> <<>>]

Packs == Threads \X (1 .. MaxCalls)
NoPack == <<NoProc, 0>>
Places == {"made", "temp", "reply", "spare"}
Ptr == INSTANCE ReplyPtr WITH Vars <- Threads \X Places

poolVars == <<holder, conn, last>>
ptrVars  == <<heap, ptr>>
packVars == <<number, pack>>
histVars == <<truth, cause, served>>
doneVars == <<status, out>>
vars == <<store, poolVars, pc, sock, op, packVars, doneVars, ptrVars, histVars>>

Goto(t, label) == pc' = [pc EXCEPT ![t] = label]
Ctx(t) == conn[sock[t]]
\* The pack at a place of thread t.
At(t, place) == ptr[<<t, place>>]
SetInfo(t, info) == pack' = [pack EXCEPT ![At(t, "made")].info = info]

Init ==
  /\ store = [k \in Kinds |-> <<>>]
  /\ holder = [s \in Socks |-> NoProc] /\ conn = [s \in Socks |-> NoConn]
  /\ last = [s \in Socks |-> Unset]
  /\ pc = [t \in Threads |-> "idle"] /\ sock = [t \in Threads |-> CHOOSE s \in Socks : TRUE]
  /\ op = [t \in Threads |-> CHOOSE o \in Ops[t] : TRUE]
  /\ number = [t \in Threads |-> 0]
  /\ pack = [p \in Packs |-> NoReply]
  /\ status = [t \in Threads |-> "ok"] /\ out = [t \in Threads |-> NoOut]
  /\ Ptr!PtrInit
  /\ truth = [t \in Threads |-> NoTruth]
  /\ cause = [t \in Threads |-> Unset] /\ served = [t \in Threads |-> NoHost]

-----------------------------------------------------------------------------
(* A socket (hiredispool.c), and the report of how it went (RedisClient.cpp).*)

CallsMade == Cardinality({p \in Packs : p[2] <= number[p[1]]})

\* bound: a thread stays with one kind of data.
Chooses(t) ==
  \E o \in Ops[t] :
    /\ number[t] = 0 \/ Kind(o.cmd) = Kind(op[t].cmd)
    /\ op' = [op EXCEPT ![t] = o]

\* redisvCommand and redisCommandArgv: a new pack, and PooledSocket asks for a
\* socket.
Call(t) ==
  /\ pc[t] = "idle" /\ CallsMade < MaxCalls
  /\ Chooses(t)
  /\ number' = [number EXCEPT ![t] = @ + 1]
  /\ Ptr!Make(<<t, "made">>, <<t, number'[t]>>)
  /\ Goto(t, "get")
  /\ UNCHANGED <<store, poolVars, sock, pack, doneVars, histVars>>

\* _init finds no client: the pointer is null.
CallUnconfigured(t) ==
  /\ pc[t] = "idle" /\ CallsMade < MaxCalls
  /\ Chooses(t)
  /\ number' = [number EXCEPT ![t] = @ + 1]
  /\ Goto(t, "returned")
  /\ UNCHANGED <<store, poolVars, sock, pack, doneVars, ptrVars, histVars>>

\* connect_single_socket: a host accepts; redisSetTimeout or
\* redisEnableKeepAlive may leave an error in the context, here
\* REDIS_ERR_OTHER, 2, where those of the connection are REDIS_ERR_IO, 1.
Connected(s) ==
  /\ \E h \in Hosts, e \in {0, 2} : conn' = [conn EXCEPT ![s] = [err |-> e, host |-> h]]
  /\ UNCHANGED last

\* None does: save_last_error of the last one, or set_last_error when there is
\* no memory for a context.
NotConnected(s) ==
  /\ conn' = [conn EXCEPT ![s] = NoConn]
  /\ \/ \E h \in Hosts : last' = [last EXCEPT ![s] = [err |-> 1, host |-> h]]
     \/ last' = [last EXCEPT ![s] = [err |-> -1, host |-> NoHost]]

\* redis_get_socket on its way: an unconnected socket.
ConnectFree(s) ==
  /\ holder[s] = NoProc /\ conn[s] = NoConn
  /\ \E t \in Threads : pc[t] = "get"
  /\ Connected(s) \/ NotConnected(s)
  /\ UNCHANGED <<store, holder, pc, sock, op, packVars, doneVars, ptrVars, histVars>>

GetSocket(t, s) ==
  /\ pc[t] = "get" /\ holder[s] = NoProc /\ conn[s] # NoConn
  /\ holder' = [holder EXCEPT ![s] = t] /\ sock' = [sock EXCEPT ![t] = s]
  /\ Goto(t, "first")
  /\ UNCHANGED <<store, conn, last, op, packVars, doneVars, ptrVars, histVars>>

\* The search passed every socket by.
NoSocket(t) ==
  /\ pc[t] = "get"
  /\ SetInfo(t, [err |-> -1, host |-> NoHost])
  /\ cause' = [cause EXCEPT ![t] = [err |-> -1, host |-> NoHost]]
  /\ Goto(t, "return")
  /\ UNCHANGED <<store, poolVars, sock, op, number, doneVars, ptrVars, truth, served>>

\* The server executes the command of t.
Execute(t) ==
  LET call == op[t]  kind == Kind(call.cmd) IN
  /\ store' = [store EXCEPT ![kind] = Serve(call.cmd, Args(call), @)[1]]
  /\ truth' = [truth EXCEPT ![t] = Truth(call, store[kind])]

\* hiredis returns a reply: of the command, or an error of the server.
Replies(t) ==
  LET call == op[t]  kind == Kind(call.cmd) IN
  /\ pc[t] \in {"first", "retry"} /\ Ctx(t).err = 0
  /\ \/ /\ Execute(t)
        /\ pack' = [pack EXCEPT ![At(t, "made")].reply =
                      Serve(call.cmd, Args(call), store[kind])[2]]
     \/ /\ pack' = [pack EXCEPT ![At(t, "made")].reply = Error]
        /\ UNCHANGED <<store, truth>>
  /\ served' = [served EXCEPT ![t] = Ctx(t).host]
  /\ Goto(t, "target")
  /\ UNCHANGED <<poolVars, sock, op, number, doneVars, ptrVars, cause>>

\* hiredis returns null with the error e: the one the context had, or one of
\* the connection, and then the command may have been executed.
Null(t, e) ==
  \/ /\ e = Ctx(t).err /\ e # 0 /\ UNCHANGED <<store, truth>>
  \/ /\ Ctx(t).err = 0 /\ e = 1
     /\ Execute(t) \/ UNCHANGED <<store, truth>>

\* The first attempt fails: redisFree, and connect_single_socket.
Reconnect(t) ==
  /\ pc[t] = "first"
  /\ \E e \in {1, 2} : Null(t, e)
  /\ \/ /\ Connected(sock[t]) /\ Goto(t, "retry") /\ UNCHANGED cause
     \/ /\ NotConnected(sock[t]) /\ Goto(t, "error")
        /\ cause' = [cause EXCEPT ![t] = last'[sock[t]]]
  /\ UNCHANGED <<holder, sock, op, packVars, doneVars, ptrVars, served>>

\* Fault: the error of the second attempt is not saved.
RetryFailsUnsaved(t) ==
  /\ pc[t] = "retry"
  /\ \E e \in {1, 2} :
       /\ Null(t, e)
       /\ conn' = [conn EXCEPT ![sock[t]].err = e]
       /\ cause' = [cause EXCEPT ![t] = [err |-> e, host |-> Ctx(t).host]]
  /\ Goto(t, "error")
  /\ UNCHANGED <<holder, last, sock, op, packVars, doneVars, ptrVars, served>>

\* The second attempt fails, and its error is saved in the socket; the context
\* stays for the next caller to find out.
RetryFails(t) ==
  /\ pc[t] = "retry"
  /\ \E e \in {1, 2} :
       /\ Null(t, e)
       /\ conn' = [conn EXCEPT ![sock[t]].err = e]
       /\ last' = [last EXCEPT ![sock[t]] = [err |-> e, host |-> Ctx(t).host]]
       /\ cause' = [cause EXCEPT ![t] = last'[sock[t]]]
  /\ Goto(t, "error")
  /\ UNCHANGED <<holder, sock, op, packVars, doneVars, ptrVars, served>>

\* _setTarget and _setError.
SetTarget(t) ==
  /\ pc[t] = "target"
  /\ SetInfo(t, [err |-> 0, host |-> Ctx(t).host])
  /\ Goto(t, "release")
  /\ UNCHANGED <<store, poolVars, sock, op, number, doneVars, ptrVars, histVars>>

SetError(t) ==
  /\ pc[t] = "error"
  /\ SetInfo(t, last[sock[t]])
  /\ Goto(t, "release")
  /\ UNCHANGED <<store, poolVars, sock, op, number, doneVars, ptrVars, histVars>>

\* The destructor of PooledSocket: redis_release_socket.
Release(t) ==
  /\ pc[t] = "release"
  /\ holder' = [holder EXCEPT ![sock[t]] = NoProc]
  /\ Goto(t, "return")
  /\ UNCHANGED <<store, conn, last, sock, op, packVars, doneVars, ptrVars, histVars>>

-----------------------------------------------------------------------------
(* The reply on its way to the caller (RedisClient.h, RedisClientYaf.cpp).   *)

same == <<store, poolVars, sock, op, packVars, doneVars, histVars>>

\* "return RedisReplyPtr(p)": the temporary has the pack; it becomes a
\* RedisReplyRef, from which the variable of myRedisCommand takes it over.
ReturnTemp(t) ==
  /\ pc[t] = "return"
  /\ Ptr!HandOver(<<t, "temp">>, <<t, "made">>)
  /\ Goto(t, "assign")
  /\ UNCHANGED same

AssignReply(t) ==
  /\ pc[t] = "assign"
  /\ Ptr!HandOver(<<t, "reply">>, <<t, "temp">>)
  /\ Goto(t, "returned")
  /\ UNCHANGED same

\* reply2status, and the out-parameters.
ReplyOf(t) == IF At(t, "reply") = NoPack THEN NullReply ELSE pack[At(t, "reply")].reply

\* A RedisReplyPtr without a pack is a client that is not configured.
Answer(t) ==
  LET st == IF At(t, "reply") = NoPack THEN "CONFIG_ERR"
            ELSE reply2status(ReplyOf(t), pack[At(t, "reply")].info.err)
  IN
  /\ pc[t] = "returned"
  /\ status' = [status EXCEPT ![t] = st]
  /\ out' = [out EXCEPT ![t] = Out(op[t], ReplyOf(t), st)]
  /\ Goto(t, "answered")
  /\ UNCHANGED <<store, poolVars, sock, op, packVars, ptrVars, histVars>>

\* The variable goes out of scope, as in each typed command, and the caller is
\* done with the answer; a reply that is freed has no content any more.
Return(t) ==
  /\ pc[t] = "answered"
  /\ Ptr!Destroy(<<t, "reply">>)
  /\ pack' = [p \in Packs |-> IF p \in heap' THEN pack[p] ELSE NoReply]
  /\ status' = [status EXCEPT ![t] = "ok"] /\ out' = [out EXCEPT ![t] = NoOut]
  /\ truth' = [truth EXCEPT ![t] = NoTruth]
  /\ cause' = [cause EXCEPT ![t] = Unset] /\ served' = [served EXCEPT ![t] = NoHost]
  /\ Goto(t, "idle")
  /\ UNCHANGED <<store, poolVars, sock, op, number>>

\* Or the caller of RedisClient copies or assigns it to another one first.
Keep(t) ==
  /\ pc[t] = "answered"
  /\ \E place \in {"spare", "reply"} : Ptr!Assign(<<t, place>>, <<t, "reply">>)
  /\ UNCHANGED <<same, pc>>

Step(t) ==
  \/ Call(t) \/ CallUnconfigured(t) \/ (\E s \in Socks : GetSocket(t, s))
  \/ NoSocket(t) \/ Replies(t) \/ Reconnect(t) \/ RetryFails(t)
  \/ SetTarget(t) \/ SetError(t) \/ Release(t)
  \/ ReturnTemp(t) \/ AssignReply(t) \/ Answer(t) \/ Return(t) \/ Keep(t)

Next == (\E t \in Threads : Step(t)) \/ (\E s \in Socks : ConnectFree(s))

Spec == Init /\ [][Next]_vars

-----------------------------------------------------------------------------
(* Properties.                                                               *)

StoreOK ==
  DOMAIN store = Kinds /\ \A k \in Kinds : \A n \in DOMAIN store[k] : store[k][n] \in Nat

TypeOK ==
  /\ holder \in [Socks -> Threads \cup {NoProc}]
  /\ conn \in [Socks -> Info] /\ last \in [Socks -> Info]
  /\ \A s \in Socks : conn[s].err = -1 <=> conn[s].host = NoHost
  /\ pc \in [Threads -> {"idle", "get", "first", "retry", "target", "error", "release",
                         "return", "assign", "returned", "answered"}]
  /\ \A t \in Threads :
       pc[t] \in {"first", "retry", "target", "error", "release"} => holder[sock[t]] = t
  /\ \A p \in Packs : pack[p].info \in Info
  /\ status \in [Threads -> Statuses]

\* A null reply is reported with the error and the host of the last failure of
\* this very call, which is never "NO_ERR but reply is null?!", and a reply
\* with the host that sent it; not with what the socket has kept of an earlier
\* call, or what another thread makes of the socket (hiredispool.c:281-299,
\* RedisClient.cpp:10-31).
ReportIsOwn ==
  \A t \in Threads : pc[t] = "returned" /\ At(t, "reply") # NoPack =>
    LET p == pack[At(t, "reply")] IN
    IF p.reply.type = "null" THEN p.info = cause[t] /\ p.info.err # 0
                             ELSE p.info = [err |-> 0, host |-> served[t]]

\* When the status is ok, a server has executed this call, and the caller gets
\* what the database held then: each value under its own name, the members in
\* order, the right count (RedisClientYaf.cpp:483-1308).  (With the type of the
\* database.)
AnswersTrue ==
  /\ StoreOK
  /\ \A t \in Threads : pc[t] = "answered" /\ ok(status[t]) => out[t] = truth[t]

\* A database changes by what some call under way means, and only so: the
\* arguments arrive in the order the command wants them.
StoreByCalls ==
  [][store' # store =>
       \E t \in Threads :
         /\ pc[t] \in {"first", "retry"}
         /\ store' = [store EXCEPT ![Kind(op[t].cmd)] = Effect(op[t], @)]]_vars

\* However a RedisReplyPtr is returned, converted, assigned and copied, each
\* reply has one owner and is freed once (RedisClient.h:60-129).  (With the
\* types.)
RepliesOwned == TypeOK /\ Ptr!OwnedOnce

=============================================================================
