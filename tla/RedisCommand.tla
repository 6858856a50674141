---------------------------- MODULE RedisCommand ----------------------------
(***************************************************************************)
(* Commands on the wire: what redis_vcommand, with its reconnect and its   *)
(* one retry, makes of a command when replies are late and connections     *)
(* break.  The pool is reduced to what it promises, SocketLease; hiredis   *)
(* to its rule that a context with an error refuses to be used again.      *)
(*                                                                         *)
(* A command is known by its thread and the number of the call, and so is  *)
(* its reply.  A connection is a pair of queues; the server executes what  *)
(* has reached it whenever it likes, also after the client has given up    *)
(* and closed its end.                                                     *)
(*                                                                         *)
(* A definition under the comment "Fault:" is used nowhere: it is a        *)
(* plausible mistake in the code that the properties are known to notice.  *)
(***************************************************************************)
EXTENDS Integers, Sequences

CONSTANTS
  Threads, Socks,
  NoProc,        \* the holder of a free socket
  NoSock,        \* the null REDIS_SOCKET pointer
  MaxCalls,      \* bound: commands each thread sends
  MaxConns       \* bound: connections made

Conns == 1 .. MaxConns
Calls == 1 .. MaxCalls
NoConn == 0

\* The null redisReply pointer; a reply is known by the command it answers.
NoReply == <<NoProc, 0>>

ASSUME CommandAssumption ==
  /\ NoProc \notin Threads /\ NoSock \notin Socks
  /\ MaxCalls \in Nat /\ MaxConns \in Nat

VARIABLES
  open, up, holder,   \* the pool, as in SocketLease
  conn,               \* socket -> its redisContext, named after the connection
  made,               \* how many connections have been made
  err,                \* the contexts whose err is set
  cut,                \* the connections that are broken or closed
  sent, got,          \* connection -> requests and replies under way
  pc, sock, call,     \* thread -> where it is, its socket, its calls so far
  reply,              \* thread -> what redis_vcommand returned to it last
  executed, replied   \* history: per command, how often executed; replied to

leaseVars  == <<open, up, holder>>
wireVars   == <<sent, got>>
vars == <<leaseVars, conn, made, err, cut, wireVars, pc, sock, call, reply,
          executed, replied>>

Lease == INSTANCE SocketLease

Cmd(t) == <<t, call[t]>>
Goto(t, label) == pc' = [pc EXCEPT ![t] = label]

\* The context of the socket t has leased.
Ctx(t) == conn[sock[t]]
-----------------------------------------------------------------------------
(* The pool.                                                                *)

Create ==
  /\ Lease!Open
  /\ UNCHANGED <<conn, made, err, cut, wireVars, pc, sock, call, reply,
                 executed, replied>>

\* A new connection for s.  Setting its timeout or keepalive may fail, which
\* leaves an error in the context.
NewConn(s) ==
  /\ made < MaxConns
  /\ made' = made + 1
  /\ conn' = [conn EXCEPT ![s] = made + 1]
  /\ err' \in {err, err \cup {made + 1}}

\* Creating the pool, or a search on its way, connects a free socket.
ConnectFree(s) ==
  /\ Lease!Connect(s)
  /\ NewConn(s)
  /\ UNCHANGED <<cut, wireVars, pc, sock, call, reply, executed, replied>>

\* redisvCommand of RedisClient begins: it gets a socket.
GetSocket(t, s) ==
  /\ pc[t] = "idle" /\ call[t] < MaxCalls
  /\ Lease!Acquire(t, s)
  /\ sock' = [sock EXCEPT ![t] = s]
  /\ call' = [call EXCEPT ![t] = @ + 1]
  /\ Goto(t, "first")
  /\ UNCHANGED <<conn, made, err, cut, wireVars, reply, executed, replied>>

\* There is none: the call is over, with a null reply.
NoSocket(t) ==
  /\ pc[t] = "idle" /\ call[t] < MaxCalls /\ open
  /\ call' = [call EXCEPT ![t] = @ + 1]
  /\ reply' = [reply EXCEPT ![t] = NoReply]
  /\ UNCHANGED <<leaseVars, conn, made, err, cut, wireVars, pc, sock, executed,
                 replied>>

ReleaseSocket(t) ==
  /\ pc[t] = "done"
  /\ Lease!Release(sock[t])
  /\ sock' = [sock EXCEPT ![t] = NoSock]
  /\ Goto(t, "idle")
  /\ UNCHANGED <<conn, made, err, cut, wireVars, call, reply, executed,
                 replied>>
-----------------------------------------------------------------------------
(* redis_vcommand.                                                          *)

Waiting == [first |-> "wait1", retry |-> "wait2"]

\* redisvCommand: append the command and flush the buffer.  redisBufferWrite
\* and redisBufferRead return early when the context has seen an error.
Send(t) ==
  /\ pc[t] \in {"first", "retry"} /\ Ctx(t) \notin err \cup cut
  /\ sent' = [sent EXCEPT ![Ctx(t)] = Append(@, Cmd(t))]
  /\ Goto(t, Waiting[pc[t]])
  /\ UNCHANGED <<leaseVars, conn, made, err, cut, got, sock, call, reply,
                 executed, replied>>

\* Wait for one reply and return it.
Receive(t) ==
  /\ pc[t] \in {"wait1", "wait2"} /\ Ctx(t) \notin err /\ got[Ctx(t)] # <<>>
  /\ reply' = [reply EXCEPT ![t] = Head(got[Ctx(t)])]
  /\ got' = [got EXCEPT ![Ctx(t)] = Tail(@)]
  /\ replied' = replied \cup {Head(got[Ctx(t)])}
  /\ Goto(t, "done")
  /\ UNCHANGED <<leaseVars, conn, made, err, cut, sent, sock, call, executed>>

\* Fault: the connection of the failed attempt is used for the retry.
FirstFailsKeeps(t) ==
  /\ pc[t] \in {"first", "wait1"}
  /\ Goto(t, "retry")
  /\ UNCHANGED <<leaseVars, conn, made, err, cut, wireVars, sock, call, reply,
                 executed, replied>>

\* The first attempt ends in an error or a timeout: redisFree closes the
\* connection.
FirstFails(t) ==
  /\ pc[t] \in {"first", "wait1"}
  /\ err' = err \cup {Ctx(t)}
  /\ cut' = cut \cup {Ctx(t)}
  /\ got' = [got EXCEPT ![Ctx(t)] = <<>>]
  /\ Goto(t, "connect")
  /\ UNCHANGED <<leaseVars, conn, made, sent, sock, call, reply, executed, replied>>

Reconnect(t) ==
  /\ pc[t] = "connect"
  /\ NewConn(sock[t])
  /\ Goto(t, "retry")
  /\ UNCHANGED <<leaseVars, cut, wireVars, sock, call, reply, executed, replied>>

ReconnectFails(t) ==
  /\ pc[t] = "connect"
  /\ Lease!Lose(sock[t])
  /\ conn' = [conn EXCEPT ![sock[t]] = NoConn]
  /\ reply' = [reply EXCEPT ![t] = NoReply]
  /\ Goto(t, "done")
  /\ UNCHANGED <<made, err, cut, wireVars, sock, call, executed, replied>>

\* Fault: a failed retry is tried once more.
RetryFailsAgain(t) ==
  /\ pc[t] \in {"retry", "wait2"}
  /\ err' = err \cup {Ctx(t)}
  /\ cut' = cut \cup {Ctx(t)}
  /\ Goto(t, "connect")
  /\ UNCHANGED <<leaseVars, conn, made, wireVars, sock, call, reply, executed,
                 replied>>

\* Fault: a failed retry leaves no error behind in the context.
RetryFailsClean(t) ==
  /\ pc[t] \in {"retry", "wait2"}
  /\ reply' = [reply EXCEPT ![t] = NoReply]
  /\ Goto(t, "done")
  /\ UNCHANGED <<leaseVars, conn, made, err, cut, wireVars, sock, call, executed,
                 replied>>

\* The retry fails: "the next caller will retry", on a context with an error.
RetryFails(t) ==
  /\ pc[t] \in {"retry", "wait2"}
  /\ err' = err \cup {Ctx(t)}
  /\ reply' = [reply EXCEPT ![t] = NoReply]
  /\ Goto(t, "done")
  /\ UNCHANGED <<leaseVars, conn, made, cut, wireVars, sock, call, executed,
                 replied>>
-----------------------------------------------------------------------------
(* The network and the server.                                              *)

\* A request that has arrived is executed; if the client has closed its end,
\* the reply goes nowhere.
Execute(k) ==
  LET cmd == Head(sent[k]) IN
  /\ sent[k] # <<>>
  /\ sent' = [sent EXCEPT ![k] = Tail(@)]
  /\ executed' = [executed EXCEPT ![cmd] = @ + 1]
  /\ got' = IF k \in cut THEN got
            ELSE [got EXCEPT ![k] = Append(@, cmd)]
  /\ UNCHANGED <<leaseVars, conn, made, err, cut, pc, sock, call, reply, replied>>

\* The connection breaks, or the server drops what a closed one still held.
Break(k) ==
  /\ k <= made /\ (k \in cut => sent[k] # <<>>)
  /\ cut' = cut \cup {k}
  /\ sent' = [sent EXCEPT ![k] = <<>>]
  /\ got' = [got EXCEPT ![k] = <<>>]
  /\ UNCHANGED <<leaseVars, conn, made, err, pc, sock, call, reply, executed,
                 replied>>

\* Every thread has made its calls.
Finished ==
  /\ \A t \in Threads : pc[t] = "idle" /\ call[t] = MaxCalls
  /\ UNCHANGED vars
-----------------------------------------------------------------------------
Init ==
  /\ Lease!Init
  /\ conn = [s \in Socks |-> NoConn] /\ made = 0
  /\ err = {} /\ cut = {}
  /\ sent = [k \in Conns |-> <<>>] /\ got = [k \in Conns |-> <<>>]
  /\ pc = [t \in Threads |-> "idle"]
  /\ sock = [t \in Threads |-> NoSock]
  /\ call = [t \in Threads |-> 0]
  /\ reply = [t \in Threads |-> NoReply]
  /\ executed = [cmd \in Threads \X Calls |-> 0]
  /\ replied = {}

Step(t) ==
  \/ \E s \in Socks : GetSocket(t, s)
  \/ NoSocket(t) \/ Send(t) \/ Receive(t) \/ FirstFails(t)
  \/ Reconnect(t) \/ ReconnectFails(t) \/ RetryFails(t) \/ ReleaseSocket(t)

Next ==
  \/ Create
  \/ \E s \in Socks : ConnectFree(s)
  \/ \E t \in Threads : Step(t)
  \/ \E k \in Conns : Execute(k) \/ Break(k)
  \/ Finished

Spec == Init /\ [][Next]_vars
-----------------------------------------------------------------------------
(* Properties.                                                              *)

\* Types, and: a socket that counts as connected has the context of a
\* connection that was made, so that redis_vcommand never uses a null one.
PoolType ==
  /\ open \in BOOLEAN /\ up \in SUBSET Socks
  /\ holder \in [Socks -> Threads \cup {NoProc}]
  /\ conn \in [Socks -> Conns \cup {NoConn}]
  /\ made \in 0 .. MaxConns
  /\ \A s \in up : conn[s] \in 1 .. made

WireType ==
  /\ err \in SUBSET Conns /\ cut \in SUBSET Conns
  /\ sent \in [Conns -> Seq(Threads \X Calls)]
  /\ got \in [Conns -> Seq(Threads \X Calls)]

ThreadType ==
  /\ pc \in [Threads -> {"idle", "first", "wait1", "connect", "retry", "wait2", "done"}]
  /\ sock \in [Threads -> Socks \cup {NoSock}]
  /\ call \in [Threads -> 0 .. MaxCalls]
  /\ reply \in [Threads -> (Threads \X Calls) \cup {NoReply}]

HistoryType ==
  /\ executed \in [Threads \X Calls -> Nat]
  /\ replied \in SUBSET (Threads \X Calls)

TypeOK == PoolType /\ WireType /\ ThreadType /\ HistoryType

\* A caller that gets a reply gets the reply to the command it has just sent,
\* never the late one of a command, its own or another's, that timed out on the
\* same socket before.
ReplyIsOwn ==
  \A t \in Threads : pc[t] = "done" /\ reply[t] # NoReply => reply[t] = Cmd(t)

\* A connection a socket will use again has nothing under way unless its caller
\* is waiting for just that; whatever is left over from an attempt that was
\* given up is on a connection with an error, or closed.  (With the types.)
WireIsClean ==
  /\ TypeOK
  /\ \A s \in Socks : conn[s] # NoConn =>
       LET k == conn[s] IN
       \/ k \in err \cup cut
       \/ sent[k] = <<>> /\ got[k] = <<>>
       \/ /\ holder[s] # NoProc /\ pc[holder[s]] \in {"wait1", "wait2"}
          /\ \/ sent[k] = <<Cmd(holder[s])>> /\ got[k] = <<>>
             \/ sent[k] = <<>> /\ got[k] = <<Cmd(holder[s])>>

\* However connections break, the server executes a command at most twice, and
\* a command that was answered at least once.
AtMostTwice ==
  \A cmd \in Threads \X Calls :
    /\ executed[cmd] <= 2
    /\ cmd \in replied => executed[cmd] >= 1

=============================================================================
