----------------------------- MODULE SyncContext -----------------------------
(* hiredis.c and net.c: a context that is used by one thread at a time, and  *)
(* how it is connected.  Commands are appended to an output buffer; the call *)
(* for a reply returns what the reader already holds, or flushes the buffer  *)
(* and reads until a reply is complete.  Every system call may fail.         *)
(*                                                                           *)
(* A command is a number and its reply is the same number.  The kernel, the  *)
(* resolver and the server are external.                                     *)
EXTENDS Integers, Sequences, FiniteSets, SequencesExt

CONSTANTS
  Modes,          \* the ways to connect: which function, with which arguments
  NumAddrs,       \* addresses the resolver returns
  ConnectRetries, \* REDIS_CONNECT_RETRIES, 10 in the code
  MaxCommands,    \* bound: commands appended
  Descriptors,    \* bound: the descriptors the kernel may hand out, 0 being taken
  MaxReconnects   \* bound: calls of redisReconnect

\* TCP, Unix or redisConnectFd; REDIS_BLOCK, REDIS_REUSEADDR, a source address,
\* a timeout that redisContextTimeoutMsec refuses.
AllModes == [kind : {"tcp", "unix", "fd"}, block : BOOLEAN, reuse : BOOLEAN,
             bind : BOOLEAN, badTimeout : BOOLEAN]

ASSUME SyncAssumption ==
  /\ Modes \subseteq AllModes /\ NumAddrs \in Nat \ {0}
  /\ ConnectRetries \in Nat \ {0}
  /\ MaxCommands \in Nat /\ MaxReconnects \in Nat
  /\ Descriptors \subseteq Nat \ {0}

VARIABLES
  mode,       \* how the context is made
  type,       \* c->connection_type; REDIS_CONN_TCP is what calloc leaves there
  pc,         \* "ready": at the user; otherwise where a call is
  ret,        \* what the last call returned: "ok", "err" or "null"
  err,        \* c->err, "none" for 0
  flags,      \* c->flags & REDIS_CONNECTED
  fd,         \* c->fd
  open,       \* the descriptors this context has opened and not closed
  others,     \* the descriptors the rest of the process has opened
  cands,      \* addresses that are left to try
  reuses,     \* attempts that found the source address taken
  obuf,       \* c->obuf
  rbuf,       \* complete replies in c->reader
  broken,     \* the reader has seen an error of the protocol
  net,        \* the connection: "none" yet, "up", or "closed" by the peer
  toServer,   \* commands sent and not served
  wire,       \* replies sent and not read
  reconnects, \* calls of redisReconnect
  next,       \* the number of the next command
  appended,   \* history: commands appended since the context was (re)connected
  returned    \* history: replies returned since then

conn == <<type, flags, fd, open, others, cands, reuses>>
bufs == <<obuf, rbuf, broken>>
peer == <<net, toServer, wire>>
hist == <<next, appended, returned>>
vars == <<mode, pc, ret, err, conn, bufs, peer, reconnects, hist>>

Errors == {"none", "io", "eof", "protocol", "oom", "other"}
Setups == {"tcp", "unix"}
Connecting == Setups \cup {"lookup", "socket", "bind", "connect", "finish"}
Calling == {"get", "write", "read", "took"}

TypeOK ==
  /\ mode \in Modes
  /\ pc \in Connecting \cup Calling \cup {"ready", "freed"}
  /\ ret \in {"ok", "err", "null"} /\ err \in Errors
  /\ flags \in BOOLEAN /\ type \in {"tcp", "unix"}
  /\ fd \in Descriptors \cup {-1, 0}
  /\ open \subseteq Descriptors /\ others \subseteq Descriptors
  /\ cands \in 0 .. NumAddrs /\ reuses \in 0 .. ConnectRetries
  /\ net \in {"none", "up", "closed"}
  /\ obuf \in Seq(1 .. MaxCommands) /\ toServer \in Seq(1 .. MaxCommands)
  /\ rbuf \in Seq(1 .. MaxCommands) /\ wire \in Seq(1 .. MaxCommands)

\* redisContextInit and the flags; the connecting functions go on with net.c,
\* redisConnectFd takes over a descriptor that is connected.
Init ==
  /\ mode \in Modes /\ ret = "ok" /\ err = "none"
  /\ IF mode.kind = "fd"
     THEN /\ fd \in Descriptors /\ open = {fd} /\ flags = TRUE
          /\ net = "up" /\ pc = "ready"
     ELSE fd = 0 /\ open = {} /\ flags = FALSE /\ net = "none" /\ pc = mode.kind
  /\ type = "tcp" /\ others = {}
  /\ cands = 0 /\ reuses = 0
  /\ obuf = <<>> /\ rbuf = <<>> /\ broken = FALSE
  /\ toServer = <<>> /\ wire = <<>>
  /\ reconnects = 0 /\ next = 1 /\ appended = <<>> /\ returned = <<>>

-----------------------------------------------------------------------------
(* Connecting (net.c).                                                       *)

\* close(2) of a number, whoever has opened it.
Close(d) == open' = open \ {d} /\ others' = others \ {d}

\* redisContextCloseFd.
CloseFd == IF fd >= 0 THEN Close(fd) /\ fd' = -1 ELSE UNCHANGED <<open, others, fd>>

Goto(label) == pc' = label /\ UNCHANGED <<ret, err>>
\* A connecting function returns REDIS_ERR, with the error e set before.
Fails(e) == pc' = "ready" /\ ret' = "err" /\ err' = e
\* Set the error and close the descriptor (redisSetBlocking and the like).
FailsClosed(e) == Fails(e) /\ CloseFd /\ UNCHANGED <<type, flags, cands, reuses>>
\* Set the error and leave the descriptor to redisFree.
FailsOpen(e) == Fails(e) /\ UNCHANGED conn

rest == <<mode, bufs, peer, reconnects, hist>>

\* _redisContextConnectTcp: the arguments are taken over; a timeout out of range
\* is an error.  A context that was made by redisConnectFd, or for a Unix socket
\* that it never had, has neither a timeout nor a host, and reconnects this way.
SetupTcp ==
  /\ pc = "tcp"
  /\ IF mode.kind = "tcp" /\ mode.badTimeout
     THEN FailsOpen("io")
     ELSE Goto("lookup") /\ UNCHANGED conn
  /\ UNCHANGED rest

\* getaddrinfo, for IPv4 and then for IPv6.
Lookup ==
  /\ pc = "lookup"
  /\ \/ FailsOpen("other")
     \/ /\ Goto("socket") /\ cands' = NumAddrs /\ reuses' = 0
        /\ UNCHANGED <<type, flags, fd, open, others>>
  /\ UNCHANGED rest

\* socket(2) for the next address; the last address fails the call.
SocketFails ==
  /\ pc = "socket" /\ cands > 0
  /\ Goto("socket") /\ cands' = cands - 1
  /\ UNCHANGED <<type, flags, fd, open, others, reuses>>
  /\ UNCHANGED rest

NoAddressLeft ==
  /\ pc = "socket" /\ cands = 0
  /\ FailsOpen("other")
  /\ UNCHANGED rest

\* A number that nobody has; c->fd forgets the one it had.
Opens ==
  /\ \E d \in Descriptors \ (open \cup others) : open' = open \cup {d} /\ fd' = d
  /\ UNCHANGED others

Socket ==
  /\ pc = "socket" /\ cands > 0
  /\ Opens
  /\ Goto("bind") /\ UNCHANGED <<type, flags, cands, reuses>>
  /\ UNCHANGED rest

\* Fault: fcntl fails and the descriptor is forgotten, not closed.
BindForgets ==
  /\ pc = "bind"
  /\ Fails("io") /\ fd' = -1
  /\ UNCHANGED <<type, open, others, flags, cands, reuses>>
  /\ UNCHANGED rest

\* redisSetBlocking(c,0); with a source address getaddrinfo and bind(2).  A
\* setsockopt(SO_REUSEADDR) that fails sets no error.
Bind ==
  /\ pc = "bind"
  /\ \/ FailsClosed("io")
     \/ mode.bind /\ FailsOpen("other")
     \/ mode.bind /\ mode.reuse /\ FailsOpen(err)
     \/ Goto("connect") /\ UNCHANGED conn
  /\ UNCHANGED rest

\* connect(2).  An address that is unreachable is passed over.
ConnectUnreachable ==
  /\ pc = "connect" /\ type = "tcp"
  /\ Goto("socket") /\ CloseFd /\ cands' = cands - 1
  /\ UNCHANGED <<type, flags, reuses>>
  /\ UNCHANGED rest

\* A source address in use is tried again with a new socket; the last such
\* attempt gives up without an error.
ConnectAddrInUse ==
  /\ pc = "connect" /\ type = "tcp" /\ mode.reuse
  /\ reuses' = reuses + 1
  /\ IF reuses' >= ConnectRetries
     THEN Fails(err) /\ UNCHANGED <<open, others, fd>>
     ELSE Goto("socket") /\ CloseFd
  /\ UNCHANGED <<type, flags, cands>>
  /\ UNCHANGED rest

\* redisContextWaitReady: poll fails or times out, or the socket has an error,
\* after which redisCheckSocketError leaves the descriptor open.
ConnectFails ==
  /\ pc = "connect"
  /\ FailsClosed("io") \/ FailsOpen("io")
  /\ UNCHANGED rest

ConnectOk ==
  /\ pc = "connect"
  /\ Goto("finish") /\ net' = "up"
  /\ UNCHANGED <<mode, conn, bufs, toServer, wire, reconnects, hist>>

\* redisSetBlocking(c,1) and redisSetTcpNoDelay, and the context is connected.
FinishFails ==
  /\ pc = "finish" /\ (mode.block \/ type = "tcp")
  /\ FailsClosed("io")
  /\ UNCHANGED rest

Finish ==
  /\ pc = "finish"
  /\ pc' = "ready" /\ ret' = "ok" /\ flags' = TRUE
  /\ UNCHANGED <<type, err, fd, open, others, cands, reuses>>
  /\ UNCHANGED rest

\* redisContextConnectUnix: no socket, or redisSetBlocking fails and closes it
\* again; the type of the context is still what it was.
SetupUnixFails ==
  /\ pc = "unix"
  /\ \/ FailsOpen("io")
     \/ Fails("io") /\ fd' = -1 /\ UNCHANGED <<type, flags, open, others, cands, reuses>>
  /\ UNCHANGED rest

\* A timeout out of range returns REDIS_ERR without an error.
SetupUnix ==
  /\ pc = "unix"
  /\ Opens /\ type' = "unix"
  /\ IF mode.badTimeout THEN Fails(err) ELSE Goto("connect")
  /\ UNCHANGED <<flags, cands, reuses>>
  /\ UNCHANGED rest

-----------------------------------------------------------------------------
(* Commands and replies (hiredis.c), at the user.                            *)

Returns(r) == pc' = "ready" /\ ret' = r

\* Fault: the error is not set.
AppendFailsSilently == UNCHANGED <<err, bufs, hist>>

\* __redisAppendCommand for the next command: no memory for it, or a format
\* that is none.
AppendFails == err' \in {"oom", "other"} /\ UNCHANGED <<bufs, hist>>

AppendOk ==
  /\ obuf' = Append(obuf, next) /\ appended' = Append(appended, next)
  /\ next' = next + 1
  /\ UNCHANGED <<err, rbuf, broken, returned>>

\* redisvAppendCommand, redisAppendCommandArgv, redisAppendFormattedCommand.
AppendCommand ==
  /\ pc = "ready" /\ next <= MaxCommands
  /\ \/ AppendOk /\ Returns("ok")
     \/ AppendFails /\ Returns("err")
  /\ UNCHANGED <<mode, conn, peer, reconnects>>

\* redisvCommand and redisCommandArgv: append, then __redisBlockForReply.
Command ==
  /\ pc = "ready" /\ next <= MaxCommands
  /\ \/ AppendFails /\ Returns("null")
     \/ AppendOk /\ ~mode.block /\ Returns("null")
     \/ AppendOk /\ mode.block /\ pc' = "get" /\ UNCHANGED ret
  /\ UNCHANGED <<mode, conn, peer, reconnects>>

\* redisGetReply.  Whoever asks a blocking context for a reply although no
\* command waits for one blocks for good, so nobody does.
GetReply ==
  /\ pc = "ready"
  /\ mode.block => Len(returned) < Len(appended)
  /\ pc' = "get"
  /\ UNCHANGED <<mode, ret, err, conn, bufs, peer, reconnects, hist>>

\* redisSetTimeout and redisEnableKeepAlive.
SetOption ==
  /\ pc = "ready"
  /\ \/ Returns("ok") /\ UNCHANGED err
     \/ Returns("err") /\ err' \in {"io", "other"}
     \/ Returns("err") /\ UNCHANGED err /\ ~mode.block
  /\ UNCHANGED <<mode, conn, bufs, peer, reconnects, hist>>

\* redisGetReplyFromReader: the first reply of the reader; with none left the
\* error of the reader, or nothing, on which a blocking context goes on.
FromReader(onward) ==
  \/ /\ broken /\ rbuf = <<>>
     /\ Returns("null") /\ err' = "protocol" /\ UNCHANGED <<rbuf, returned>>
  \/ /\ rbuf # <<>>
     /\ Returns("ok") /\ returned' = Append(returned, Head(rbuf))
     /\ rbuf' = Tail(rbuf) /\ UNCHANGED err
  \/ /\ ~broken /\ rbuf = <<>>
     /\ IF mode.block THEN pc' = onward /\ UNCHANGED ret ELSE Returns("ok")
     /\ UNCHANGED <<err, rbuf, returned>>

GetFromReader ==
  /\ pc = "get"
  /\ FromReader("write")
  /\ UNCHANGED <<mode, conn, obuf, broken, peer, reconnects, next, appended>>

\* A call of redisBufferRead or redisBufferWrite, label, from a blocking
\* redisGetReply or by the user of a non-blocking context.
In(label) == pc = label \/ (pc = "ready" /\ ~mode.block)
IoError(label, e) ==
  Returns(IF pc = label THEN "null" ELSE "err") /\ err' = e

\* redisBufferWrite when the context has an error already.
BufferWriteInError ==
  /\ pc = "write" /\ err # "none"
  /\ Returns("null")
  /\ UNCHANGED <<mode, err, conn, bufs, peer, reconnects, hist>>

BufferWriteFails ==
  /\ In("write") /\ err = "none" /\ obuf # <<>>
  /\ IoError("write", "io")
  /\ UNCHANGED <<mode, conn, bufs, peer, reconnects, hist>>

\* write(2) takes a part of the buffer; a peer that is gone loses it.
BufferWrite ==
  /\ In("write") /\ err = "none" /\ net # "none" /\ obuf # <<>>
  /\ \E k \in 1 .. Len(obuf) :
       /\ obuf' = SubSeq(obuf, k + 1, Len(obuf))
       /\ toServer' = IF net = "up" THEN toServer \o SubSeq(obuf, 1, k) ELSE toServer
  /\ UNCHANGED <<mode, pc, ret, err, conn, rbuf, broken, net, wire, reconnects, hist>>

\* Fault: the call goes on to read although the buffer is not empty.
BufferWriteDoneEarly ==
  /\ pc = "write" /\ err = "none"
  /\ pc' = "read"
  /\ UNCHANGED <<mode, ret, err, conn, bufs, peer, reconnects, hist>>

BufferWriteDone ==
  /\ pc = "write" /\ err = "none" /\ obuf = <<>>
  /\ pc' = "read"
  /\ UNCHANGED <<mode, ret, err, conn, bufs, peer, reconnects, hist>>

\* redisBufferRead: some replies, or bytes that the reader will refuse.  It parses
\* nothing that comes after these, so that the rest is taken as unread.
Took == pc' = IF pc = "read" THEN "took" ELSE pc

BufferRead ==
  /\ In("read") /\ err = "none" /\ ~broken /\ wire # <<>>
  /\ \E k \in 1 .. Len(wire) :
       rbuf' = rbuf \o SubSeq(wire, 1, k) /\ wire' = SubSeq(wire, k + 1, Len(wire))
  /\ Took
  /\ UNCHANGED <<mode, ret, err, conn, obuf, broken, net, toServer, reconnects, hist>>

BufferReadGarbage ==
  /\ In("read") /\ err = "none" /\ net # "none"
  /\ broken' = TRUE
  /\ Took
  /\ UNCHANGED <<mode, ret, err, conn, obuf, rbuf, peer, reconnects, hist>>

\* The end of the stream, or a socket that is not connected.
BufferReadEnd ==
  /\ In("read") /\ err = "none" /\ net # "up" /\ (wire = <<>> \/ broken)
  /\ IoError("read", IF net = "closed" THEN "eof" ELSE "io")
  /\ UNCHANGED <<mode, conn, bufs, peer, reconnects, hist>>

\* The timeout of redisSetTimeout, or another error of read(2).
BufferReadFails ==
  /\ In("read") /\ err = "none"
  /\ IoError("read", "io")
  /\ UNCHANGED <<mode, conn, bufs, peer, reconnects, hist>>

ReadFromReader ==
  /\ pc = "took"
  /\ FromReader("read")
  /\ UNCHANGED <<mode, conn, obuf, broken, peer, reconnects, next, appended>>

\* The descriptor is closed, buffer and reader are freed.  The number stays in
\* c->fd: a context that did not get a socket since closes it once more.
Discard ==
  /\ IF fd > 0 THEN Close(fd) ELSE UNCHANGED <<open, others>>
  /\ obuf' = <<>> /\ rbuf' = <<>> /\ broken' = FALSE
  /\ net' = "none" /\ toServer' = <<>> /\ wire' = <<>>

\* Fault: the replies of the old connection stay in the reader.
ReconnectKeepsReader ==
  /\ pc = "ready" /\ reconnects < MaxReconnects
  /\ err' = "none" /\ IF fd > 0 THEN Close(fd) ELSE UNCHANGED <<open, others>>
  /\ obuf' = <<>>
  /\ net' = "none" /\ toServer' = <<>> /\ wire' = <<>>
  /\ pc' = type /\ reconnects' = reconnects + 1
  /\ appended' = <<>> /\ returned' = <<>>
  /\ UNCHANGED <<mode, type, ret, flags, fd, cands, reuses, rbuf, broken, next>>

\* redisReconnect: flags and descriptor number stay as they are, buffer and
\* reader are new, and the connecting begins again by the type of the context.
Reconnect ==
  /\ pc = "ready" /\ reconnects < MaxReconnects
  /\ err' = "none" /\ Discard
  /\ pc' = type /\ reconnects' = reconnects + 1
  /\ appended' = <<>> /\ returned' = <<>>
  /\ UNCHANGED <<mode, type, ret, flags, fd, cands, reuses, next>>

Free ==
  /\ pc = "ready" /\ pc' = "freed"
  /\ Discard /\ fd' = -1
  /\ UNCHANGED <<mode, type, ret, err, flags, cands, reuses, reconnects, hist>>

\* The descriptor becomes the user's.
FreeKeepFd ==
  /\ pc = "ready" /\ pc' = "freed"
  /\ open' = {} /\ others' = others \cup open /\ fd' = -1
  /\ obuf' = <<>> /\ rbuf' = <<>> /\ broken' = FALSE
  /\ net' = "none" /\ toServer' = <<>> /\ wire' = <<>>
  /\ UNCHANGED <<mode, type, ret, err, flags, cands, reuses, reconnects, hist>>

-----------------------------------------------------------------------------
(* The server and the network (external).                                    *)

ServerReplies ==
  /\ net = "up" /\ toServer # <<>>
  /\ wire' = Append(wire, Head(toServer)) /\ toServer' = Tail(toServer)
  /\ UNCHANGED <<mode, pc, ret, err, conn, bufs, net, reconnects, hist>>

PeerCloses ==
  /\ net = "up" /\ net' = "closed" /\ toServer' = <<>>
  /\ UNCHANGED <<mode, pc, ret, err, conn, bufs, wire, reconnects, hist>>

\* Another part of the process opens something; that it closes it again makes
\* no difference here.
OtherOpens ==
  /\ \E d \in Descriptors \ (open \cup others) : others' = others \cup {d}
  /\ UNCHANGED <<mode, pc, ret, err, type, flags, fd, open, cands, reuses, bufs, peer,
                 reconnects, hist>>

Connect ==
  \/ SetupTcp \/ SetupUnixFails \/ SetupUnix
  \/ Lookup \/ SocketFails \/ NoAddressLeft \/ Socket \/ Bind
  \/ ConnectUnreachable \/ ConnectAddrInUse \/ ConnectFails \/ ConnectOk
  \/ FinishFails \/ Finish
User == AppendCommand \/ Command \/ GetReply \/ SetOption \/ Reconnect \/ Free \/ FreeKeepFd
\* The steps of a call that need no more than the processor.
Calls ==
  \/ GetFromReader \/ BufferWriteInError \/ BufferWriteFails \/ BufferWrite
  \/ BufferWriteDone \/ BufferRead \/ BufferReadEnd \/ ReadFromReader

Next ==
  \/ Connect \/ User \/ Calls \/ BufferReadGarbage \/ BufferReadFails
  \/ ServerReplies \/ PeerCloses \/ OtherOpens

\* A thread inside a call goes on, and the server answers what it has; a read
\* that waits need not time out.
Fairness == WF_vars(Connect) /\ WF_vars(Calls /\ pc # "ready") /\ WF_vars(ServerReplies)

Spec == Init /\ [][Next]_vars /\ Fairness

-----------------------------------------------------------------------------
(* Properties.                                                               *)

\* The replies that were returned answer the commands that were appended, in
\* their order and since the last redisReconnect: no reply of an abandoned
\* connection or of a failed call reaches a later command (hiredis.c:643-669,
\* 870-898).
RepliesInOrder == IsPrefix(returned, appended)

\* "When NULL is returned in a blocking context, the error field in the context
\* will be set." (hiredis.c:988-989)  (With the types.)
NullMeansErr ==
  /\ TypeOK
  /\ mode.block /\ pc = "ready" /\ ret = "null" => err # "none"

\* No path forgets a descriptor that it leaves open, and a context at its user
\* that has no error holds one.  A close(2) hits a descriptor of somebody else
\* only in redisReconnect or redisFree of a context that was reconnected before
\* and has an error since (hiredis.c:619-620, 647-649): never in a context that
\* works, nor on one of the many ways to give up connecting (net.c:60-133,
\* 197-228, 338-389).
OneDescriptor ==
  /\ open \subseteq {fd} /\ open \cap others = {}
  /\ pc = "ready" /\ err = "none" => open = {fd}
OthersKept ==
  others \ others' # {} => pc = "ready" /\ err # "none" /\ reconnects > 0
DescriptorsOwned == [][OneDescriptor' /\ OthersKept]_vars

\* Connecting ends whatever the addresses do (net.c:338-389), and a blocking
\* redisGetReply ends when the server answers or the connection is gone
\* (hiredis.c:870-898).
CallReturns == (pc \in Connecting \cup Calling) ~> (pc = "ready")

=============================================================================
