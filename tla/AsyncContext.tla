---------------------------- MODULE AsyncContext ----------------------------
(* hiredis/async.c: one asynchronous context, driven by one event loop.  A   *)
(* command is appended to the output buffer and its callback to a list; the  *)
(* event handlers write the buffer, read replies and hand each reply to a    *)
(* callback.  Callbacks are user code: they may call the interface again,    *)
(* and they may end the context they are called from.                        *)
(*                                                                           *)
(* A command is known by its number, 1 .. MaxCommands, and so is its         *)
(* callback, which the user may have left out; 0 is the local variable of    *)
(* the loop before it was given one.  Channels and patterns have names of    *)
(* their own, so that one function from names to callbacks stands for the two*)
(* dictionaries ac->sub.channels and ac->sub.patterns.  The server and the   *)
(* network are external.                                                     *)
EXTENDS Integers, Sequences, FiniteSets, SequencesExt

CONSTANTS
  Channels,       \* names for SUBSCRIBE and UNSUBSCRIBE
  Patterns,       \* names for PSUBSCRIBE and PUNSUBSCRIBE
  Silent,         \* the commands whose callback is a null pointer
  MaxCommands,    \* bound: commands the user issues
  MaxTraffic      \* bound: messages and monitor lines the server sends

ASSUME AsyncAssumption ==
  /\ Channels \cap Patterns = {} /\ IsFiniteSet(Channels \cup Patterns)
  /\ MaxCommands \in Nat /\ MaxTraffic \in Nat
  /\ Silent \subseteq 1 .. MaxCommands

Names == Channels \cup Patterns
Ids == 1 .. MaxCommands
NoCb == 0

VARIABLES
  pc,         \* where the event loop is
  flags,      \* c->flags
  err,        \* c->err # 0, which __redisAsyncCopyError copies to ac->err
  replies,    \* ac->replies
  invalid,    \* ac->sub.invalid
  subs,       \* ac->sub.channels and ac->sub.patterns
  obuf,       \* c->obuf, as the commands that are in it
  rbuf,       \* the complete replies the reader holds
  cb,         \* the local cb of redisProcessCallbacks or __redisAsyncFree
  reply,      \* the reply that is given to the running callback
  ev,         \* the events the context has asked its event library for
  net,        \* "pending" | "up" | "closed": the connection, at the server
  toServer,   \* commands written and not yet served
  wire,       \* replies sent and not yet read
  served,     \* the names the server has the connection subscribed to
  traffic,    \* messages and monitor lines sent
  issued,     \* history: the command accepted as number n
  got         \* history: what the callback of command n was given, in order

ctx == <<flags, err, replies, invalid, subs, obuf>>
loop == <<rbuf, cb, reply>>
server == <<net, toServer, wire, served, traffic>>
history == <<issued, got>>
vars == <<pc, ctx, loop, ev, server, history>>

Flags == {"connected", "disconnecting", "freeing", "inCallback",
          "subscribed", "monitoring"}
Labels == {"idle", "process", "callback", "free", "freeCallback", "gone",
           "assertPending", "assertExpected"}
Kinds == {"regular", "subscribe", "unsubscribe", "monitor"}
Pushes == {"subscribe", "unsubscribe", "message"}

Commands == [id : Ids, kind : Kinds, names : SUBSET Names]
\* count: the subscriptions left, the third element of a subscription message.
Replies == [kind : Pushes \cup {"reply", "error", "line"}, to : Ids \cup {0},
            names : SUBSET Names, count : 0 .. Cardinality(Names)]
NullReply == [kind |-> "reply", to |-> 0, names |-> {}, count |-> 0]
Answer(kind, to, names, count) ==
  [kind |-> kind, to |-> to, names |-> names, count |-> count]

Has(f) == f \in flags
Closing == Has("disconnecting") \/ Has("freeing")
Drop(s, k) == SubSeq(s, k + 1, Len(s))

TypeOK ==
  /\ pc \in Labels /\ flags \subseteq Flags /\ err \in BOOLEAN
  /\ \A list \in {replies, invalid} :
       \A i \in 1 .. Len(list) : list[i] \in Ids \cup {NoCb}
  /\ subs \in [Names -> Ids \cup {NoCb}]
  /\ \A q \in {obuf, toServer} : \A i \in 1 .. Len(q) : q[i] \in Commands
  /\ \A q \in {rbuf, wire} : \A i \in 1 .. Len(q) : q[i] \in Replies
  /\ cb \in Ids \cup {NoCb} /\ reply \in Replies
  /\ ev \subseteq {"read", "write"} /\ net \in {"pending", "up", "closed"}
  /\ served \subseteq Names /\ traffic \in 0 .. MaxTraffic
  /\ Len(issued) <= MaxCommands /\ Len(got) = Len(issued)
  /\ pc \in {"callback", "freeCallback"} <=> Has("inCallback")

\* redisAsyncConnect and redisAsyncInitialize, then the user's call of
\* redisAsyncSetConnectCallback, which asks for the first write event.
Init ==
  /\ pc = "idle" /\ flags = {} /\ err = FALSE
  /\ replies = <<>> /\ invalid = <<>> /\ subs = [n \in Names |-> NoCb]
  /\ obuf = <<>> /\ rbuf = <<>> /\ cb = NoCb /\ reply = NullReply
  /\ ev = {"write"}
  /\ net = "pending" /\ toServer = <<>> /\ wire = <<>> /\ served = {}
  /\ traffic = 0 /\ issued = <<>> /\ got = <<>>

-----------------------------------------------------------------------------
(* Closing the context.                                                      *)

\* __redisAsyncDisconnect with the error flag e: a clean disconnect asserts
\* that no callback waits; otherwise pending callbacks may issue nothing.
Disconnect(e, list) ==
  IF e
  THEN /\ pc' = "free" /\ err' = TRUE
       /\ flags' = flags \cup {"disconnecting"}
  ELSE /\ pc' = IF list = <<>> THEN "free" ELSE "assertPending"
       /\ UNCHANGED <<flags, err>>

\* A callback that __redisRunCallback calls.
HasFn(id) == id # NoCb /\ id \notin Silent

\* __redisRunCallback: user code runs with REDIS_IN_CALLBACK set.
Run(id, r, label) ==
  /\ pc' = label
  /\ flags' = flags \cup {"inCallback"}
  /\ cb' = id /\ reply' = r
  /\ got' = [got EXCEPT ![id] = Append(@, r)]

\* One turn of a loop of __redisAsyncFree: the callback at the head of a list
\* gets the null reply, unless it is a null pointer.
FreeShift(list) ==
  IF HasFn(Head(list))
  THEN Run(Head(list), NullReply, "freeCallback")
  ELSE UNCHANGED <<pc, flags, cb, reply, got>>

FreeReplies ==
  /\ pc = "free" /\ replies # <<>>
  /\ FreeShift(replies) /\ replies' = Tail(replies)
  /\ UNCHANGED <<err, invalid, subs, obuf, rbuf, ev, server, issued>>

\* Fault: the callbacks of invalid commands are dropped with the context.
FreeInvalidDrops ==
  /\ pc = "free" /\ replies = <<>> /\ invalid # <<>>
  /\ invalid' = <<>>
  /\ UNCHANGED <<pc, flags, err, replies, subs, obuf, loop, ev, server, history>>

FreeInvalid ==
  /\ pc = "free" /\ replies = <<>> /\ invalid # <<>>
  /\ FreeShift(invalid) /\ invalid' = Tail(invalid)
  /\ UNCHANGED <<err, replies, subs, obuf, rbuf, ev, server, issued>>

\* The iterators over the two dictionaries; a name is marked as visited.
FreeSubscriptions ==
  /\ pc = "free" /\ replies = <<>> /\ invalid = <<>>
  /\ \E n \in Names :
       /\ subs[n] # NoCb
       /\ n \in Patterns => \A c \in Channels : subs[c] = NoCb
       /\ IF HasFn(subs[n])
          THEN Run(subs[n], NullReply, "freeCallback")
          ELSE UNCHANGED <<pc, flags, cb, reply, got>>
       /\ subs' = [subs EXCEPT ![n] = NoCb]
  /\ UNCHANGED <<err, replies, invalid, obuf, rbuf, ev, server, issued>>

FreeCallbackReturns ==
  /\ pc = "freeCallback"
  /\ pc' = "free" /\ flags' = flags \ {"inCallback"} /\ reply' = NullReply
  /\ UNCHANGED <<err, replies, invalid, subs, obuf, rbuf, cb, ev, server, history>>

\* The end of __redisAsyncFree: clean up the events, tell onDisconnect, free.
FreeContext ==
  /\ pc = "free" /\ replies = <<>> /\ invalid = <<>>
  /\ \A n \in Names : subs[n] = NoCb
  /\ pc' = "gone" /\ ev' = {} /\ net' = "closed"
  /\ obuf' = <<>> /\ rbuf' = <<>> /\ toServer' = <<>> /\ wire' = <<>>
  /\ cb' = NoCb
  /\ UNCHANGED <<flags, err, replies, invalid, subs, reply, served, traffic,
                 history>>

-----------------------------------------------------------------------------
(* What the user calls, from the event loop or from a callback.              *)

UserRuns == pc \in {"idle", "callback", "freeCallback"}

\* Fault: a command on a subscribed context is queued like any other.
PushCallbackPlain(kind, id) ==
  replies' = Append(replies, id) /\ UNCHANGED invalid

\* The list a command that is no (un)subscription has its callback pushed to.
PushCallback(kind, id) ==
  IF kind = "regular" /\ Has("subscribed")
  THEN invalid' = Append(invalid, id) /\ UNCHANGED replies
  ELSE replies' = Append(replies, id) /\ UNCHANGED invalid

\* __redisAsyncCommand: refused (REDIS_ERR) while the context closes, and an
\* UNSUBSCRIBE on a context that is not subscribed.
Command(kind, S) ==
  LET id == Len(issued) + 1 IN
  /\ UserRuns /\ id \in Ids /\ ~Closing
  /\ CASE kind = "subscribe" ->
            /\ S # {} /\ (S \subseteq Channels \/ S \subseteq Patterns)
            /\ flags' = flags \cup {"subscribed"}
            /\ subs' = [n \in Names |-> IF n \in S THEN id ELSE subs[n]]
            /\ UNCHANGED <<replies, invalid>>
       [] kind = "unsubscribe" ->
            /\ S # {} /\ (S \subseteq Channels \/ S \subseteq Patterns)
            /\ Has("subscribed")
            /\ UNCHANGED <<flags, subs, replies, invalid>>
       [] kind = "monitor" ->
            /\ S = {} /\ flags' = flags \cup {"monitoring"}
            /\ PushCallback(kind, id) /\ UNCHANGED subs
       [] OTHER ->
            /\ S = {} /\ PushCallback(kind, id) /\ UNCHANGED <<flags, subs>>
  /\ obuf' = Append(obuf, [id |-> id, kind |-> kind, names |-> S])
  /\ ev' = ev \cup {"write"}
  /\ issued' = Append(issued, [kind |-> kind, plain |-> ~Has("subscribed"),
                               names |-> S])
  /\ got' = Append(got, <<>>)
  /\ UNCHANGED <<pc, err, loop, server>>

\* Fault: outside of a callback the context ends although callbacks wait.
AsyncDisconnectNow ==
  /\ UserRuns
  /\ pc' = IF Has("inCallback") THEN pc ELSE "free"
  /\ flags' = flags \cup {"disconnecting"}
  /\ UNCHANGED <<err, replies, invalid, subs, obuf, loop, ev, server, history>>

\* redisAsyncDisconnect: in a callback only the flag is set; elsewhere the
\* context ends at once when no callback waits, also on a second call.
AsyncDisconnect ==
  /\ UserRuns
  /\ IF ~Has("inCallback") /\ replies = <<>>
     THEN pc' = "free"
     ELSE UNCHANGED pc
  /\ flags' = flags \cup {"disconnecting"}
  /\ UNCHANGED <<err, replies, invalid, subs, obuf, loop, ev, server, history>>

\* redisAsyncFree: deferred to the end of the callback it is called from.
AsyncFree ==
  /\ UserRuns /\ ~Has("freeing")
  /\ pc' = IF Has("inCallback") THEN pc ELSE "free"
  /\ flags' = flags \cup {"freeing"}
  /\ UNCHANGED <<err, replies, invalid, subs, obuf, loop, ev, server, history>>

-----------------------------------------------------------------------------
(* The event handlers.                                                       *)

\* __redisAsyncHandleConnect, when the connection could not be made.  SO_ERROR
\* is zero while connect is in progress, so that outcome ends the context or
\* goes on with the handler.
HandleConnectFails ==
  /\ pc = "idle" /\ ev # {} /\ ~Has("connected") /\ net = "closed"
  /\ Disconnect(TRUE, replies)
  /\ UNCHANGED <<replies, invalid, subs, obuf, loop, ev, server, history>>

\* redisAsyncHandleWrite: a prefix of the buffer goes out, an empty buffer is
\* "done".  What is sent to a closed connection is lost.
HandleWrite ==
  /\ pc = "idle" /\ "write" \in ev
  /\ \E k \in (IF obuf = <<>> THEN 0 ELSE 1) .. Len(obuf) :
       /\ obuf' = Drop(obuf, k)
       /\ toServer' = IF net = "closed" THEN toServer
                      ELSE toServer \o SubSeq(obuf, 1, k)
       /\ ev' = {"read"} \cup (IF k = Len(obuf) THEN {} ELSE {"write"})
  /\ flags' = flags \cup {"connected"}
  /\ UNCHANGED <<pc, err, replies, invalid, subs, loop, net, wire, served,
                 traffic, history>>

HandleWriteFails ==
  /\ pc = "idle" /\ "write" \in ev /\ Has("connected")
  /\ net = "closed" /\ obuf # <<>>
  /\ Disconnect(TRUE, replies)
  /\ UNCHANGED <<replies, invalid, subs, obuf, loop, ev, server, history>>

\* Bound: in monitor mode every tick without a complete reply makes ac->replies
\* longer, so that such ticks end when it has more entries than commands.
PartialRead == IF Has("monitoring") /\ Len(replies) > MaxCommands THEN 1 ELSE 0

\* redisAsyncHandleRead: some replies are complete, or a part of one has come;
\* then redisProcessCallbacks begins, with no callback at hand.
HandleRead ==
  /\ pc = "idle" /\ "read" \in ev /\ Has("connected") /\ wire # <<>>
  /\ \E k \in PartialRead .. Len(wire) : rbuf' = SubSeq(wire, 1, k) /\ wire' = Drop(wire, k)
  /\ pc' = "process"
  /\ UNCHANGED <<ctx, cb, reply, ev, net, toServer, served, traffic, history>>

HandleReadEof ==
  /\ pc = "idle" /\ "read" \in ev /\ Has("connected")
  /\ wire = <<>> /\ net = "closed"
  /\ Disconnect(TRUE, replies)
  /\ UNCHANGED <<replies, invalid, subs, obuf, loop, ev, server, history>>

-----------------------------------------------------------------------------
(* redisProcessCallbacks, one turn of its loop a step.                       *)

\* Hand reply r to callback id, or drop it when there is none.
Deliver(id, r) ==
  IF HasFn(id)
  THEN Run(id, r, "callback")
  ELSE cb' = id /\ UNCHANGED <<pc, flags, reply, got>>

ProcessPending ==
  LET r == Head(rbuf) IN
  /\ pc = "process" /\ rbuf # <<>> /\ replies # <<>>
  /\ replies' = Tail(replies) /\ rbuf' = Tail(rbuf)
  /\ Deliver(Head(replies), r)
  /\ UNCHANGED <<err, invalid, subs, obuf, ev, server, issued>>

\* No callback waits, and the reply is an error: the server is taken to turn
\* the client away, whatever the error answers.
ProcessRejected ==
  /\ pc = "process" /\ rbuf # <<>> /\ replies = <<>>
  /\ Head(rbuf).kind = "error"
  /\ rbuf' = Tail(rbuf)
  /\ Disconnect(TRUE, replies)
  /\ UNCHANGED <<replies, invalid, subs, obuf, cb, reply, ev, server, history>>

\* Fault: messages for patterns are looked up among the channels.
CallbackOfChannel(n) ==
  IF n \in Patterns THEN subs[CHOOSE c \in Channels : TRUE] ELSE subs[n]

\* The callback a message for name n is for.
CallbackOf(n) == subs[n]

\* __redisGetSubscribeCallback for a message: the callback of its name, or,
\* when there is none, the one the last turn left in cb.  The message that
\* ends a subscription removes it, and the last one ends subscribed mode.
ProcessMessage ==
  LET r == Head(rbuf)
      n == CHOOSE x \in r.names : TRUE
      found == CallbackOf(n) # NoCb
      ends == found /\ r.kind = "unsubscribe"
      id == IF found THEN CallbackOf(n) ELSE cb
      kept == IF ends /\ r.count = 0 THEN flags \ {"subscribed"} ELSE flags
  IN
  /\ pc = "process" /\ rbuf # <<>> /\ replies = <<>>
  /\ r.kind \in Pushes /\ Has("subscribed")
  /\ subs' = IF ends THEN [subs EXCEPT ![n] = NoCb] ELSE subs
  /\ cb' = id
  /\ IF HasFn(id)
     THEN /\ pc' = "callback" /\ flags' = kept \cup {"inCallback"}
          /\ reply' = r /\ got' = [got EXCEPT ![id] = Append(@, r)]
     ELSE flags' = kept /\ UNCHANGED <<pc, reply, got>>
  /\ rbuf' = Tail(rbuf)
  /\ UNCHANGED <<err, replies, invalid, obuf, ev, server, issued>>

\* Any other reply: the context must be subscribed or monitoring (the second
\* assertion).  On a subscribed one it goes to the next invalid command; with
\* none, and in monitor mode, cb holds the callback of the last turn.
ProcessOther ==
  LET r == Head(rbuf)
      shift == Has("subscribed") /\ invalid # <<>>
      id == IF shift THEN Head(invalid) ELSE cb
  IN
  /\ pc = "process" /\ rbuf # <<>> /\ replies = <<>> /\ r.kind # "error"
  /\ Has("subscribed") => r.kind \notin Pushes
  /\ IF Has("subscribed") \/ Has("monitoring")
     THEN /\ invalid' = IF shift THEN Tail(invalid) ELSE invalid
          /\ Deliver(id, r)
     ELSE pc' = "assertExpected" /\ UNCHANGED <<invalid, flags, cb, reply, got>>
  /\ rbuf' = Tail(rbuf)
  /\ UNCHANGED <<err, replies, subs, obuf, ev, server, issued>>

\* Fault: the context asked to be freed is used on.
CallbackReturnsOn ==
  /\ pc = "callback"
  /\ pc' = "process"
  /\ flags' = flags \ {"inCallback"} /\ reply' = NullReply
  /\ UNCHANGED <<err, replies, invalid, subs, obuf, rbuf, cb, ev, server, history>>

\* The callback returns; the context is freed when it asked for that.
CallbackReturns ==
  /\ pc = "callback"
  /\ pc' = IF Has("freeing") THEN "free" ELSE "process"
  /\ flags' = flags \ {"inCallback"} /\ reply' = NullReply
  /\ UNCHANGED <<err, replies, invalid, subs, obuf, rbuf, cb, ev, server, history>>

\* Fault: disconnects although a command still waits in the output buffer.
ProcessEndUnflushed ==
  /\ pc = "process" /\ rbuf = <<>>
  /\ IF Has("disconnecting")
     THEN Disconnect(err, replies) /\ UNCHANGED replies
     ELSE /\ pc' = "idle" /\ UNCHANGED <<flags, err>>
          /\ replies' = IF Has("monitoring") THEN Append(replies, cb) ELSE replies
  /\ cb' = NoCb
  /\ UNCHANGED <<invalid, subs, obuf, rbuf, reply, ev, server, history>>

\* No complete reply is left: disconnect when that was asked for and nothing
\* is under way, else wait for the next tick.
ProcessEnd ==
  /\ pc = "process" /\ rbuf = <<>>
  /\ IF Has("disconnecting") /\ obuf = <<>> /\ replies = <<>>
     THEN Disconnect(err, replies) /\ UNCHANGED replies
     ELSE /\ pc' = "idle" /\ UNCHANGED <<flags, err>>
          /\ replies' = IF Has("monitoring") THEN Append(replies, cb) ELSE replies
  /\ cb' = NoCb
  /\ UNCHANGED <<invalid, subs, obuf, rbuf, reply, ev, server, history>>

\* The reader refuses what has come, or has no memory for it: redisGetReply
\* fails, and the loop ends with a disconnect.
ProcessFails ==
  /\ pc = "process" /\ rbuf = <<>>
  /\ Disconnect(TRUE, replies)
  /\ UNCHANGED <<replies, invalid, subs, obuf, loop, ev, server, history>>

-----------------------------------------------------------------------------
(* The server and the network (external).                                    *)

app == <<pc, ctx, loop, ev, history>>

\* A context that is being freed does not see what comes after.
Seen == pc \notin {"free", "freeCallback", "gone"}

ServerAccepts ==
  /\ net = "pending" /\ Seen /\ net' = "up"
  /\ UNCHANGED <<app, toServer, wire, served, traffic>>

\* The server has too many clients: it says so and closes.
ServerRejects ==
  /\ net = "pending" /\ Seen /\ net' = "closed"
  /\ wire' = Append(wire, Answer("error", 0, {}, 0))
  /\ UNCHANGED <<app, toServer, served, traffic>>

ConnectionLost ==
  /\ net \in {"pending", "up"} /\ Seen /\ net' = "closed"
  /\ UNCHANGED <<app, toServer, wire, served, traffic>>

\* One message a name, with the number of names that are left.
SubscriptionMessages(kind, S) ==
  LET order == SetToSeq(S)
      left(i) == LET done == {order[j] : j \in 1 .. i} IN
                 IF kind = "subscribe" THEN served \cup done ELSE served \ done
  IN [i \in 1 .. Len(order) |->
        Answer(kind, 0, {order[i]}, Cardinality(left(i)))]

\* A subscribed connection answers other commands with an error, save QUIT.
ServerReplies ==
  LET c == Head(toServer) IN
  /\ net = "up" /\ Seen /\ toServer # <<>>
  /\ CASE c.kind = "subscribe" ->
            /\ wire' = wire \o SubscriptionMessages(c.kind, c.names)
            /\ served' = served \cup c.names
       [] c.kind = "unsubscribe" ->
            /\ wire' = wire \o SubscriptionMessages(c.kind, c.names)
            /\ served' = served \ c.names
       [] OTHER ->
            /\ \E kind \in IF served = {} THEN {"reply"} ELSE {"reply", "error"} :
                 wire' = Append(wire, Answer(kind, c.id, {}, 0))
            /\ UNCHANGED served
  /\ toServer' = Tail(toServer)
  /\ UNCHANGED <<app, net, traffic>>

InTransit(id) == \E i \in 1 .. Len(obuf \o toServer) : (obuf \o toServer)[i].id = id

\* Another client publishes, or runs a command that a monitor sees.
Traffic ==
  /\ net = "up" /\ Seen /\ traffic < MaxTraffic
  /\ \/ \E n \in served :
          wire' = Append(wire, Answer("message", 0, {n}, Cardinality(served)))
     \/ /\ \E i \in 1 .. Len(issued) :
             issued[i].kind = "monitor" /\ ~InTransit(i)
        /\ wire' = Append(wire, Answer("line", 0, {}, 0))
  /\ traffic' = traffic + 1
  /\ UNCHANGED <<app, net, toServer, served>>

-----------------------------------------------------------------------------

Handlers ==
  \/ HandleConnectFails \/ HandleWrite \/ HandleWriteFails
  \/ HandleRead \/ HandleReadEof
Process ==
  \/ ProcessPending \/ ProcessRejected
  \/ ProcessMessage \/ ProcessOther \/ ProcessEnd \/ ProcessFails
Freeing ==
  FreeReplies \/ FreeInvalid \/ FreeSubscriptions \/ FreeContext
Returns == CallbackReturns \/ FreeCallbackReturns

User ==
  \/ \E kind \in Kinds, S \in SUBSET Names : Command(kind, S)
  \/ AsyncDisconnect \/ AsyncFree
Environment ==
  ServerAccepts \/ ServerRejects \/ ConnectionLost \/ ServerReplies \/ Traffic

Next == Handlers \/ Process \/ Freeing \/ Returns \/ User \/ Environment

\* The event loop calls a handler whose event is ready and runs it to its end,
\* a callback returns, a write that is tried again and again makes progress,
\* and the server takes a connection and answers what it has received.  What
\* the user calls and what the network breaks is up to them.
Fairness ==
  /\ WF_vars(HandleConnectFails) /\ WF_vars(HandleReadEof)
  /\ SF_vars(HandleWrite) /\ SF_vars(HandleRead /\ rbuf' # <<>>)
  /\ WF_vars(Process) /\ WF_vars(Freeing) /\ WF_vars(Returns)
  /\ WF_vars(ServerAccepts \/ ServerRejects) /\ WF_vars(ServerReplies)

Spec == Init /\ [][Next]_vars /\ Fairness

-----------------------------------------------------------------------------
(* A user that keeps to what the context can do.  Nothing in the code asks   *)
(* for this, and without it the context fails, see MessageToSubscriber.      *)

\* An UNSUBSCRIBE whose last message has not been processed.
Unsubscribing ==
  \/ \E i \in 1 .. Len(obuf) : obuf[i].kind = "unsubscribe"
  \/ \E i \in 1 .. Len(toServer) : toServer[i].kind = "unsubscribe"
  \/ \E i \in 1 .. Len(wire) : wire[i].kind = "unsubscribe"
  \/ \E i \in 1 .. Len(rbuf) : rbuf[i].kind = "unsubscribe"

\* Nothing while an UNSUBSCRIBE is under way, UNSUBSCRIBE only what is
\* subscribed, MONITOR alone on a connection.
MayIssue(kind, S) ==
  /\ ~Unsubscribing /\ ~Has("monitoring")
  /\ kind = "unsubscribe" => \A n \in S : subs[n] # NoCb
  /\ kind = "monitor" => issued = <<>>

DisciplinedCommand(kind, S) == MayIssue(kind, S) /\ Command(kind, S)

DisciplinedUser ==
  \/ \E kind \in Kinds, S \in SUBSET Names : DisciplinedCommand(kind, S)
  \/ AsyncDisconnect \/ AsyncFree

DisciplinedNext ==
  Handlers \/ Process \/ Freeing \/ Returns \/ DisciplinedUser \/ Environment

DisciplinedSpec == Init /\ [][DisciplinedNext]_vars /\ Fairness

-----------------------------------------------------------------------------
(* What the context promises.                                                *)

Regular(id) == issued[id].kind = "regular"

\* The callback of a command runs at most once, and with the reply to that
\* very command, with the error of a server that turned the client away, or
\* with a null reply: replies and callbacks are paired by their order in two
\* lists, which a callback may extend while they are worked off.
OwnReplyOnce ==
  \A id \in 1 .. Len(issued) :
    Regular(id) =>
      /\ Len(got[id]) <= 1
      /\ \A i \in 1 .. Len(got[id]) :
           \/ got[id][i].to = id
           \/ got[id][i] = NullReply
           \/ got[id][i].kind = "error" /\ got[id][i].to = 0

\* What a subscription callback is given, once its context is not being freed,
\* is a message for a name it was registered for.
MessageToSubscriber ==
  pc = "callback" /\ issued[cb].kind = "subscribe" =>
    reply.kind \in Pushes /\ reply.names \subseteq issued[cb].names

\* For a clean disconnect no callback waits (the assertion of
\* __redisAsyncDisconnect), and a reply nobody waits for is a message (the
\* assertion of redisProcessCallbacks).  (With the types.)
AssertionsHold == TypeOK /\ pc \notin {"assertPending", "assertExpected"}

\* A command that has a callback.
Heard(id) == Regular(id) /\ id \notin Silent

\* A command issued on a context that was not subscribed loses its reply only
\* to an error or to a redisAsyncFree: a disconnect the user asked for waits.
CleanMeansAnswered ==
  pc = "gone" /\ ~err /\ ~Has("freeing") =>
    \A id \in 1 .. Len(issued) :
      Heard(id) /\ issued[id].plain => got[id] # <<>> /\ got[id][1] # NullReply

\* The callback of every command runs sooner or later: writes and reads are
\* scheduled, and what ends the context runs the callbacks that are left.
CallbackRuns ==
  \A id \in Ids : []<>
    (id \in 1 .. Len(issued) => ~Heard(id) \/ got[id] # <<>>)

\* A context the user asked to close is freed; one in monitor mode waits for
\* a line that need not come.
DisconnectEnds ==
  Closing /\ ~Has("monitoring") ~> pc = "gone"

=============================================================================
