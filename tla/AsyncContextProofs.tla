------------------------- MODULE AsyncContextProofs -------------------------
(* Theorems about the asynchronous context, for every number of commands,    *)
(* channels and patterns and every interleaving with the server: callbacks   *)
(* are given their own replies, at most one, and both assertions hold.  All  *)
(* of it is for a user that keeps to MayIssue (DisciplinedSpec); the code    *)
(* does not ask for that, and for any user (Spec) it does not hold.          *)
EXTENDS AsyncContext, FunctionTheorems, FiniteSetTheorems, SequenceTheorems, TLAPS

\* What is on its way from the server, and what is on its way to it.
Incoming == rbuf \o wire
Outgoing == toServer \o obuf

Live == pc \in {"idle", "process", "callback"}
Push(r) == r.kind \in Pushes
Unsub(r) == r.kind = "unsubscribe"
Subscribed(n) == subs[n] # NoCb

\* The commands whose callbacks wait, in the one list or the other.
Plain == {replies[i] : i \in 1 .. Len(replies)}
Waiting == Plain \cup {invalid[i] : i \in 1 .. Len(invalid)}

-----------------------------------------------------------------------------
(* The inductive invariant.                                                  *)

Issued(id) == id \in 1 .. Len(issued)

Entries == [kind : Kinds, plain : BOOLEAN, names : SUBSET Names]

FlagType ==
  /\ pc \in Labels /\ flags \subseteq Flags /\ err \in BOOLEAN
  /\ pc \in {"callback", "freeCallback"} <=> "inCallback" \in flags

ListType ==
  /\ replies \in Seq(Ids \cup {NoCb}) /\ invalid \in Seq(Ids \cup {NoCb})
  /\ subs \in [Names -> Ids \cup {NoCb}]

QueueType ==
  /\ obuf \in Seq(Commands) /\ toServer \in Seq(Commands)
  /\ rbuf \in Seq(Replies) /\ wire \in Seq(Replies)

CallbackType == cb \in Ids \cup {NoCb} /\ reply \in Replies

NetType ==
  /\ ev \subseteq {"read", "write"} /\ net \in {"pending", "up", "closed"}
  /\ served \subseteq Names /\ traffic \in 0 .. MaxTraffic

HistoryType ==
  /\ issued \in Seq(Entries) /\ Len(issued) <= MaxCommands
  /\ got \in Seq(Seq(Replies)) /\ Len(got) = Len(issued)

Types == FlagType /\ ListType /\ QueueType /\ CallbackType /\ NetType /\ HistoryType

\* MONITOR is alone on its connection.
Alone ==
  /\ Has("monitoring") =>
       /\ Len(issued) = 1 /\ ~Has("subscribed")
       /\ invalid = <<>> /\ \A n \in Names : ~Subscribed(n)
  /\ \A id \in 1 .. Len(issued) : issued[id].kind = "monitor" <=> Has("monitoring")
  /\ issued = <<>> => ~Has("subscribed")

\* Callbacks that are known to the context are those of commands; a
\* subscription has that of the last SUBSCRIBE of its name.
Known ==
  /\ cb = NoCb \/ Issued(cb)
  /\ \A id \in Waiting : id = NoCb \/ Issued(id)
  /\ \A n \in Names : Subscribed(n) =>
       Issued(subs[n]) /\ issued[subs[n]].kind = "subscribe" /\ n \in issued[subs[n]].names
  /\ pc = "idle" => rbuf = <<>>
  /\ pc = "callback" =>
       /\ cb # NoCb
       /\ issued[cb].kind = "subscribe" =>
            reply.kind \in Pushes /\ reply.names \subseteq issued[cb].names

\* Outside of monitor mode a command waits once, in the order of issue, and
\* has had no reply.
Lists ==
  /\ \A i, j \in 1 .. Len(replies) : i < j => replies[i] < replies[j]
  /\ \A i, j \in 1 .. Len(invalid) : i < j => invalid[i] < invalid[j]
  /\ \A i \in 1 .. Len(replies), j \in 1 .. Len(invalid) : replies[i] < invalid[j]
  /\ \A id \in Waiting : Issued(id) /\ Regular(id) /\ got[id] = <<>>

\* What is on its way from the server: messages for names that are
\* subscribed, replies to commands that wait, or the answer that turns the
\* client away.
Rejection(r) == r.kind = "error" /\ r.to = 0

Contents ==
  /\ \A i \in 1 .. Len(Incoming) :
       LET r == Incoming[i] IN
       \/ Push(r) /\ r.to = 0 /\ \E n \in Names : r.names = {n} /\ Subscribed(n)
       \/ r.kind \in {"reply", "error"} /\ r.to \in Waiting
       \/ Rejection(r) /\ net = "closed" /\ Len(Incoming) = 1
  /\ net = "pending" => Incoming = <<>> /\ served = {}

\* Replies come in the order of the lists: what waits longer has come before.
Ordered ==
  \A i \in 1 .. Len(Incoming) : Incoming[i].to # 0 =>
    /\ \A j \in 1 .. i - 1 : Incoming[j].to < Incoming[i].to
    /\ \A id \in Waiting : id <= Incoming[i].to => \E j \in 1 .. i : Incoming[j].to = id

\* While the connection stands every command that waits is on its way.
Flight ==
  net # "closed" =>
    /\ \A i \in 1 .. Len(Outgoing) :
         LET c == Outgoing[i] IN
         /\ Issued(c.id) /\ c.kind # "monitor"
         /\ c.kind = "regular" => c.id \in Waiting
         /\ \A j \in 1 .. i - 1 : Outgoing[j].id < c.id
         /\ \A j \in 1 .. Len(Incoming) : Incoming[j].to < c.id
    /\ \A id \in Waiting :
         \/ \E i \in 1 .. Len(Incoming) : Incoming[i].to = id
         \/ \E i \in 1 .. Len(Outgoing) : Outgoing[i].kind = "regular" /\ Outgoing[i].id = id

\* Messages come after the replies to what was issued before the SUBSCRIBE.
MessagesLater ==
  /\ \A i \in 1 .. Len(Incoming) : Push(Incoming[i]) =>
       \A id \in Plain : \E j \in 1 .. i - 1 : Incoming[j].to = id
  /\ net # "closed" =>
       /\ \A i \in 1 .. Len(Outgoing) :
            Outgoing[i].kind = "subscribe" => \A id \in Plain : id < Outgoing[i].id
       /\ served # {} => \A id \in Plain : \E j \in 1 .. Len(Incoming) : Incoming[j].to = id

\* The server's subscriptions and the context's, with what is on its way.
Subscriptions ==
  /\ \A n \in served : Subscribed(n)
  /\ (\E n \in Names : Subscribed(n)) \/ invalid # <<>> => Has("subscribed")
  /\ net # "closed" =>
       /\ \A i \in 1 .. Len(Outgoing) : Outgoing[i].kind \in {"subscribe", "unsubscribe"} =>
            Outgoing[i].names # {} /\ \A n \in Outgoing[i].names : Subscribed(n)
       /\ \A n \in Names : Subscribed(n) =>
            \/ n \in served
            \/ \E i \in 1 .. Len(Outgoing) :
                 Outgoing[i].kind = "subscribe" /\ n \in Outgoing[i].names
            \/ \E i \in 1 .. Len(Incoming) : Unsub(Incoming[i]) /\ n \in Incoming[i].names

\* An UNSUBSCRIBE is the last that was issued, and so are its messages.
Unsubscribes ==
  /\ net # "closed" =>
       \A i \in 1 .. Len(Outgoing) : Outgoing[i].kind = "unsubscribe" => i = Len(Outgoing)
  /\ \A i \in 1 .. Len(Incoming) : Unsub(Incoming[i]) =>
       /\ net # "closed" => Outgoing = <<>>
       /\ \A id \in Waiting : \E j \in 1 .. i - 1 : Incoming[j].to = id
       /\ \A n \in Names : Subscribed(n) =>
            n \in served \/ \E j \in 1 .. Len(Incoming) : Unsub(Incoming[j]) /\ n \in Incoming[j].names
       /\ Incoming[i].names \cap served = {}
       /\ \A j \in i + 1 .. Len(Incoming) :
            Push(Incoming[j]) => Incoming[j].names # Incoming[i].names
       /\ Incoming[i].count = 0 <=>
            served = {} /\ \A j \in i + 1 .. Len(Incoming) : ~Unsub(Incoming[j])

Pipeline == Contents /\ Ordered /\ Flight /\ MessagesLater /\ Subscriptions /\ Unsubscribes

\* The plain commands that wait no longer have their replies; a context that is
\* freed without an error, and not by redisAsyncFree, has no other.
Answers ==
  /\ Live => \A id \in 1 .. Len(issued) : Regular(id) =>
       /\ got[id] # <<>> => got[id][1] # NullReply
       /\ issued[id].plain /\ id \notin Silent => id \in Plain \/ got[id] # <<>>
  /\ ~Live => Closing
  /\ Live => ~err
  /\ ~Live /\ ~err /\ ~Has("freeing") =>
       /\ replies = <<>> \/ Has("monitoring")
       /\ \A id \in 1 .. Len(issued) :
            Heard(id) /\ issued[id].plain => got[id] # <<>> /\ got[id][1] # NullReply

NoAssertion == pc \notin {"assertPending", "assertExpected"}

IInv ==
  /\ Types /\ NoAssertion /\ Alone /\ Known /\ OwnReplyOnce /\ Answers
  /\ ~Has("monitoring") => Lists
  /\ ~Has("monitoring") /\ Live => Pipeline

-----------------------------------------------------------------------------
(* What the actions do, as the proofs below use it.                          *)

\* The handlers that end the context with an error.
LEMMA Breaks ==
  ASSUME HandleConnectFails \/ HandleWriteFails \/ HandleReadEof \/ ProcessRejected \/ ProcessFails
  PROVE  /\ pc \in {"idle", "process"} /\ pc' = "free" /\ err' = TRUE
         /\ flags' = flags \cup {"disconnecting"}
         /\ rbuf' = rbuf \/ (rbuf # <<>> /\ rbuf' = Tail(rbuf))
         /\ UNCHANGED <<replies, invalid, subs, obuf, cb, reply, ev, server, history>>
PROOF
  BY DEF HandleConnectFails, HandleWriteFails, HandleReadEof, ProcessRejected, ProcessFails,
     Disconnect, loop

\* What the server and the network leave alone.
LEMMA Outside ==
  ASSUME Environment
  PROVE  UNCHANGED app /\ pc \notin {"free", "freeCallback", "gone"}
PROOF
  BY DEF Environment, ServerAccepts, ServerRejects, ConnectionLost, ServerReplies, Traffic, Seen

\* Reply r goes to callback id, unless there is none.
Delivers(id, r) ==
  \/ ~HasFn(id) /\ cb' = id /\ UNCHANGED <<pc, flags, reply, got>>
  \/ /\ HasFn(id) /\ id # NoCb /\ cb' = id /\ reply' = r
     /\ pc' = "callback" /\ flags' = flags \cup {"inCallback"}
     /\ got' = [got EXCEPT ![id] = Append(@, r)]

LEMMA PendingEffect ==
  ASSUME ProcessPending
  PROVE  /\ pc = "process" /\ rbuf # <<>> /\ replies # <<>>
         /\ replies' = Tail(replies) /\ rbuf' = Tail(rbuf)
         /\ Delivers(Head(replies), Head(rbuf))
         /\ UNCHANGED <<err, invalid, subs, obuf, ev, server, issued>>
PROOF
  BY DEF ProcessPending, Delivers, Deliver, Run, HasFn

LEMMA OtherEffect ==
  ASSUME ProcessOther
  PROVE  /\ pc = "process" /\ rbuf # <<>> /\ replies = <<>> /\ Head(rbuf).kind # "error"
         /\ Has("subscribed") => ~Push(Head(rbuf))
         /\ rbuf' = Tail(rbuf)
         /\ UNCHANGED <<err, replies, subs, obuf, ev, server, issued>>
         /\ \/ /\ Has("subscribed") /\ invalid # <<>> /\ invalid' = Tail(invalid)
               /\ Delivers(Head(invalid), Head(rbuf))
            \/ /\ ~(Has("subscribed") /\ invalid # <<>>)
               /\ Has("subscribed") \/ Has("monitoring")
               /\ UNCHANGED invalid /\ Delivers(cb, Head(rbuf))
            \/ /\ ~Has("subscribed") /\ ~Has("monitoring")
               /\ pc' = "assertExpected" /\ UNCHANGED <<invalid, flags, cb, reply, got>>
PROOF
  BY DEF ProcessOther, Delivers, Deliver, Run, HasFn, Push

\* The head of a list is taken off, and gets the null reply.
Frees(list) ==
  /\ pc = "free" /\ list # <<>>
  /\ \/ ~HasFn(Head(list)) /\ UNCHANGED <<pc, flags, cb, reply, got>>
     \/ /\ HasFn(Head(list)) /\ Head(list) # NoCb /\ cb' = Head(list) /\ reply' = NullReply
        /\ pc' = "freeCallback" /\ flags' = flags \cup {"inCallback"}
        /\ got' = [got EXCEPT ![Head(list)] = Append(@, NullReply)]
  /\ UNCHANGED <<err, subs, obuf, rbuf, ev, server, issued>>

LEMMA FreeRepliesEffect ==
  ASSUME FreeReplies
  PROVE  Frees(replies) /\ replies' = Tail(replies) /\ UNCHANGED invalid
PROOF
  BY DEF FreeReplies, FreeShift, Run, Frees, HasFn

LEMMA FreeInvalidEffect ==
  ASSUME FreeInvalid
  PROVE  Frees(invalid) /\ replies = <<>> /\ invalid' = Tail(invalid) /\ UNCHANGED replies
PROOF
  BY DEF FreeInvalid, FreeShift, Run, Frees, HasFn

LEMMA CommandEffect ==
  ASSUME NEW kind \in Kinds, NEW S \in SUBSET Names, DisciplinedCommand(kind, S)
  PROVE  /\ pc \in {"idle", "callback", "freeCallback"} /\ Len(issued) + 1 \in Ids /\ ~Closing
         /\ ~Unsubscribing /\ ~Has("monitoring")
         /\ obuf' = Append(obuf, [id |-> Len(issued) + 1, kind |-> kind, names |-> S])
         /\ issued' = Append(issued, [kind |-> kind, plain |-> ~Has("subscribed"), names |-> S])
         /\ got' = Append(got, <<>>) /\ ev' = ev \cup {"write"}
         /\ UNCHANGED <<pc, err, loop, server>>
         /\ \/ /\ kind = "subscribe" /\ S # {} /\ flags' = flags \cup {"subscribed"}
               /\ subs' = [n \in Names |-> IF n \in S THEN Len(issued) + 1 ELSE subs[n]]
               /\ UNCHANGED <<replies, invalid>>
            \/ /\ kind = "unsubscribe" /\ S # {} /\ \A n \in S : Subscribed(n)
               /\ UNCHANGED <<flags, subs, replies, invalid>>
            \/ /\ kind = "monitor" /\ issued = <<>> /\ flags' = flags \cup {"monitoring"}
               /\ replies' = Append(replies, Len(issued) + 1) /\ UNCHANGED <<subs, invalid>>
            \/ /\ kind = "regular" /\ Has("subscribed")
               /\ invalid' = Append(invalid, Len(issued) + 1)
               /\ UNCHANGED <<flags, subs, replies>>
            \/ /\ kind = "regular" /\ ~Has("subscribed")
               /\ replies' = Append(replies, Len(issued) + 1)
               /\ UNCHANGED <<flags, subs, invalid>>
PROOF
  <1>1. kind \in {"regular", "subscribe", "unsubscribe", "monitor"}
    BY DEF Kinds
  <1>2. CASE kind = "subscribe"
    BY <1>2 DEF DisciplinedCommand, Command, UserRuns, MayIssue
  <1>3. CASE kind = "unsubscribe"
    BY <1>3 DEF DisciplinedCommand, Command, UserRuns, MayIssue, Subscribed
  <1>4. CASE kind = "monitor"
    BY <1>4 DEF DisciplinedCommand, Command, UserRuns, MayIssue, PushCallback
  <1>5. CASE kind = "regular"
    BY <1>5 DEF DisciplinedCommand, Command, UserRuns, MayIssue, PushCallback
  <1> QED
    BY <1>1, <1>2, <1>3, <1>4, <1>5

-----------------------------------------------------------------------------
(* Sequences, and the two streams that the queues make up.                   *)

LEMMA TailType ==
  ASSUME NEW S, NEW s \in Seq(S), s # <<>>
  PROVE  Tail(s) \in Seq(S) /\ Head(s) \in S /\ Head(s) = s[1] /\ Len(s) >= 1
PROOF
  BY HeadTailProperties, EmptySeq

LEMMA TailCat ==
  ASSUME NEW S, NEW s \in Seq(S), NEW t \in Seq(S), s # <<>>
  PROVE  Tail(s) \o t = Tail(s \o t) /\ s \o t # <<>> /\ (s \o t)[1] = Head(s)
PROOF
  <1>1. Tail(s) \in Seq(S) /\ Len(Tail(s)) = Len(s) - 1
        /\ \A i \in 1 .. Len(s) - 1 : Tail(s)[i] = s[i + 1]
    BY HeadTailProperties
  <1>2. /\ s \o t \in Seq(S) /\ Len(s \o t) = Len(s) + Len(t)
        /\ \A i \in 1 .. Len(s) + Len(t) : (s \o t)[i] = IF i <= Len(s) THEN s[i] ELSE t[i - Len(s)]
    BY ConcatProperties
  <1>3. /\ Tail(s) \o t \in Seq(S) /\ Len(Tail(s) \o t) = Len(s) - 1 + Len(t)
        /\ \A i \in 1 .. Len(s) - 1 + Len(t) :
             (Tail(s) \o t)[i] = IF i <= Len(s) - 1 THEN Tail(s)[i] ELSE t[i - (Len(s) - 1)]
    BY <1>1, ConcatProperties
  <1>4. Len(s) \in Nat \ {0} /\ Len(t) \in Nat /\ Head(s) = s[1]
    BY EmptySeq, LenProperties
  <1>5. s \o t # <<>> /\ (s \o t)[1] = Head(s)
    BY <1>2, <1>4, EmptySeq
  <1>6. /\ Tail(s \o t) \in Seq(S) /\ Len(Tail(s \o t)) = Len(s) + Len(t) - 1
        /\ \A i \in 1 .. Len(s) + Len(t) - 1 : Tail(s \o t)[i] = (s \o t)[i + 1]
    BY <1>2, <1>5, HeadTailProperties
  <1>7. ASSUME NEW i \in 1 .. Len(s) - 1 + Len(t)
        PROVE  (Tail(s) \o t)[i] = Tail(s \o t)[i]
    <2>1. (Tail(s) \o t)[i] = IF i <= Len(s) - 1 THEN s[i + 1] ELSE t[i - (Len(s) - 1)]
      BY <1>1, <1>3, <1>4
    <2>2. Tail(s \o t)[i] = IF i + 1 <= Len(s) THEN s[i + 1] ELSE t[i + 1 - Len(s)]
      BY <1>2, <1>4, <1>6
    <2> QED
      BY <2>1, <2>2, <1>4
  <1> HIDE <1>1, <1>2
  <1>8. Tail(s) \o t = Tail(s \o t)
    <2>1. Len(Tail(s) \o t) = Len(Tail(s \o t))
      BY <1>3, <1>4, <1>6
    <2> QED
      BY <1>3, <1>6, <1>7, <2>1, SeqEqual
  <1> QED
    BY <1>5, <1>8

LEMMA SplitCat ==
  ASSUME NEW S, NEW s \in Seq(S), NEW k \in 0 .. Len(s)
  PROVE  /\ SubSeq(s, 1, k) \in Seq(S) /\ Drop(s, k) \in Seq(S)
         /\ SubSeq(s, 1, k) \o Drop(s, k) = s
PROOF
  <1>1. Len(s) \in Nat /\ \A i \in 1 .. Len(s) : s[i] \in S
    BY LenProperties, ElementOfSeq
  <1>2. SubSeq(s, 1, k) \in Seq(S) /\ SubSeq(s, k + 1, Len(s)) \in Seq(S)
    BY <1>1, SubSeqProperties
  <1>3. SubSeq(s, 1, k) \o SubSeq(s, k + 1, Len(s)) = SubSeq(s, 1, Len(s))
    <2>1. 1 \in 1 .. Len(s) + 1 /\ k \in 1 - 1 .. Len(s) /\ Len(s) \in k .. Len(s)
      BY <1>1
    <2> QED
      BY <2>1, ConcatAdjacentSubSeq
  <1> QED
    BY <1>2, <1>3, SubSeqFull DEF Drop

LEMMA AppendCat ==
  ASSUME NEW S, NEW s \in Seq(S), NEW t \in Seq(S), NEW e \in S
  PROVE  s \o Append(t, e) = Append(s \o t, e)
PROOF
  <1>1. <<e>> \in Seq(S) /\ s \o t \in Seq(S)
    BY ConcatProperties
  <1>2. s \o Append(t, e) = s \o (t \o <<e>>) /\ Append(s \o t, e) = (s \o t) \o <<e>>
    BY <1>1, AppendIsConcat
  <1> QED
    BY <1>1, <1>2, ConcatAssociative

LEMMA StreamType ==
  ASSUME QueueType
  PROVE  /\ Incoming \in Seq(Replies) /\ Outgoing \in Seq(Commands)
         /\ Len(Incoming) = Len(rbuf) + Len(wire) /\ Len(Outgoing) = Len(toServer) + Len(obuf)
         /\ \A i \in 1 .. Len(rbuf) : Incoming[i] = rbuf[i]
         /\ \A i \in 1 .. Len(wire) : Incoming[Len(rbuf) + i] = wire[i]
         /\ \A i \in 1 .. Len(toServer) : Outgoing[i] = toServer[i]
         /\ \A i \in 1 .. Len(obuf) : Outgoing[Len(toServer) + i] = obuf[i]
PROOF
  <1>1. /\ Len(rbuf) \in Nat /\ Len(wire) \in Nat /\ Len(toServer) \in Nat /\ Len(obuf) \in Nat
    BY LenProperties DEF QueueType
  <1>2. /\ Incoming \in Seq(Replies) /\ Len(Incoming) = Len(rbuf) + Len(wire)
        /\ \A i \in 1 .. Len(rbuf) + Len(wire) :
             Incoming[i] = IF i <= Len(rbuf) THEN rbuf[i] ELSE wire[i - Len(rbuf)]
    BY ConcatProperties DEF QueueType, Incoming
  <1>3. /\ Outgoing \in Seq(Commands) /\ Len(Outgoing) = Len(toServer) + Len(obuf)
        /\ \A i \in 1 .. Len(toServer) + Len(obuf) :
             Outgoing[i] = IF i <= Len(toServer) THEN toServer[i] ELSE obuf[i - Len(toServer)]
    BY ConcatProperties DEF QueueType, Outgoing
  <1>4. ASSUME NEW i \in 1 .. Len(rbuf)
        PROVE  Incoming[i] = rbuf[i]
    BY <1>1, <1>2
  <1>5. ASSUME NEW i \in 1 .. Len(wire)
        PROVE  Incoming[Len(rbuf) + i] = wire[i]
    <2>1. Len(rbuf) + i \in 1 .. Len(rbuf) + Len(wire) /\ ~(Len(rbuf) + i <= Len(rbuf))
          /\ (Len(rbuf) + i) - Len(rbuf) = i
      BY <1>1
    <2> QED
      BY <1>2, <2>1
  <1>6. ASSUME NEW i \in 1 .. Len(toServer)
        PROVE  Outgoing[i] = toServer[i]
    BY <1>1, <1>3
  <1>7. ASSUME NEW i \in 1 .. Len(obuf)
        PROVE  Outgoing[Len(toServer) + i] = obuf[i]
    <2>1. Len(toServer) + i \in 1 .. Len(toServer) + Len(obuf) /\ ~(Len(toServer) + i <= Len(toServer))
          /\ (Len(toServer) + i) - Len(toServer) = i
      BY <1>1
    <2> QED
      BY <1>3, <2>1
  <1> QED
    BY <1>2, <1>3, <1>4, <1>5, <1>6, <1>7

\* A reply is taken off the stream that comes in.
LEMMA IncomingTail ==
  ASSUME QueueType, rbuf # <<>>, rbuf' = Tail(rbuf), wire' = wire
  PROVE  Incoming # <<>> /\ Incoming' = Tail(Incoming) /\ Head(rbuf) = Incoming[1]
PROOF
  BY TailCat DEF QueueType, Incoming

LEMMA IncomingHead ==
  ASSUME QueueType, rbuf # <<>>
  PROVE  Incoming # <<>> /\ Head(rbuf) = Incoming[1] /\ Len(Incoming) >= 1
PROOF
  <1>1. Incoming # <<>> /\ Head(rbuf) = Incoming[1]
    BY TailCat DEF QueueType, Incoming
  <1> QED
    BY <1>1, StreamType, EmptySeq

\* Reading and writing move replies and commands, but not in the streams.
LEMMA IncomingRead ==
  ASSUME QueueType, HandleRead, rbuf = <<>>
  PROVE  QueueType' /\ Incoming' = Incoming /\ Outgoing' = Outgoing
PROOF
  <1>1. PICK k \in 0 .. Len(wire) : rbuf' = SubSeq(wire, 1, k) /\ wire' = Drop(wire, k)
    BY DEF HandleRead, PartialRead
  <1>2. /\ rbuf' \in Seq(Replies) /\ wire' \in Seq(Replies) /\ rbuf' \o wire' = wire
    BY <1>1, SplitCat DEF QueueType
  <1>3. rbuf \o wire = wire
    BY ConcatEmptySeq DEF QueueType
  <1> QED
    BY <1>2, <1>3 DEF QueueType, Incoming, Outgoing, HandleRead, ctx

LEMMA OutgoingWrite ==
  ASSUME QueueType, HandleWrite
  PROVE  QueueType' /\ (net # "closed" => Outgoing' = Outgoing) /\ Incoming' = Incoming
PROOF
  <1>1. PICK k \in 0 .. Len(obuf) :
          /\ obuf' = Drop(obuf, k)
          /\ toServer' = IF net = "closed" THEN toServer ELSE toServer \o SubSeq(obuf, 1, k)
    BY LenProperties DEF HandleWrite, QueueType
  <1> DEFINE sent == SubSeq(obuf, 1, k)
  <1>2. sent \in Seq(Commands) /\ obuf' \in Seq(Commands) /\ sent \o obuf' = obuf
    BY <1>1, SplitCat DEF QueueType
  <1> HIDE DEF sent
  <1>3. toServer \o sent \in Seq(Commands) /\ (toServer \o sent) \o obuf' = toServer \o obuf
    <2>1. toServer \in Seq(Commands)
      BY DEF QueueType
    <2>2. toServer \o sent \in Seq(Commands)
      BY <1>2, <2>1, ConcatProperties
    <2>3. ASSUME NEW t \in Seq(Commands)
          PROVE  (toServer \o sent) \o t = toServer \o (sent \o t)
      <3>1. sent \in Seq(Commands)
        BY <1>2
      <3> QED
        BY <2>1, <3>1, ConcatAssociative
    <2>4. (toServer \o sent) \o obuf' = toServer \o (sent \o obuf')
      BY <1>2, <2>3
    <2> QED
      BY <1>2, <2>2, <2>4
  <1>4. rbuf' = rbuf /\ wire' = wire
    BY DEF HandleWrite, loop
  <1>5. toServer' = IF net = "closed" THEN toServer ELSE toServer \o sent
    BY <1>1 DEF sent
  <1> QED
    BY <1>2, <1>3, <1>4, <1>5 DEF QueueType, Incoming, Outgoing

LEMMA IncomingAppend ==
  ASSUME QueueType, NEW r \in Replies, wire' = Append(wire, r), rbuf' = rbuf
  PROVE  Incoming' = Append(Incoming, r) /\ wire' \in Seq(Replies)
PROOF
  BY AppendCat, AppendProperties DEF QueueType, Incoming

LEMMA OutgoingAppend ==
  ASSUME QueueType, NEW c \in Commands, obuf' = Append(obuf, c), toServer' = toServer
  PROVE  Outgoing' = Append(Outgoing, c) /\ obuf' \in Seq(Commands)
PROOF
  BY AppendCat, AppendProperties DEF QueueType, Outgoing

LEMMA OutgoingTail ==
  ASSUME QueueType, toServer # <<>>, toServer' = Tail(toServer), obuf' = obuf
  PROVE  /\ Outgoing # <<>> /\ Outgoing' = Tail(Outgoing) /\ Head(toServer) = Outgoing[1]
         /\ toServer' \in Seq(Commands)
PROOF
  BY TailCat, TailType DEF QueueType, Outgoing

-----------------------------------------------------------------------------
(* The server's answers.                                                     *)

LEMMA NullType == NullReply \in Replies
PROOF
  <1>1. 0 \in 0 .. Cardinality(Names)
    BY AsyncAssumption, FS_CardinalityType DEF Names
  <1> QED
    BY <1>1 DEF NullReply, Replies

LEMMA NameCount ==
  ASSUME NEW S \in SUBSET Names
  PROVE  /\ IsFiniteSet(S) /\ Cardinality(S) \in 0 .. Cardinality(Names)
         /\ Cardinality(S) = 0 <=> S = {}
PROOF
  <1>1. IsFiniteSet(Names)
    BY AsyncAssumption DEF Names
  <1>2. IsFiniteSet(S) /\ Cardinality(S) <= Cardinality(Names)
    BY <1>1, FS_Subset
  <1>3. Cardinality(S) \in Nat /\ Cardinality(Names) \in Nat
    BY <1>1, <1>2, FS_CardinalityType
  <1> QED
    BY <1>2, <1>3, FS_EmptySet

\* SetToSeq lists every member of a finite set once.
LEMMA InOrder ==
  ASSUME NEW S, IsFiniteSet(S)
  PROVE  /\ SetToSeq(S) \in [1 .. Cardinality(S) -> S] /\ Cardinality(S) \in Nat
         /\ Len(SetToSeq(S)) = Cardinality(S)
         /\ \A i, j \in 1 .. Cardinality(S) : SetToSeq(S)[i] = SetToSeq(S)[j] => i = j
         /\ \A x \in S : \E i \in 1 .. Cardinality(S) : SetToSeq(S)[i] = x
PROOF
  <1> DEFINE n == Cardinality(S)
             f == SetToSeq(S)
  <1>1. n \in Nat /\ ExistsBijection(1 .. n, S)
    BY FS_CardinalityType
  <1>2. PICK b \in Bijection(1 .. n, S) : TRUE
    BY <1>1, Fun_ExistsBij
  <1>3. b \in [1 .. n -> S] /\ \A i, j \in 1 .. n : b[i] = b[j] => i = j
    BY <1>2, Fun_BijectionProperties
  <1>4. \E g \in [1 .. n -> S] : IsInjective(g)
    BY <1>3 DEF IsInjective
  <1>5. f \in [1 .. n -> S] /\ IsInjective(f)
    BY <1>4 DEF SetToSeq
  <1>6. f \in Injection(1 .. n, S)
    BY <1>5, Fun_IsInj DEF IsInjective
  <1>7. f \in Surjection(1 .. n, S)
    <2>1. IsFiniteSet(1 .. n) /\ Cardinality(1 .. n) = n
      BY <1>1, FS_Interval
    <2> QED
      BY <1>6, <2>1, FS_Injection
  <1>8. \A x \in S : \E i \in 1 .. n : f[i] = x
    BY <1>7 DEF Surjection
  <1>9. Len(f) = n
    BY <1>1, <1>5
  <1> QED
    BY <1>1, <1>5, <1>8, <1>9 DEF IsInjective

\* The messages that answer a (P)SUBSCRIBE or (P)UNSUBSCRIBE: one a name.
Messages(kind, S, msgs) ==
  /\ msgs \in Seq(Replies) /\ Len(msgs) \in Nat
  /\ \A i \in 1 .. Len(msgs) :
       msgs[i].kind = kind /\ msgs[i].to = 0 /\ \E n \in S : msgs[i].names = {n}
  /\ \A i, j \in 1 .. Len(msgs) : i # j => msgs[i].names # msgs[j].names
  /\ \A n \in S : \E i \in 1 .. Len(msgs) : msgs[i].names = {n}

\* The last of them says whether a subscription is left.
LEMMA MessagesOf ==
  ASSUME NetType, NEW kind \in {"subscribe", "unsubscribe"}, NEW S \in SUBSET Names
  PROVE  /\ Messages(kind, S, SubscriptionMessages(kind, S))
         /\ kind = "unsubscribe" /\ S \subseteq served =>
              \A i \in 1 .. Len(SubscriptionMessages(kind, S)) :
                SubscriptionMessages(kind, S)[i].count = 0 <=>
                  served = S /\ i = Len(SubscriptionMessages(kind, S))
PROOF
  <1> DEFINE n == Cardinality(S)
             f == SetToSeq(S)
             done(i) == {f[j] : j \in 1 .. i}
             left(i) == IF kind = "subscribe" THEN served \cup done(i) ELSE served \ done(i)
             msgs == SubscriptionMessages(kind, S)
  <1>1. /\ f \in [1 .. n -> S] /\ n \in Nat /\ Len(f) = n
        /\ \A i, j \in 1 .. n : f[i] = f[j] => i = j
        /\ \A x \in S : \E i \in 1 .. n : f[i] = x
    BY NameCount, InOrder
  <1>2. msgs = [i \in 1 .. n |-> Answer(kind, 0, {f[i]}, Cardinality(left(i)))]
    BY <1>1 DEF SubscriptionMessages
  <1>3. \A i \in 1 .. n : left(i) \in SUBSET Names
    <2>1. served \in SUBSET Names
      BY DEF NetType
    <2> QED
      BY <1>1, <2>1
  <1>4. \A i \in 1 .. n : Cardinality(left(i)) \in 0 .. Cardinality(Names)
                          /\ (Cardinality(left(i)) = 0 <=> left(i) = {})
    BY <1>3, NameCount
  <1> HIDE DEF left
  <1>5. \A i \in 1 .. n : msgs[i] \in Replies /\ f[i] \in S
    <2> SUFFICES ASSUME NEW i \in 1 .. n
                 PROVE  msgs[i] \in Replies /\ f[i] \in S
      OBVIOUS
    <2>1. f[i] \in S
      BY <1>1
    <2>2. Answer(kind, 0, {f[i]}, Cardinality(left(i))) \in Replies
      BY <1>4, <2>1 DEF Answer, Replies, Pushes
    <2> QED
      BY <1>2, <2>1, <2>2
  <1>6. msgs \in Seq(Replies) /\ Len(msgs) = n
    <2> HIDE DEF msgs, f, n
    <2>1. msgs \in [1 .. n -> Replies]
      BY <1>2, <1>5
    <2> QED
      BY <1>1, <2>1
  <1>7. \A i \in 1 .. n : msgs[i].kind = kind /\ msgs[i].to = 0 /\ msgs[i].names = {f[i]}
                          /\ msgs[i].count = Cardinality(left(i))
    BY <1>2 DEF Answer
  <1>8. Messages(kind, S, msgs)
    <2>1. \A i \in 1 .. n : \E x \in S : msgs[i].names = {x}
      BY <1>5, <1>7
    <2> HIDE DEF msgs, f, n
    <2>2. ASSUME NEW i \in 1 .. n, NEW j \in 1 .. n, i # j
          PROVE  msgs[i].names # msgs[j].names
      <3>1. f[i] # f[j]
        BY <1>1, <2>2
      <3>2. msgs[i].names = {f[i]} /\ msgs[j].names = {f[j]}
        BY <1>7
      <3> QED
        BY <3>1, <3>2
    <2>3. \A x \in S : \E i \in 1 .. n : msgs[i].names = {x}
      BY <1>1, <1>7
    <2> QED
      BY <1>1, <1>6, <1>7, <2>1, <2>2, <2>3 DEF Messages
  <1>9. ASSUME kind = "unsubscribe", S \subseteq served, NEW i \in 1 .. n
        PROVE  left(i) = {} <=> served = S /\ i = n
    <2>1. left(i) = served \ done(i)
      BY <1>9 DEF left
    <2>2. CASE i = n
      BY <1>1, <1>9, <2>1, <2>2
    <2>3. CASE i # n
      <3>1. n \in 1 .. n /\ i < n
        BY <1>1, <2>3
      <3>2. f[n] \in S /\ f[n] \notin done(i)
        BY <1>1, <3>1
      <3> QED
        BY <1>9, <2>1, <2>3, <3>2
    <2> QED
      BY <2>2, <2>3
  <1> QED
    BY <1>4, <1>6, <1>7, <1>8, <1>9

LEMMA AnswersEffect ==
  ASSUME ServerReplies, QueueType, NetType
  PROVE  LET c == Head(toServer) IN
         /\ net = "up" /\ net' = "up" /\ toServer # <<>> /\ toServer' = Tail(toServer)
         /\ c \in Commands /\ UNCHANGED <<app, traffic>>
         /\ \/ /\ c.kind = "subscribe" /\ served' = served \cup c.names
               /\ \E msgs \in Seq(Replies) :
                    wire' = wire \o msgs /\ Messages(c.kind, c.names, msgs)
            \/ /\ c.kind = "unsubscribe" /\ served' = served \ c.names
               /\ \E msgs \in Seq(Replies) :
                    /\ wire' = wire \o msgs /\ Messages(c.kind, c.names, msgs)
                    /\ c.names \subseteq served =>
                         \A i \in 1 .. Len(msgs) :
                           msgs[i].count = 0 <=> served = c.names /\ i = Len(msgs)
            \/ /\ c.kind \in {"regular", "monitor"} /\ UNCHANGED served
               /\ \E r \in Replies :
                    /\ wire' = Append(wire, r) /\ r.to = c.id
                    /\ r.kind = "reply" \/ (r.kind = "error" /\ served # {})
PROOF
  <1> DEFINE c == Head(toServer)
  <1>1. /\ net = "up" /\ net' = "up" /\ toServer # <<>> /\ toServer' = Tail(toServer)
        /\ UNCHANGED <<app, traffic>>
    BY DEF ServerReplies
  <1>2. c \in Commands
    BY <1>1, TailType DEF QueueType
  <1>3. c.id \in Ids /\ c.kind \in Kinds /\ c.names \in SUBSET Names
    BY <1>2 DEF Commands
  <1>4. CASE c.kind = "subscribe"
    <2>1. wire' = wire \o SubscriptionMessages(c.kind, c.names) /\ served' = served \cup c.names
      BY <1>4 DEF ServerReplies
    <2>2. Messages(c.kind, c.names, SubscriptionMessages(c.kind, c.names))
      BY <1>3, <1>4, MessagesOf
    <2> QED
      BY <1>1, <1>2, <1>4, <2>1, <2>2 DEF Messages
  <1>5. CASE c.kind = "unsubscribe"
    <2>1. wire' = wire \o SubscriptionMessages(c.kind, c.names) /\ served' = served \ c.names
      BY <1>5 DEF ServerReplies
    <2>2. Messages(c.kind, c.names, SubscriptionMessages(c.kind, c.names))
          /\ (c.names \subseteq served =>
                \A i \in 1 .. Len(SubscriptionMessages(c.kind, c.names)) :
                  SubscriptionMessages(c.kind, c.names)[i].count = 0 <=>
                    served = c.names /\ i = Len(SubscriptionMessages(c.kind, c.names)))
      BY <1>3, <1>5, MessagesOf
    <2> HIDE DEF c
    <2> QED
      BY <1>1, <1>2, <1>5, <2>1, <2>2 DEF Messages, c
  <1>6. CASE c.kind \in {"regular", "monitor"}
    <2>1. PICK kind \in IF served = {} THEN {"reply"} ELSE {"reply", "error"} :
            wire' = Append(wire, Answer(kind, c.id, {}, 0))
      BY <1>6 DEF ServerReplies
    <2>2. 0 \in 0 .. Cardinality(Names)
      BY NullType DEF NullReply, Replies
    <2>3. Answer(kind, c.id, {}, 0) \in Replies
      BY <1>3, <2>1, <2>2 DEF Answer, Replies
    <2>4. served' = served
      BY <1>6 DEF ServerReplies
    <2> HIDE DEF c
    <2>5. \E r \in Replies : /\ wire' = Append(wire, r) /\ r.to = c.id
                             /\ r.kind = "reply" \/ (r.kind = "error" /\ served # {})
      BY <2>1, <2>3 DEF Answer
    <2> QED
      BY <1>1, <1>2, <1>6, <2>4, <2>5 DEF c
  <1> QED
    BY <1>3, <1>4, <1>5, <1>6 DEF Kinds

-----------------------------------------------------------------------------
(* The reply that is processed next, and who it is for.                      *)

LEMMA FirstWaiting ==
  ASSUME ListType, Lists
  PROVE  /\ replies # <<>> => Head(replies) \in Plain /\ \A id \in Waiting : Head(replies) <= id
         /\ replies = <<>> /\ invalid # <<>> =>
              Head(invalid) \in Waiting /\ \A id \in Waiting : Head(invalid) <= id
         /\ (Plain = {} <=> replies = <<>>) /\ (Waiting = {} <=> replies = <<>> /\ invalid = <<>>)
         /\ Plain \subseteq Waiting /\ \A id \in Waiting : id \in Nat \ {0}
PROOF
  <1>1. /\ Len(replies) \in Nat /\ Len(invalid) \in Nat
        /\ replies # <<>> => Len(replies) >= 1 /\ Head(replies) = replies[1]
        /\ invalid # <<>> => Len(invalid) >= 1 /\ Head(invalid) = invalid[1]
        /\ replies = <<>> => Len(replies) = 0
        /\ invalid = <<>> => Len(invalid) = 0
    BY LenProperties, TailType, EmptySeq DEF ListType
  <1>2. \A id \in Waiting : id \in Nat \ {0}
    BY LenProperties, AsyncAssumption DEF Lists, Issued
  <1>3. /\ \A i \in 1 .. Len(replies) : replies[i] \in Plain /\ replies[i] \in Waiting
        /\ \A i \in 1 .. Len(invalid) : invalid[i] \in Waiting
        /\ \A id \in Plain : \E i \in 1 .. Len(replies) : id = replies[i]
        /\ \A id \in Waiting : \/ \E i \in 1 .. Len(replies) : id = replies[i]
                               \/ \E i \in 1 .. Len(invalid) : id = invalid[i]
    BY DEF Plain, Waiting
  <1>4. /\ \A i \in 1 .. Len(replies) : replies[i] \in Nat
        /\ \A i \in 1 .. Len(invalid) : invalid[i] \in Nat
    BY <1>2, <1>3
  <1>5. ASSUME replies # <<>>, NEW id \in Waiting
        PROVE  replies[1] <= id
    <2>1. 1 \in 1 .. Len(replies)
      BY <1>1, <1>5
    <2>2. CASE \E i \in 1 .. Len(replies) : id = replies[i]
      <3>1. PICK i \in 1 .. Len(replies) : id = replies[i]
        BY <2>2
      <3>2. i = 1 \/ 1 < i
        BY <1>1, <3>1
      <3> QED
        BY <1>4, <2>1, <3>1, <3>2 DEF Lists
    <2>3. CASE \E i \in 1 .. Len(invalid) : id = invalid[i]
      BY <1>4, <2>1, <2>3 DEF Lists
    <2> QED
      BY <1>3, <2>2, <2>3
  <1>6. ASSUME replies = <<>>, invalid # <<>>, NEW id \in Waiting
        PROVE  invalid[1] <= id
    <2>1. PICK i \in 1 .. Len(invalid) : id = invalid[i]
      BY <1>1, <1>3, <1>6
    <2>2. 1 \in 1 .. Len(invalid) /\ (i = 1 \/ 1 < i)
      BY <1>1, <1>6, <2>1
    <2> QED
      BY <1>4, <2>1, <2>2 DEF Lists
  <1>7. Plain = {} <=> replies = <<>>
    BY <1>1, <1>3
  <1>8. Waiting = {} <=> replies = <<>> /\ invalid = <<>>
    BY <1>1, <1>3
  <1>9. /\ replies # <<>> => replies[1] \in Plain
        /\ invalid # <<>> => invalid[1] \in Waiting
    BY <1>1, <1>3
  <1> QED
    BY <1>1, <1>2, <1>5, <1>6, <1>7, <1>8, <1>9 DEF Waiting

\* Outside of monitor mode the reply that is processed next is a message for a
\* name that is subscribed, when no command from before waits, or the reply to
\* the command that waits longest, or the answer that turns the client away.
LEMMA NextReply ==
  ASSUME IInv, pc = "process", rbuf # <<>>, ~Has("monitoring")
  PROVE  LET r == Head(rbuf) IN
         /\ r \in Replies
         /\ \/ /\ Push(r) /\ r.to = 0 /\ replies = <<>> /\ Has("subscribed")
               /\ Unsub(r) => invalid = <<>>
               /\ \E n \in Names : r.names = {n} /\ Subscribed(n)
            \/ /\ r.kind \in {"reply", "error"} /\ r.to # 0
               /\ replies # <<>> => r.to = Head(replies)
               /\ replies = <<>> => invalid # <<>> /\ r.to = Head(invalid) /\ Has("subscribed")
            \/ Rejection(r) /\ net = "closed" /\ Len(Incoming) = 1
PROOF
  <1> DEFINE r == Head(rbuf)
  <1>1. Types /\ Lists /\ Pipeline
    BY DEF IInv, Live
  <1>2. r \in Replies /\ r = Incoming[1] /\ Len(Incoming) >= 1 /\ Len(Incoming) \in Nat
    BY <1>1, IncomingHead, TailType, StreamType, LenProperties DEF Types, QueueType
  <1>3. 1 \in 1 .. Len(Incoming)
    BY <1>2
  <1> HIDE DEF r
  <1>4. \/ Push(r) /\ r.to = 0 /\ \E n \in Names : r.names = {n} /\ Subscribed(n)
        \/ r.kind \in {"reply", "error"} /\ r.to \in Waiting
        \/ Rejection(r) /\ net = "closed" /\ Len(Incoming) = 1
    BY <1>1, <1>2, <1>3 DEF Pipeline, Contents
  <1>5. CASE Push(r) /\ r.to = 0 /\ \E n \in Names : r.names = {n} /\ Subscribed(n)
    <2>1. Plain = {}
      BY <1>1, <1>2, <1>3, <1>5 DEF Pipeline, MessagesLater
    <2>2. Unsub(r) => Waiting = {}
      BY <1>1, <1>2, <1>3, <1>5 DEF Pipeline, Unsubscribes
    <2>3. Has("subscribed")
      BY <1>1, <1>5 DEF Pipeline, Subscriptions
    <2> QED
      BY <1>1, <1>2, <1>5, <2>1, <2>2, <2>3, FirstWaiting DEF Types, r
  <1>6. CASE r.kind \in {"reply", "error"} /\ r.to \in Waiting
    <2>1. r.to \in Nat \ {0}
      BY <1>1, <1>6, FirstWaiting DEF Types
    <2>2. \A id \in Waiting : id <= r.to => id = r.to
      <3>1. \A id \in Waiting : id <= r.to => \E j \in 1 .. 1 : Incoming[j].to = id
        BY <1>1, <1>2, <1>3, <2>1 DEF Pipeline, Ordered
      <3> QED
        BY <1>2, <3>1
    <2>3. replies # <<>> => r.to = Head(replies)
      BY <1>1, <1>6, <2>2, FirstWaiting DEF Types
    <2>4. replies = <<>> => invalid # <<>> /\ r.to = Head(invalid)
      BY <1>1, <1>6, <2>2, FirstWaiting DEF Types
    <2>5. invalid # <<>> => Has("subscribed")
      BY <1>1 DEF Pipeline, Subscriptions
    <2> QED
      BY <1>2, <1>6, <2>1, <2>3, <2>4, <2>5 DEF r
  <1> QED
    BY <1>2, <1>4, <1>5, <1>6 DEF r

\* A waiting command that is worked off was issued, and has had no reply.
LEMMA WaitsOnce ==
  ASSUME IInv, ~Has("monitoring")
  PROVE  /\ replies # <<>> =>
              /\ Issued(Head(replies)) /\ Regular(Head(replies)) /\ got[Head(replies)] = <<>>
              /\ Head(replies) # NoCb
         /\ invalid # <<>> =>
              /\ Issued(Head(invalid)) /\ Regular(Head(invalid)) /\ got[Head(invalid)] = <<>>
              /\ Head(invalid) # NoCb
PROOF
  <1>1. Lists /\ ListType
    BY DEF IInv, Types
  <1>2. /\ replies # <<>> => Head(replies) = replies[1] /\ Len(replies) >= 1
        /\ invalid # <<>> => Head(invalid) = invalid[1] /\ Len(invalid) >= 1
        /\ Len(replies) \in Nat /\ Len(invalid) \in Nat
    BY <1>1, TailType, LenProperties DEF ListType
  <1>3. /\ replies # <<>> => Head(replies) \in Waiting
        /\ invalid # <<>> => Head(invalid) \in Waiting
    BY <1>2 DEF Waiting, Plain
  <1> QED
    BY <1>1, <1>3 DEF Lists, Issued, NoCb

LEMMA PendingOwn ==
  ASSUME IInv, ProcessPending, ~Has("monitoring")
  PROVE  LET id == Head(replies)
             r == Head(rbuf)
         IN  /\ Issued(id) /\ Regular(id) /\ got[id] = <<>> /\ id # NoCb /\ r \in Replies
             /\ r.to = id \/ (Rejection(r) /\ net = "closed" /\ Len(Incoming) = 1)
             /\ r.kind \in {"reply", "error"}
             /\ cb' = id /\ Delivers(id, r)
PROOF
  BY PendingEffect, NextReply, WaitsOnce DEF Delivers, Rejection

LEMMA OtherOwn ==
  ASSUME IInv, ProcessOther, ~Has("monitoring")
  PROVE  LET id == Head(invalid)
             r == Head(rbuf)
         IN  /\ Has("subscribed") /\ invalid # <<>> /\ invalid' = Tail(invalid)
             /\ Issued(id) /\ Regular(id) /\ got[id] = <<>> /\ id # NoCb /\ r \in Replies
             /\ r.to = id /\ r.kind = "reply"
             /\ cb' = id /\ Delivers(id, r)
PROOF
  BY OtherEffect, NextReply, WaitsOnce DEF Delivers, Rejection

\* The subscriber of n, if it has a callback, is given r.
Hears(n, r) ==
  \/ ~HasFn(subs[n]) /\ UNCHANGED <<pc, reply, got>>
  \/ /\ HasFn(subs[n]) /\ pc' = "callback" /\ reply' = r
     /\ got' = [got EXCEPT ![subs[n]] = Append(@, r)]
Mark(n) == IF HasFn(subs[n]) THEN {"inCallback"} ELSE {}

LEMMA MessageEffect ==
  ASSUME IInv, ProcessMessage
  PROVE  LET r == Head(rbuf) IN
         /\ pc = "process" /\ rbuf # <<>> /\ replies = <<>> /\ Push(r) /\ r.to = 0
         /\ Has("subscribed") /\ ~Has("monitoring") /\ rbuf' = Tail(rbuf) /\ r \in Replies
         /\ Unsub(r) => invalid = <<>>
         /\ \E n \in Names :
              /\ r.names = {n} /\ Subscribed(n) /\ cb' = subs[n] /\ Hears(n, r)
              /\ \/ /\ Unsub(r) /\ subs' = [subs EXCEPT ![n] = NoCb]
                    /\ flags' = (IF r.count = 0 THEN flags \ {"subscribed"} ELSE flags)
                                  \cup Mark(n)
                 \/ ~Unsub(r) /\ subs' = subs /\ flags' = flags \cup Mark(n)
         /\ UNCHANGED <<err, replies, invalid, obuf, ev, server, issued>>
PROOF
  <1> DEFINE r == Head(rbuf)
  <1>1. /\ pc = "process" /\ rbuf # <<>> /\ replies = <<>> /\ r.kind \in Pushes
        /\ Has("subscribed") /\ rbuf' = Tail(rbuf)
        /\ UNCHANGED <<err, replies, invalid, obuf, ev, server, issued>>
    BY DEF ProcessMessage
  <1>2. ~Has("monitoring")
    BY <1>1 DEF IInv, Alone
  <1>3. r.kind \notin {"reply", "error"}
    BY <1>1 DEF Pushes
  <1>4. PICK n \in Names : r.names = {n} /\ Subscribed(n)
    BY <1>1, <1>2, <1>3, NextReply DEF Rejection
  <1>5. r \in Replies /\ r.to = 0 /\ (Unsub(r) => invalid = <<>>)
    BY <1>1, <1>2, <1>3, NextReply DEF Rejection
  <1>6. (CHOOSE x \in r.names : TRUE) = n
    BY <1>4
  <1>7. subs[n] # NoCb
    BY <1>4 DEF Subscribed
  <1>8. /\ subs' = IF r.kind = "unsubscribe" THEN [subs EXCEPT ![n] = NoCb] ELSE subs
        /\ cb' = subs[n] /\ Hears(n, r)
        /\ flags' = (IF r.kind = "unsubscribe" /\ r.count = 0 THEN flags \ {"subscribed"} ELSE flags)
                      \cup Mark(n)
    BY <1>6, <1>7 DEF ProcessMessage, CallbackOf, Hears, Mark
  <1> HIDE DEF r
  <1>9. \/ /\ Unsub(r) /\ subs' = [subs EXCEPT ![n] = NoCb]
           /\ flags' = (IF r.count = 0 THEN flags \ {"subscribed"} ELSE flags) \cup Mark(n)
        \/ ~Unsub(r) /\ subs' = subs /\ flags' = flags \cup Mark(n)
    BY <1>8 DEF Unsub
  <1> QED
    BY <1>1, <1>2, <1>4, <1>5, <1>8, <1>9 DEF r, Push

-----------------------------------------------------------------------------
(* Types.                                                                    *)

LEMMA FlagTypeStep ==
  ASSUME IInv, [DisciplinedNext]_vars
  PROVE  FlagType'
PROOF
  <1> USE DEF ctx, loop, server, history, app
  <1>0. FlagType /\ NoAssertion
    BY DEF IInv, Types
  <1>1. CASE \/ HandleConnectFails \/ HandleWriteFails \/ HandleReadEof
            \/ ProcessRejected \/ ProcessFails
    BY <1>0, IInv, <1>1, Breaks DEF FlagType, Has, Closing, Flags, Labels
  <1>2. CASE Environment
    BY <1>0, IInv, <1>2, Outside DEF FlagType, Has, Closing, Flags, Labels
  <1>3. CASE HandleWrite
    BY <1>0, IInv, <1>3 DEF HandleWrite, FlagType, Has, Closing, Flags, Labels
  <1>4. CASE HandleRead
    BY <1>0, IInv, <1>4 DEF HandleRead, FlagType, Has, Closing, Flags, Labels
  <1>5. CASE ProcessPending
    BY <1>0, IInv, <1>5, PendingEffect DEF Delivers, FlagType, Has, Closing, Flags,
       Labels
  <1>6. CASE ProcessMessage
    <2>1. /\ UNCHANGED err /\ pc = "process"
          /\ \E f \in {flags, flags \ {"subscribed"}} :
               \/ pc' = pc /\ flags' = f
               \/ pc' = "callback" /\ flags' = f \cup {"inCallback"}
      BY <1>6, MessageEffect DEF Hears, Mark
    <2> QED
      BY <1>0, <2>1 DEF FlagType, Flags, Labels
  <1>7. CASE ProcessOther
    BY <1>0, IInv, <1>7, OtherEffect DEF Delivers, FlagType, Has, Closing, Flags,
       Labels
  <1>8. CASE ProcessEnd
    BY <1>0, IInv, <1>8 DEF ProcessEnd, Disconnect, FlagType, Has, Closing, Flags,
       Labels
  <1>9. CASE FreeReplies
    BY <1>0, IInv, <1>9, FreeRepliesEffect DEF Frees, FlagType, Has, Closing, Flags,
       Labels
  <1>10. CASE FreeInvalid
    BY <1>0, IInv, <1>10, FreeInvalidEffect DEF Frees, FlagType, Has, Closing, Flags,
       Labels
  <1>11. CASE FreeSubscriptions
    BY <1>0, IInv, <1>11 DEF FreeSubscriptions, Run, HasFn, FlagType, Has, Closing, Flags,
       Labels
  <1>12. CASE FreeContext
    BY <1>0, IInv, <1>12 DEF FreeContext, FlagType, Has, Closing, Flags, Labels
  <1>13. CASE CallbackReturns
    BY <1>0, IInv, <1>13 DEF CallbackReturns, FlagType, Has, Closing, Flags, Labels
  <1>14. CASE FreeCallbackReturns
    BY <1>0, IInv, <1>14 DEF FreeCallbackReturns, FlagType, Has, Closing, Flags,
       Labels
  <1>15. ASSUME NEW kind \in Kinds, NEW S \in SUBSET Names, DisciplinedCommand(kind, S)
         PROVE  FlagType'
    <2>1. /\ UNCHANGED <<pc, err>>
          /\ flags' \in {flags, flags \cup {"subscribed"}, flags \cup {"monitoring"}}
      BY <1>15, CommandEffect
    <2> QED
      BY <1>0, <2>1 DEF FlagType, Flags
  <1>16. CASE AsyncDisconnect
    BY <1>0, IInv, <1>16 DEF AsyncDisconnect, UserRuns, FlagType, Has, Closing, Flags,
       Labels
  <1>17. CASE AsyncFree
    BY <1>0, IInv, <1>17 DEF AsyncFree, UserRuns, FlagType, Has, Closing, Flags,
       Labels
  <1>18. CASE UNCHANGED vars
    BY <1>0, IInv, <1>18 DEF vars, FlagType, Has, Closing, Flags, Labels
  <1> QED
    BY <1>1, <1>2, <1>3, <1>4, <1>5, <1>6, <1>7, <1>8, <1>9, <1>10, <1>11, <1>12,
       <1>13, <1>14, <1>15, <1>16, <1>17, <1>18 DEF DisciplinedNext, Handlers, Process, Freeing,
       Returns, DisciplinedUser

LEMMA ListTypeStep ==
  ASSUME IInv, [DisciplinedNext]_vars
  PROVE  ListType'
PROOF
  <1> USE DEF ctx, loop, server, history, app
  <1>0. ListType /\ CallbackType
    BY DEF IInv, Types
  <1>1. CASE \/ HandleConnectFails \/ HandleWriteFails \/ HandleReadEof
            \/ ProcessRejected \/ ProcessFails
    BY <1>0, TailType, <1>1, Breaks DEF ListType, CallbackType
  <1>2. CASE Environment
    BY <1>0, TailType, <1>2, Outside DEF ListType, CallbackType
  <1>3. CASE HandleWrite
    BY <1>0, TailType, <1>3 DEF HandleWrite, ListType, CallbackType
  <1>4. CASE HandleRead
    BY <1>0, TailType, <1>4 DEF HandleRead, ListType, CallbackType
  <1>5. CASE ProcessPending
    <2>1. UNCHANGED <<invalid, subs>> /\ replies # <<>> /\ replies' = Tail(replies)
      BY <1>5, PendingEffect
    <2> QED
      BY <1>0, <2>1, TailType DEF ListType
  <1>6. CASE ProcessMessage
    <2>1. /\ UNCHANGED <<replies, invalid>>
          /\ subs' = subs \/ \E n \in Names : subs' = [subs EXCEPT ![n] = NoCb]
      BY <1>6, MessageEffect
    <2> QED
      BY <1>0, <2>1 DEF ListType
  <1>7. CASE ProcessOther
    <2>1. /\ UNCHANGED <<replies, subs>>
          /\ invalid' = invalid \/ (invalid # <<>> /\ invalid' = Tail(invalid))
      BY <1>7, OtherEffect
    <2> QED
      BY <1>0, <2>1, TailType DEF ListType
  <1>8. CASE ProcessEnd
    <2>1. UNCHANGED <<invalid, subs>> /\ (replies' = replies \/ replies' = Append(replies, cb))
      BY <1>8 DEF ProcessEnd
    <2> QED
      BY <1>0, <2>1, AppendProperties DEF ListType, CallbackType
  <1>9. CASE FreeReplies
    <2>1. UNCHANGED <<invalid, subs>> /\ replies # <<>> /\ replies' = Tail(replies)
      BY <1>9, FreeRepliesEffect DEF Frees
    <2> QED
      BY <1>0, <2>1, TailType DEF ListType
  <1>10. CASE FreeInvalid
    BY <1>0, TailType, <1>10, FreeInvalidEffect DEF Frees, ListType, CallbackType
  <1>11. CASE FreeSubscriptions
    BY <1>0, TailType, <1>11 DEF FreeSubscriptions, Run, ListType, CallbackType
  <1>12. CASE FreeContext
    BY <1>0, TailType, <1>12 DEF FreeContext, ListType, CallbackType
  <1>13. CASE CallbackReturns
    BY <1>0, TailType, <1>13 DEF CallbackReturns, ListType, CallbackType
  <1>14. CASE FreeCallbackReturns
    BY <1>0, TailType, <1>14 DEF FreeCallbackReturns, ListType, CallbackType
  <1>15. ASSUME NEW kind \in Kinds, NEW S \in SUBSET Names, DisciplinedCommand(kind, S)
         PROVE  ListType'
    <2> DEFINE id == Len(issued) + 1
    <2>1. /\ id \in Ids
          /\ replies' \in {replies, Append(replies, id)} /\ invalid' \in {invalid, Append(invalid, id)}
          /\ subs' = subs \/ subs' = [n \in Names |-> IF n \in S THEN id ELSE subs[n]]
      BY <1>15, CommandEffect
    <2> HIDE DEF id
    <2>2. replies' \in Seq(Ids \cup {NoCb}) /\ invalid' \in Seq(Ids \cup {NoCb})
      <3>1. id \in Ids \cup {NoCb}
        BY <2>1
      <3>2. /\ Append(replies, id) \in Seq(Ids \cup {NoCb})
            /\ Append(invalid, id) \in Seq(Ids \cup {NoCb})
        BY <1>0, <3>1, AppendProperties DEF ListType
      <3> QED
        BY <1>0, <2>1, <3>2 DEF ListType
    <2>3. subs' \in [Names -> Ids \cup {NoCb}]
      BY <1>0, <2>1 DEF ListType
    <2> QED
      BY <2>2, <2>3 DEF ListType
  <1>16. CASE AsyncDisconnect
    BY <1>0, TailType, <1>16 DEF AsyncDisconnect, UserRuns, ListType, CallbackType
  <1>17. CASE AsyncFree
    BY <1>0, TailType, <1>17 DEF AsyncFree, UserRuns, ListType, CallbackType
  <1>18. CASE UNCHANGED vars
    BY <1>0, TailType, <1>18 DEF vars, ListType, CallbackType
  <1> QED
    BY <1>1, <1>2, <1>3, <1>4, <1>5, <1>6, <1>7, <1>8, <1>9, <1>10, <1>11, <1>12,
       <1>13, <1>14, <1>15, <1>16, <1>17, <1>18 DEF DisciplinedNext, Handlers, Process, Freeing,
       Returns, DisciplinedUser

LEMMA CallbackTypeStep ==
  ASSUME IInv, [DisciplinedNext]_vars
  PROVE  CallbackType'
PROOF
  <1> USE DEF ctx, loop, server, history, app
  <1>0. ListType /\ CallbackType /\ QueueType
    BY DEF IInv, Types
  <1>1. CASE \/ HandleConnectFails \/ HandleWriteFails \/ HandleReadEof
            \/ ProcessRejected \/ ProcessFails
    BY <1>0, TailType, NullType, <1>1, Breaks DEF ListType, CallbackType, QueueType
  <1>2. CASE Environment
    BY <1>0, TailType, NullType, <1>2, Outside DEF ListType, CallbackType, QueueType
  <1>3. CASE HandleWrite
    BY <1>0, TailType, NullType, <1>3 DEF HandleWrite, ListType, CallbackType,
       QueueType
  <1>4. CASE HandleRead
    BY <1>0, TailType, NullType, <1>4 DEF HandleRead, ListType, CallbackType,
       QueueType
  <1>5. CASE ProcessPending
    BY <1>0, TailType, NullType, <1>5, PendingEffect DEF Delivers, ListType,
       CallbackType, QueueType
  <1>6. CASE ProcessMessage
    <2>1. /\ reply' \in {reply, Head(rbuf)} /\ Head(rbuf) \in Replies
          /\ \E n \in Names : cb' = subs[n]
      BY <1>6, MessageEffect DEF Hears
    <2> QED
      BY <1>0, <2>1 DEF ListType, CallbackType
  <1>7. CASE ProcessOther
    BY <1>0, TailType, NullType, <1>7, OtherEffect DEF Delivers, ListType,
       CallbackType, QueueType
  <1>8. CASE ProcessEnd
    BY <1>0, TailType, NullType, <1>8 DEF ProcessEnd, Disconnect, ListType,
       CallbackType, QueueType
  <1>9. CASE FreeReplies
    BY <1>0, TailType, NullType, <1>9, FreeRepliesEffect DEF Frees, ListType,
       CallbackType, QueueType
  <1>10. CASE FreeInvalid
    BY <1>0, TailType, NullType, <1>10, FreeInvalidEffect DEF Frees, ListType,
       CallbackType, QueueType
  <1>11. CASE FreeSubscriptions
    BY <1>0, TailType, NullType, <1>11 DEF FreeSubscriptions, Run, ListType,
       CallbackType, QueueType
  <1>12. CASE FreeContext
    BY <1>0, TailType, NullType, <1>12 DEF FreeContext, ListType, CallbackType,
       QueueType
  <1>13. CASE CallbackReturns
    BY <1>0, TailType, NullType, <1>13 DEF CallbackReturns, ListType, CallbackType,
       QueueType
  <1>14. CASE FreeCallbackReturns
    BY <1>0, TailType, NullType, <1>14 DEF FreeCallbackReturns, ListType,
       CallbackType, QueueType
  <1>15. ASSUME NEW kind \in Kinds, NEW S \in SUBSET Names, DisciplinedCommand(kind, S)
         PROVE  CallbackType'
    BY <1>0, TailType, NullType, <1>15, CommandEffect DEF ListType, CallbackType,
       QueueType
  <1>16. CASE AsyncDisconnect
    BY <1>0, TailType, NullType, <1>16 DEF AsyncDisconnect, UserRuns, ListType,
       CallbackType, QueueType
  <1>17. CASE AsyncFree
    BY <1>0, TailType, NullType, <1>17 DEF AsyncFree, UserRuns, ListType,
       CallbackType, QueueType
  <1>18. CASE UNCHANGED vars
    BY <1>0, TailType, NullType, <1>18 DEF vars, ListType, CallbackType, QueueType
  <1> QED
    BY <1>1, <1>2, <1>3, <1>4, <1>5, <1>6, <1>7, <1>8, <1>9, <1>10, <1>11, <1>12,
       <1>13, <1>14, <1>15, <1>16, <1>17, <1>18 DEF DisciplinedNext, Handlers, Process, Freeing,
       Returns, DisciplinedUser

LEMMA QueueTypeStep ==
  ASSUME IInv, [DisciplinedNext]_vars
  PROVE  QueueType'
PROOF
  <1> USE DEF ctx, loop, server, history, app
  <1>0. QueueType /\ NetType
    BY DEF IInv, Types
  <1>1. CASE \/ HandleConnectFails \/ HandleWriteFails \/ HandleReadEof
            \/ ProcessRejected \/ ProcessFails
    <2>1. /\ UNCHANGED <<obuf, toServer, wire>>
          /\ rbuf' = rbuf \/ (rbuf # <<>> /\ rbuf' = Tail(rbuf))
      BY <1>1, Breaks
    <2> QED
      BY <1>0, <2>1, TailType DEF QueueType
  <1>2. CASE Environment
    <2>1. UNCHANGED app
      BY <1>2, Outside
    <2>2. CASE ServerAccepts \/ ConnectionLost
      BY <1>0, <2>1, <2>2 DEF ServerAccepts, ConnectionLost, QueueType
    <2>3. CASE ServerRejects \/ Traffic
      <3>1. 0 \in 0 .. Cardinality(Names) /\ Cardinality(served) \in 0 .. Cardinality(Names)
        BY <1>0, NameCount, NullType DEF NetType, NullReply, Replies
      <3>2. \E r \in Replies : wire' = Append(wire, r)
        BY <1>0, <2>3, <3>1 DEF ServerRejects, Traffic, Answer, Replies, NetType, Pushes
      <3>3. toServer' = toServer
        BY <2>3 DEF ServerRejects, Traffic
      <3> QED
        BY <1>0, <2>1, <3>2, <3>3, AppendProperties DEF QueueType
    <2>4. CASE ServerReplies
      <3>1. /\ toServer # <<>> /\ toServer' = Tail(toServer)
            /\ \/ \E msgs \in Seq(Replies) : wire' = wire \o msgs
               \/ \E r \in Replies : wire' = Append(wire, r)
        BY <1>0, <2>4, AnswersEffect
      <3>2. \A r \in Replies : Append(wire, r) \in Seq(Replies)
        BY <1>0, AppendProperties DEF QueueType
      <3>3. \A msgs \in Seq(Replies) : wire \o msgs \in Seq(Replies)
        BY <1>0, ConcatProperties DEF QueueType
      <3>4. wire' \in Seq(Replies)
        BY <3>1, <3>2, <3>3
      <3> QED
        BY <1>0, <2>1, <3>1, <3>4, TailType DEF QueueType
    <2> QED
      BY <1>2, <2>2, <2>3, <2>4 DEF Environment
  <1>3. CASE HandleWrite
    BY <1>0, <1>3, OutgoingWrite
  <1>4. CASE HandleRead
    <2>1. rbuf = <<>>
      BY <1>4 DEF HandleRead, IInv, Known
    <2> QED
      BY <1>0, <2>1, <1>4, IncomingRead
  <1>5. CASE ProcessPending
    <2>1. UNCHANGED <<obuf, toServer, wire>> /\ rbuf # <<>> /\ rbuf' = Tail(rbuf)
      BY <1>5, PendingEffect
    <2> QED
      BY <1>0, <2>1, TailType DEF QueueType
  <1>6. CASE ProcessMessage
    <2>1. UNCHANGED <<obuf, toServer, wire>> /\ rbuf # <<>> /\ rbuf' = Tail(rbuf)
      BY <1>6, MessageEffect
    <2> QED
      BY <1>0, <2>1, TailType DEF QueueType
  <1>7. CASE ProcessOther
    BY <1>0, TailType, <1>7, OtherEffect DEF Delivers, QueueType
  <1>8. CASE ProcessEnd
    BY <1>0, TailType, <1>8 DEF ProcessEnd, Disconnect, QueueType
  <1>9. CASE FreeReplies
    BY <1>0, TailType, <1>9, FreeRepliesEffect DEF Frees, QueueType
  <1>10. CASE FreeInvalid
    BY <1>0, TailType, <1>10, FreeInvalidEffect DEF Frees, QueueType
  <1>11. CASE FreeSubscriptions
    BY <1>0, TailType, <1>11 DEF FreeSubscriptions, Run, QueueType
  <1>12. CASE FreeContext
    BY <1>12, EmptySeq DEF FreeContext, QueueType
  <1>13. CASE CallbackReturns
    BY <1>0, TailType, <1>13 DEF CallbackReturns, QueueType
  <1>14. CASE FreeCallbackReturns
    BY <1>0, TailType, <1>14 DEF FreeCallbackReturns, QueueType
  <1>15. ASSUME NEW kind \in Kinds, NEW S \in SUBSET Names, DisciplinedCommand(kind, S)
         PROVE  QueueType'
    <2>1. [id |-> Len(issued) + 1, kind |-> kind, names |-> S] \in Commands
      BY <1>15, CommandEffect DEF Commands
    <2>2. obuf' = Append(obuf, [id |-> Len(issued) + 1, kind |-> kind, names |-> S])
          /\ UNCHANGED <<toServer, rbuf, wire>>
      BY <1>15, CommandEffect
    <2> QED
      BY <1>0, <2>1, <2>2, AppendProperties DEF QueueType
  <1>16. CASE AsyncDisconnect
    BY <1>0, TailType, <1>16 DEF AsyncDisconnect, UserRuns, QueueType
  <1>17. CASE AsyncFree
    BY <1>0, TailType, <1>17 DEF AsyncFree, UserRuns, QueueType
  <1>18. CASE UNCHANGED vars
    BY <1>0, TailType, <1>18 DEF vars, QueueType
  <1> QED
    BY <1>1, <1>2, <1>3, <1>4, <1>5, <1>6, <1>7, <1>8, <1>9, <1>10, <1>11, <1>12,
       <1>13, <1>14, <1>15, <1>16, <1>17, <1>18 DEF DisciplinedNext, Handlers, Process, Freeing,
       Returns, DisciplinedUser

LEMMA NetTypeStep ==
  ASSUME IInv, [DisciplinedNext]_vars
  PROVE  NetType'
PROOF
  <1> USE DEF ctx, loop, server, history, app
  <1>0. QueueType /\ NetType
    BY DEF IInv, Types
  <1>1. CASE \/ HandleConnectFails \/ HandleWriteFails \/ HandleReadEof
            \/ ProcessRejected \/ ProcessFails
    BY <1>0, <1>1, Breaks DEF NetType
  <1>2. CASE Environment
    <2>1. ev' = ev
      BY <1>2, Outside
    <2>2. CASE ServerReplies
      <3>1. /\ net' = "up" /\ traffic' = traffic
            /\ \E S \in SUBSET Names : served' \in {served, served \cup S, served \ S}
        BY <1>0, <2>2, AnswersEffect DEF Commands
      <3> QED
        BY <1>0, <2>1, <3>1 DEF NetType
    <2>3. CASE ServerAccepts \/ ServerRejects \/ ConnectionLost \/ Traffic
      <3>1. /\ net' \in {net, "up", "closed"} /\ served' = served
            /\ traffic' = traffic \/ (traffic < MaxTraffic /\ traffic' = traffic + 1)
        BY <2>3 DEF ServerAccepts, ServerRejects, ConnectionLost, Traffic
      <3> QED
        BY <1>0, <2>1, <3>1, AsyncAssumption DEF NetType
    <2> QED
      BY <1>2, <2>2, <2>3 DEF Environment
  <1>3. CASE HandleWrite
    BY <1>0, <1>3 DEF HandleWrite, NetType
  <1>4. CASE HandleRead
    BY <1>0, <1>4 DEF HandleRead, NetType
  <1>5. CASE ProcessPending
    BY <1>0, <1>5, PendingEffect DEF Delivers, NetType
  <1>6. CASE ProcessMessage
    BY <1>0, <1>6, MessageEffect DEF NetType
  <1>7. CASE ProcessOther
    BY <1>0, <1>7, OtherEffect DEF Delivers, NetType
  <1>8. CASE ProcessEnd
    BY <1>0, <1>8 DEF ProcessEnd, Disconnect, NetType
  <1>9. CASE FreeReplies
    BY <1>0, <1>9, FreeRepliesEffect DEF Frees, NetType
  <1>10. CASE FreeInvalid
    BY <1>0, <1>10, FreeInvalidEffect DEF Frees, NetType
  <1>11. CASE FreeSubscriptions
    BY <1>0, <1>11 DEF FreeSubscriptions, Run, NetType
  <1>12. CASE FreeContext
    BY <1>0, <1>12 DEF FreeContext, NetType
  <1>13. CASE CallbackReturns
    BY <1>0, <1>13 DEF CallbackReturns, NetType
  <1>14. CASE FreeCallbackReturns
    BY <1>0, <1>14 DEF FreeCallbackReturns, NetType
  <1>15. ASSUME NEW kind \in Kinds, NEW S \in SUBSET Names, DisciplinedCommand(kind, S)
         PROVE  NetType'
    BY <1>0, <1>15, CommandEffect DEF NetType
  <1>16. CASE AsyncDisconnect
    BY <1>0, <1>16 DEF AsyncDisconnect, UserRuns, NetType
  <1>17. CASE AsyncFree
    BY <1>0, <1>17 DEF AsyncFree, UserRuns, NetType
  <1>18. CASE UNCHANGED vars
    BY <1>0, <1>18 DEF vars, NetType
  <1> QED
    BY <1>1, <1>2, <1>3, <1>4, <1>5, <1>6, <1>7, <1>8, <1>9, <1>10, <1>11, <1>12,
       <1>13, <1>14, <1>15, <1>16, <1>17, <1>18 DEF DisciplinedNext, Handlers, Process, Freeing,
       Returns, DisciplinedUser

-----------------------------------------------------------------------------
(* What the callbacks are given.                                             *)

LEMMA WaitingHeads ==
  ASSUME ListType
  PROVE  /\ replies # <<>> => Head(replies) \in Waiting
         /\ invalid # <<>> => Head(invalid) \in Waiting
PROOF
  <1>1. /\ replies # <<>> => Head(replies) = replies[1] /\ Len(replies) >= 1
        /\ invalid # <<>> => Head(invalid) = invalid[1] /\ Len(invalid) >= 1
        /\ Len(replies) \in Nat /\ Len(invalid) \in Nat
    BY TailType, LenProperties DEF ListType
  <1> QED
    BY <1>1 DEF Waiting, Plain

\* The callback of command id runs, and is given r.
Gives(id, r) ==
  /\ issued' = issued /\ Issued(id) /\ r \in Replies
  /\ got' = [got EXCEPT ![id] = Append(@, r)]
  /\ cb' = id /\ reply' = r
  /\ \/ pc = "process" /\ pc' = "callback"
     \/ pc = "free" /\ pc' = "freeCallback" /\ r = NullReply
  /\ Regular(id) =>
       /\ got[id] = <<>>
       /\ \/ r.to = id
          \/ r = NullReply
          \/ Rejection(r)
       /\ pc' = "callback" => r # NullReply /\ ~Has("monitoring")

Issues ==
  /\ Len(issued) + 1 \in Ids /\ got' = Append(got, <<>>)
  /\ \E kind \in Kinds, S \in SUBSET Names :
       issued' = Append(issued, [kind |-> kind, plain |-> ~Has("subscribed"), names |-> S])

LEMMA MonitorOnly ==
  ASSUME IInv, Has("monitoring"), NEW id, Issued(id)
  PROVE  ~Regular(id)
PROOF
  BY DEF IInv, Alone, Issued, Regular

LEMMA FreeGives ==
  ASSUME IInv, NEW list, Frees(list), list # <<>> => Head(list) \in Waiting
  PROVE  \/ UNCHANGED <<issued, got, cb>>
         \/ Gives(Head(list), NullReply)
PROOF
  <1>1. CASE ~HasFn(Head(list))
    BY <1>1 DEF Frees
  <1>2. CASE HasFn(Head(list))
    <2>1. /\ Head(list) # NoCb /\ cb' = Head(list) /\ reply' = NullReply /\ issued' = issued
          /\ pc = "free" /\ pc' = "freeCallback"
          /\ got' = [got EXCEPT ![Head(list)] = Append(@, NullReply)]
      BY <1>2 DEF Frees
    <2>2. Issued(Head(list))
      BY <2>1 DEF Frees, IInv, Known
    <2>3. Regular(Head(list)) => got[Head(list)] = <<>>
      BY <2>2, MonitorOnly DEF Frees, IInv, Lists
    <2> QED
      BY <2>1, <2>2, <2>3, NullType DEF Gives
  <1> QED
    BY <1>1, <1>2

LEMMA PendingGives ==
  ASSUME IInv, ProcessPending
  PROVE  \/ UNCHANGED <<issued, got>> /\ UNCHANGED pc /\ (cb' = NoCb \/ Issued(cb'))
         \/ Gives(Head(replies), Head(rbuf))
PROOF
  <1>1. /\ issued' = issued /\ pc = "process" /\ Delivers(Head(replies), Head(rbuf))
        /\ rbuf # <<>> /\ replies # <<>>
    BY PendingEffect
  <1>2. ListType /\ QueueType
    BY DEF IInv, Types
  <1>3. Head(rbuf) \in Replies /\ Head(replies) \in Waiting
    BY <1>1, <1>2, TailType, WaitingHeads DEF QueueType
  <1>4. Head(replies) # NoCb => Issued(Head(replies))
    BY <1>3 DEF IInv, Known
  <1>5. CASE ~Has("monitoring")
    <2>1. Rejection(Head(rbuf)) => Head(rbuf) # NullReply
      BY DEF Rejection, NullReply
    <2>2. Head(rbuf).to = Head(replies) => Head(rbuf) # NullReply
      BY <1>4, <1>5, PendingOwn DEF NullReply, NoCb
    <2>3. CASE HasFn(Head(replies))
      BY <1>1, <1>3, <1>4, <1>5, <2>1, <2>2, <2>3, PendingOwn DEF Gives, Delivers
    <2>4. CASE ~HasFn(Head(replies))
      BY <1>1, <1>4, <2>4 DEF Delivers
    <2> QED
      BY <2>3, <2>4
  <1>6. CASE Has("monitoring")
    BY <1>1, <1>3, <1>4, <1>6, MonitorOnly DEF Gives, Delivers
  <1> QED
    BY <1>5, <1>6

LEMMA OtherGives ==
  ASSUME IInv, ProcessOther
  PROVE  \/ UNCHANGED <<issued, got>> /\ UNCHANGED pc /\ (cb' = NoCb \/ Issued(cb'))
         \/ ~Has("monitoring") /\ Gives(Head(invalid), Head(rbuf))
         \/ Has("monitoring") /\ Gives(cb, Head(rbuf))
PROOF
  <1>1. issued' = issued /\ pc = "process" /\ rbuf # <<>>
    BY OtherEffect
  <1>2. Head(rbuf) \in Replies
    BY <1>1, TailType DEF QueueType, IInv, Types
  <1>3. CASE ~Has("monitoring")
    <2>1. Head(rbuf) # NullReply
      BY <1>3, OtherOwn DEF NullReply, NoCb
    <2>2. Issued(Head(invalid)) /\ Delivers(Head(invalid), Head(rbuf))
      BY <1>3, OtherOwn
    <2>3. CASE HasFn(Head(invalid))
      BY <1>1, <1>2, <1>3, <2>1, <2>2, <2>3, OtherOwn DEF Gives, Delivers
    <2>4. CASE ~HasFn(Head(invalid))
      BY <1>1, <2>2, <2>4 DEF Delivers
    <2> QED
      BY <2>3, <2>4
  <1>4. CASE Has("monitoring")
    <2>1. invalid = <<>> /\ ~Has("subscribed") /\ (cb # NoCb => Issued(cb))
      BY <1>4 DEF IInv, Alone, Known
    <2>2. Delivers(cb, Head(rbuf))
      BY <1>4, <2>1, OtherEffect
    <2> QED
      BY <1>1, <1>2, <1>4, <2>1, <2>2, MonitorOnly DEF Gives, Delivers
  <1> QED
    BY <1>3, <1>4

LEMMA MessageGives ==
  ASSUME IInv, ProcessMessage
  PROVE  \E n \in Names :
           /\ Head(rbuf).names = {n} /\ Subscribed(n) /\ cb' = subs[n] /\ Issued(subs[n])
           /\ \/ UNCHANGED <<pc, issued, got>>
              \/ Gives(subs[n], Head(rbuf))
PROOF
  <1>1. PICK n \in Names :
          Head(rbuf).names = {n} /\ Subscribed(n) /\ cb' = subs[n] /\ Hears(n, Head(rbuf))
    BY MessageEffect
  <1>2. pc = "process" /\ issued' = issued /\ Head(rbuf) \in Replies
    BY MessageEffect
  <1>3. Issued(subs[n]) /\ ~Regular(subs[n])
    BY <1>1 DEF IInv, Known, Regular
  <1> QED
    BY <1>1, <1>2, <1>3 DEF Gives, Hears

LEMMA SubscriptionGives ==
  ASSUME IInv, FreeSubscriptions
  PROVE  \/ UNCHANGED <<pc, flags, cb, reply, history>>
         \/ \E n \in Names : Subscribed(n) /\ Gives(subs[n], NullReply)
PROOF
  <1>1. CASE UNCHANGED <<pc, flags, cb, reply, got>>
    BY <1>1 DEF FreeSubscriptions, history
  <1>2. ASSUME NEW n \in Names, subs[n] # NoCb, Run(subs[n], NullReply, "freeCallback")
        PROVE  Subscribed(n) /\ Gives(subs[n], NullReply)
    <2>1. Issued(subs[n]) /\ ~Regular(subs[n])
      BY <1>2 DEF IInv, Known, Regular, Subscribed
    <2> QED
      BY <1>2, <2>1, NullType DEF Gives, Run, FreeSubscriptions, Subscribed
  <1> QED
    BY <1>1, <1>2 DEF FreeSubscriptions

\* Every step but these leaves the history alone.
LEMMA GotStep ==
  ASSUME IInv, [DisciplinedNext]_vars
  PROVE  \/ UNCHANGED <<issued, got>>
         \/ \E id, r : Gives(id, r)
         \/ Issues
PROOF
  <1> USE DEF ctx, loop, server, history, app
  <1>1. CASE \/ HandleConnectFails \/ HandleWriteFails \/ HandleReadEof
            \/ ProcessRejected \/ ProcessFails
    BY IInv, <1>1, Breaks
  <1>2. CASE Environment
    BY IInv, <1>2, Outside
  <1>3. CASE HandleWrite
    BY IInv, <1>3 DEF HandleWrite
  <1>4. CASE HandleRead
    BY IInv, <1>4 DEF HandleRead
  <1>5. CASE ProcessPending
    BY <1>5, PendingGives
  <1>6. CASE ProcessMessage
    BY <1>6, MessageGives
  <1>7. CASE ProcessOther
    BY <1>7, OtherGives
  <1>8. CASE ProcessEnd
    BY IInv, <1>8 DEF ProcessEnd, Disconnect
  <1>9. CASE FreeReplies
    BY <1>9, FreeRepliesEffect, FreeGives, WaitingHeads DEF IInv, Types
  <1>10. CASE FreeInvalid
    BY <1>10, FreeInvalidEffect, FreeGives, WaitingHeads DEF IInv, Types
  <1>11. CASE FreeSubscriptions
    BY <1>11, SubscriptionGives
  <1>12. CASE FreeContext
    BY IInv, <1>12 DEF FreeContext
  <1>13. CASE CallbackReturns
    BY IInv, <1>13 DEF CallbackReturns
  <1>14. CASE FreeCallbackReturns
    BY IInv, <1>14 DEF FreeCallbackReturns
  <1>15. ASSUME NEW kind \in Kinds, NEW S \in SUBSET Names, DisciplinedCommand(kind, S)
         PROVE  \/ UNCHANGED <<issued, got>>
         \/ \E id, r : Gives(id, r)
         \/ Issues
    BY <1>15, CommandEffect DEF Issues
  <1>16. CASE AsyncDisconnect
    BY IInv, <1>16 DEF AsyncDisconnect, UserRuns
  <1>17. CASE AsyncFree
    BY IInv, <1>17 DEF AsyncFree, UserRuns
  <1>18. CASE UNCHANGED vars
    BY IInv, <1>18 DEF vars
  <1> QED
    BY <1>1, <1>2, <1>3, <1>4, <1>5, <1>6, <1>7, <1>8, <1>9, <1>10, <1>11, <1>12,
       <1>13, <1>14, <1>15, <1>16, <1>17, <1>18 DEF DisciplinedNext, Handlers, Process, Freeing,
       Returns, DisciplinedUser

LEMMA GotAfter ==
  ASSUME HistoryType, NEW id, NEW r, Gives(id, r)
  PROVE  /\ got' \in Seq(Seq(Replies)) /\ Len(got') = Len(got) /\ Len(got) \in Nat
         /\ got[id] \in Seq(Replies)
         /\ \A j \in 1 .. Len(issued) : got'[j] = IF j = id THEN Append(got[id], r) ELSE got[j]
PROOF
  <1>1. got \in Seq(Seq(Replies)) /\ id \in 1 .. Len(got) /\ r \in Replies /\ Len(got) \in Nat
    BY LenProperties DEF HistoryType, Gives, Issued
  <1>2. got[id] \in Seq(Replies)
    BY <1>1, ElementOfSeq
  <1>3. Append(got[id], r) \in Seq(Replies)
    BY <1>1, <1>2, AppendProperties
  <1>4. got' = [got EXCEPT ![id] = Append(got[id], r)]
    BY DEF Gives
  <1> QED
    BY <1>1, <1>2, <1>3, <1>4, ExceptSeq DEF HistoryType

LEMMA IssuesAfter ==
  ASSUME HistoryType, Issues
  PROVE  /\ HistoryType' /\ Len(issued') = Len(issued) + 1 /\ Len(got) \in Nat
         /\ \A j \in 1 .. Len(issued) : issued'[j] = issued[j] /\ got'[j] = got[j]
         /\ got'[Len(issued) + 1] = <<>>
PROOF
  <1>1. PICK kind \in Kinds, S \in SUBSET Names :
          issued' = Append(issued, [kind |-> kind, plain |-> ~Has("subscribed"), names |-> S])
    BY DEF Issues
  <1> DEFINE e == [kind |-> kind, plain |-> ~Has("subscribed"), names |-> S]
  <1>2. e \in Entries
    BY DEF Entries
  <1> HIDE DEF e
  <1>3. /\ issued' = Append(issued, e) /\ got' = Append(got, <<>>)
        /\ Len(issued) + 1 \in Ids /\ <<>> \in Seq(Replies)
    BY <1>1, EmptySeq DEF Issues, e
  <1>4. /\ issued' \in Seq(Entries) /\ Len(issued') = Len(issued) + 1
        /\ \A j \in 1 .. Len(issued) : issued'[j] = issued[j]
    BY <1>2, <1>3, AppendProperties DEF HistoryType
  <1>5. /\ got' \in Seq(Seq(Replies)) /\ Len(got') = Len(got) + 1
        /\ \A j \in 1 .. Len(got) : got'[j] = got[j]
        /\ got'[Len(got) + 1] = <<>>
    BY <1>3, AppendProperties DEF HistoryType
  <1>6. Len(issued) + 1 <= MaxCommands
    BY <1>3, AsyncAssumption DEF Ids
  <1> QED
    BY <1>4, <1>5, <1>6, LenProperties DEF HistoryType

LEMMA HistoryTypeStep ==
  ASSUME IInv, [DisciplinedNext]_vars
  PROVE  HistoryType'
PROOF
  <1>1. HistoryType
    BY DEF IInv, Types
  <1>2. CASE UNCHANGED <<issued, got>>
    BY <1>1, <1>2 DEF HistoryType
  <1>3. ASSUME NEW id, NEW r, Gives(id, r)
        PROVE  HistoryType'
    BY <1>1, <1>3, GotAfter DEF HistoryType, Gives
  <1>4. CASE Issues
    BY <1>1, <1>4, IssuesAfter
  <1> QED
    BY <1>2, <1>3, <1>4, GotStep

LEMMA TypesStep ==
  ASSUME IInv, [DisciplinedNext]_vars
  PROVE  Types'
PROOF
  BY FlagTypeStep, ListTypeStep, QueueTypeStep, CallbackTypeStep, NetTypeStep, HistoryTypeStep
     DEF Types

LEMMA OwnReplyOnceStep ==
  ASSUME IInv, [DisciplinedNext]_vars
  PROVE  OwnReplyOnce'
PROOF
  <1>1. HistoryType /\ OwnReplyOnce
    BY DEF IInv, Types
  <1>2. CASE UNCHANGED <<issued, got>>
    BY <1>1, <1>2 DEF OwnReplyOnce, Regular
  <1>3. ASSUME NEW id, NEW r, Gives(id, r)
        PROVE  OwnReplyOnce'
    <2> SUFFICES ASSUME NEW j \in 1 .. Len(issued), Regular(j)
                 PROVE  /\ Len(got'[j]) <= 1
                        /\ \A i \in 1 .. Len(got'[j]) :
                             \/ got'[j][i].to = j
                             \/ got'[j][i] = NullReply
                             \/ got'[j][i].kind = "error" /\ got'[j][i].to = 0
      BY <1>3 DEF OwnReplyOnce, Regular, Gives
    <2>1. CASE j # id
      BY <1>1, <1>3, <2>1, GotAfter DEF OwnReplyOnce
    <2>2. CASE j = id
      <3>1. got[id] = <<>> /\ (r.to = id \/ r = NullReply \/ Rejection(r)) /\ r \in Replies
        BY <1>3, <2>2 DEF Gives
      <3>2. got'[j] = Append(<<>>, r)
        BY <1>1, <1>3, <2>2, <3>1, GotAfter
      <3>3. Len(got'[j]) = 1 /\ got'[j][1] = r
        BY <3>1, <3>2
      <3> QED
        BY <2>2, <3>1, <3>3 DEF Rejection
    <2> QED
      BY <2>1, <2>2
  <1>4. CASE Issues
    <2>1. /\ Len(issued') = Len(issued) + 1 /\ Len(issued) \in Nat
          /\ \A j \in 1 .. Len(issued) : issued'[j] = issued[j] /\ got'[j] = got[j]
          /\ got'[Len(issued) + 1] = <<>>
      BY <1>1, <1>4, IssuesAfter DEF HistoryType
    <2> QED
      BY <1>1, <2>1 DEF OwnReplyOnce, Regular
  <1> QED
    BY <1>2, <1>3, <1>4, GotStep

-----------------------------------------------------------------------------
(* Both assertions hold, and MONITOR stays alone.                            *)

LEMMA EndEffect ==
  ASSUME IInv, ProcessEnd
  PROVE  /\ pc = "process" /\ rbuf = <<>> /\ cb' = NoCb
         /\ UNCHANGED <<flags, err, invalid, subs, obuf, rbuf, reply, ev, server, history>>
         /\ \/ /\ pc' = "free" /\ Has("disconnecting") /\ obuf = <<>> /\ replies = <<>>
               /\ replies' = replies
            \/ /\ pc' = "idle"
               /\ replies' = IF Has("monitoring") THEN Append(replies, cb) ELSE replies
PROOF
  <1>1. pc = "process" /\ ~err
    BY DEF ProcessEnd, IInv, Answers, Live
  <1> QED
    BY <1>1 DEF ProcessEnd, Disconnect

LEMMA NoAssertionStep ==
  ASSUME IInv, [DisciplinedNext]_vars
  PROVE  NoAssertion'
PROOF
  <1> USE DEF ctx, loop, server, history, app
  <1>0. NoAssertion
    BY DEF IInv, Types
  <1>1. CASE \/ HandleConnectFails \/ HandleWriteFails \/ HandleReadEof
            \/ ProcessRejected \/ ProcessFails
    BY <1>0, IInv, <1>1, Breaks DEF NoAssertion
  <1>2. CASE Environment
    BY <1>0, IInv, <1>2, Outside DEF NoAssertion
  <1>3. CASE HandleWrite
    BY <1>0, IInv, <1>3 DEF HandleWrite, NoAssertion
  <1>4. CASE HandleRead
    BY <1>0, IInv, <1>4 DEF HandleRead, NoAssertion
  <1>5. CASE ProcessPending
    BY <1>0, IInv, <1>5, PendingEffect DEF Delivers, NoAssertion
  <1>6. CASE ProcessMessage
    BY <1>0, <1>6, IInv, MessageEffect DEF Hears, NoAssertion
  <1>7. CASE ProcessOther
    BY <1>7, IInv, OtherEffect, OtherOwn, <1>0 DEF Delivers, NoAssertion
  <1>8. CASE ProcessEnd
    BY <1>0, IInv, <1>8, EndEffect DEF NoAssertion
  <1>9. CASE FreeReplies
    BY <1>0, IInv, <1>9, FreeRepliesEffect DEF Frees, NoAssertion
  <1>10. CASE FreeInvalid
    BY <1>0, IInv, <1>10, FreeInvalidEffect DEF Frees, NoAssertion
  <1>11. CASE FreeSubscriptions
    BY <1>0, IInv, <1>11 DEF FreeSubscriptions, Run, NoAssertion
  <1>12. CASE FreeContext
    BY <1>0, IInv, <1>12 DEF FreeContext, NoAssertion
  <1>13. CASE CallbackReturns
    BY <1>0, IInv, <1>13 DEF CallbackReturns, NoAssertion
  <1>14. CASE FreeCallbackReturns
    BY <1>0, IInv, <1>14 DEF FreeCallbackReturns, NoAssertion
  <1>15. ASSUME NEW kind \in Kinds, NEW S \in SUBSET Names, DisciplinedCommand(kind, S)
         PROVE  NoAssertion'
    BY <1>0, IInv, <1>15, CommandEffect DEF NoAssertion
  <1>16. CASE AsyncDisconnect
    BY <1>0, IInv, <1>16 DEF AsyncDisconnect, UserRuns, NoAssertion
  <1>17. CASE AsyncFree
    BY <1>0, IInv, <1>17 DEF AsyncFree, UserRuns, NoAssertion
  <1>18. CASE UNCHANGED vars
    BY <1>0, IInv, <1>18 DEF vars, NoAssertion
  <1> QED
    BY <1>1, <1>2, <1>3, <1>4, <1>5, <1>6, <1>7, <1>8, <1>9, <1>10, <1>11, <1>12,
       <1>13, <1>14, <1>15, <1>16, <1>17, <1>18 DEF DisciplinedNext, Handlers, Process, Freeing,
       Returns, DisciplinedUser

\* What was issued stays, and so do the flags that close a context.
LEMMA IssuedStays ==
  ASSUME IInv, [DisciplinedNext]_vars
  PROVE  /\ Len(issued) \in Nat
         /\ \/ issued' = issued
            \/ Issues /\ Len(issued') = Len(issued) + 1
         /\ \A id \in 1 .. Len(issued) : id \in 1 .. Len(issued') /\ issued'[id] = issued[id]
PROOF
  <1>1. HistoryType /\ Len(issued) \in Nat
    BY LenProperties DEF IInv, Types, HistoryType
  <1>2. CASE UNCHANGED <<issued, got>>
    BY <1>1, <1>2
  <1>3. CASE \E id, r : Gives(id, r)
    BY <1>1, <1>3 DEF Gives
  <1>4. CASE Issues
    BY <1>1, <1>4, IssuesAfter
  <1> QED
    BY <1>2, <1>3, <1>4, GotStep

LEMMA FlagsStay ==
  ASSUME IInv, [DisciplinedNext]_vars
  PROVE  \A f \in {"disconnecting", "freeing", "monitoring"} : f \in flags => f \in flags'
PROOF
  <1> USE DEF ctx, loop, server, history, app
  <1>1. CASE \/ HandleConnectFails \/ HandleWriteFails \/ HandleReadEof
            \/ ProcessRejected \/ ProcessFails
    BY IInv, <1>1, Breaks
  <1>2. CASE Environment
    BY IInv, <1>2, Outside
  <1>3. CASE HandleWrite
    BY IInv, <1>3 DEF HandleWrite
  <1>4. CASE HandleRead
    BY IInv, <1>4 DEF HandleRead
  <1>5. CASE ProcessPending
    BY IInv, <1>5, PendingEffect DEF Delivers
  <1>6. CASE ProcessMessage
    BY IInv, <1>6, MessageEffect
  <1>7. CASE ProcessOther
    BY IInv, <1>7, OtherEffect DEF Delivers
  <1>8. CASE ProcessEnd
    BY IInv, <1>8, EndEffect
  <1>9. CASE FreeReplies
    BY IInv, <1>9, FreeRepliesEffect DEF Frees
  <1>10. CASE FreeInvalid
    BY IInv, <1>10, FreeInvalidEffect DEF Frees
  <1>11. CASE FreeSubscriptions
    BY IInv, <1>11 DEF FreeSubscriptions, Run
  <1>12. CASE FreeContext
    BY IInv, <1>12 DEF FreeContext
  <1>13. CASE CallbackReturns
    BY IInv, <1>13 DEF CallbackReturns
  <1>14. CASE FreeCallbackReturns
    BY IInv, <1>14 DEF FreeCallbackReturns
  <1>15. ASSUME NEW kind \in Kinds, NEW S \in SUBSET Names, DisciplinedCommand(kind, S)
         PROVE  \A f \in {"disconnecting", "freeing", "monitoring"} : f \in flags => f \in flags'
    BY IInv, <1>15, CommandEffect
  <1>16. CASE AsyncDisconnect
    BY IInv, <1>16 DEF AsyncDisconnect, UserRuns
  <1>17. CASE AsyncFree
    BY IInv, <1>17 DEF AsyncFree, UserRuns
  <1>18. CASE UNCHANGED vars
    BY IInv, <1>18 DEF vars
  <1> QED
    BY <1>1, <1>2, <1>3, <1>4, <1>5, <1>6, <1>7, <1>8, <1>9, <1>10, <1>11, <1>12,
       <1>13, <1>14, <1>15, <1>16, <1>17, <1>18 DEF DisciplinedNext, Handlers, Process, Freeing,
       Returns, DisciplinedUser

LEMMA AloneStep ==
  ASSUME IInv, [DisciplinedNext]_vars
  PROVE  Alone'
PROOF
  <1> USE DEF ctx, loop, server, history, app
  <1>0. Alone
    BY DEF IInv, Types
  <1>1. CASE \/ HandleConnectFails \/ HandleWriteFails \/ HandleReadEof
            \/ ProcessRejected \/ ProcessFails
    BY <1>0, IInv, <1>1, Breaks DEF Alone, Has, Subscribed
  <1>2. CASE Environment
    BY <1>0, IInv, <1>2, Outside DEF Alone, Has, Subscribed
  <1>3. CASE HandleWrite
    BY <1>0, IInv, <1>3 DEF HandleWrite, Alone, Has, Subscribed
  <1>4. CASE HandleRead
    BY <1>0, IInv, <1>4 DEF HandleRead, Alone, Has, Subscribed
  <1>5. CASE ProcessPending
    BY <1>0, IInv, <1>5, PendingEffect DEF Delivers, Alone, Has, Subscribed
  <1>6. CASE ProcessMessage
    BY <1>0, IInv, <1>6, MessageEffect DEF Mark, Alone, Has, Subscribed
  <1>7. CASE ProcessOther
    BY <1>0, IInv, <1>7, OtherEffect DEF Delivers, Alone, Has, Subscribed
  <1>8. CASE ProcessEnd
    BY <1>0, IInv, <1>8, EndEffect DEF Alone, Has, Subscribed
  <1>9. CASE FreeReplies
    BY <1>0, IInv, <1>9, FreeRepliesEffect DEF Frees, Alone, Has, Subscribed
  <1>10. CASE FreeInvalid
    BY <1>0, IInv, <1>10, FreeInvalidEffect DEF Frees, Alone, Has, Subscribed
  <1>11. CASE FreeSubscriptions
    BY <1>0, IInv, <1>11 DEF FreeSubscriptions, Run, Alone, Has, Subscribed
  <1>12. CASE FreeContext
    BY <1>0, IInv, <1>12 DEF FreeContext, Alone, Has, Subscribed
  <1>13. CASE CallbackReturns
    BY <1>0, IInv, <1>13 DEF CallbackReturns, Alone, Has, Subscribed
  <1>14. CASE FreeCallbackReturns
    BY <1>0, IInv, <1>14 DEF FreeCallbackReturns, Alone, Has, Subscribed
  <1>15. ASSUME NEW kind \in Kinds, NEW S \in SUBSET Names, DisciplinedCommand(kind, S)
         PROVE  Alone'
    <2>1. ~Has("monitoring") /\ Len(issued) \in Nat
      BY <1>15, CommandEffect, IssuedStays DEF IInv
    <2>2. /\ issued' = Append(issued, [kind |-> kind, plain |-> ~Has("subscribed"), names |-> S])
          /\ issued \in Seq(Entries)
      BY <1>15, CommandEffect DEF IInv, Types, HistoryType
    <2>3. /\ Len(issued') = Len(issued) + 1 /\ issued' # <<>>
          /\ \A j \in 1 .. Len(issued) : issued'[j] = issued[j]
          /\ issued'[Len(issued) + 1].kind = kind
      <3>1. [kind |-> kind, plain |-> ~Has("subscribed"), names |-> S] \in Entries
        BY <1>15 DEF Entries
      <3> QED
        BY <2>2, <3>1, AppendProperties
    <2>4. CASE kind = "monitor"
      <3>1. /\ issued = <<>> /\ flags' = flags \cup {"monitoring"} /\ UNCHANGED <<subs, invalid>>
        BY <1>15, <2>4, CommandEffect
      <3>2. Len(issued) = 0
        BY <3>1
      <3>3. \A n \in Names : ~Subscribed(n)
        BY <3>2 DEF IInv, Known, Issued
      <3>4. invalid = <<>>
        BY <2>1, <3>2, WaitsOnce, IInv DEF Issued
      <3> QED
        BY <1>0, <2>3, <2>4, <3>1, <3>2, <3>3, <3>4 DEF Alone, Has, Subscribed
    <2>5. CASE kind # "monitor"
      <3>1. flags' = flags \/ flags' = flags \cup {"subscribed"}
        BY <1>15, <2>5, CommandEffect
      <3>2. ~("monitoring" \in flags')
        BY <2>1, <3>1 DEF Has
      <3> QED
        BY <1>0, <2>1, <2>3, <2>5, <3>2 DEF Alone, Has
    <2> QED
      BY <2>4, <2>5
  <1>16. CASE AsyncDisconnect
    BY <1>0, IInv, <1>16 DEF AsyncDisconnect, UserRuns, Alone, Has, Subscribed
  <1>17. CASE AsyncFree
    BY <1>0, IInv, <1>17 DEF AsyncFree, UserRuns, Alone, Has, Subscribed
  <1>18. CASE UNCHANGED vars
    BY <1>0, IInv, <1>18 DEF vars, Alone, Has, Subscribed
  <1> QED
    BY <1>1, <1>2, <1>3, <1>4, <1>5, <1>6, <1>7, <1>8, <1>9, <1>10, <1>11, <1>12,
       <1>13, <1>14, <1>15, <1>16, <1>17, <1>18 DEF DisciplinedNext, Handlers, Process, Freeing,
       Returns, DisciplinedUser

-----------------------------------------------------------------------------
(* The callbacks the context knows are those of commands.                    *)

LEMMA ElementsOfTail ==
  ASSUME NEW T, NEW s \in Seq(T), s # <<>>, NEW t, t = Tail(s)
  PROVE  /\ Len(t) = Len(s) - 1 /\ Len(s) \in Nat \ {0} /\ Head(s) = s[1]
         /\ \A i \in 1 .. Len(t) : t[i] = s[i + 1] /\ i + 1 \in 1 .. Len(s)
         /\ \A j \in 1 .. Len(s) : j = 1 \/ (j - 1 \in 1 .. Len(t) /\ t[j - 1] = s[j])
PROOF
  <1>1. /\ Tail(s) \in Seq(T) /\ Len(t) = Len(s) - 1 /\ Len(s) \in Nat \ {0} /\ Head(s) = s[1]
        /\ \A i \in 1 .. Len(t) : t[i] = s[i + 1]
    BY HeadTailProperties, TailType, EmptySeq
  <1>2. ASSUME NEW j \in 1 .. Len(s), j # 1
        PROVE  j - 1 \in 1 .. Len(t) /\ t[j - 1] = s[j]
    <2>1. j - 1 \in 1 .. Len(t) /\ (j - 1) + 1 = j
      BY <1>1, <1>2
    <2> QED
      BY <1>1, <2>1
  <1> QED
    BY <1>1, <1>2

LEMMA ElementsOfAppend ==
  ASSUME NEW T, NEW s \in Seq(T), NEW e \in T, NEW t, t = Append(s, e)
  PROVE  /\ Len(t) = Len(s) + 1 /\ Len(s) \in Nat /\ t[Len(s) + 1] = e
         /\ \A i \in 1 .. Len(s) : t[i] = s[i] /\ i \in 1 .. Len(t)
         /\ \A i \in 1 .. Len(t) : i \in 1 .. Len(s) \/ i = Len(s) + 1
PROOF
  BY AppendProperties, LenProperties

\* How the lists change.
LEMMA ListsChange ==
  ASSUME IInv, [DisciplinedNext]_vars
  PROVE  /\ \/ replies' = replies
            \/ replies # <<>> /\ replies' = Tail(replies)
            \/ replies' = Append(replies, Len(issued) + 1) /\ Issues /\ Len(issued) + 1 \in Ids
            \/ replies' = Append(replies, cb) /\ Has("monitoring")
         /\ \/ invalid' = invalid
            \/ invalid # <<>> /\ invalid' = Tail(invalid)
            \/ invalid' = Append(invalid, Len(issued) + 1) /\ Issues /\ Len(issued) + 1 \in Ids
PROOF
  <1> USE DEF ctx, loop, server, history, app
  <1>1. CASE \/ HandleConnectFails \/ HandleWriteFails \/ HandleReadEof
            \/ ProcessRejected \/ ProcessFails
    BY IInv, <1>1, Breaks
  <1>2. CASE Environment
    BY IInv, <1>2, Outside
  <1>3. CASE HandleWrite
    BY IInv, <1>3 DEF HandleWrite
  <1>4. CASE HandleRead
    BY IInv, <1>4 DEF HandleRead
  <1>5. CASE ProcessPending
    BY IInv, <1>5, PendingEffect DEF Delivers
  <1>6. CASE ProcessMessage
    BY IInv, <1>6, MessageEffect
  <1>7. CASE ProcessOther
    <2>1. replies' = replies /\ (invalid' = invalid \/ (invalid # <<>> /\ invalid' = Tail(invalid)))
      BY <1>7, OtherEffect
    <2> QED
      BY <2>1
  <1>8. CASE ProcessEnd
    BY IInv, <1>8, EndEffect
  <1>9. CASE FreeReplies
    BY IInv, <1>9, FreeRepliesEffect DEF Frees
  <1>10. CASE FreeInvalid
    BY IInv, <1>10, FreeInvalidEffect DEF Frees
  <1>11. CASE FreeSubscriptions
    BY IInv, <1>11 DEF FreeSubscriptions, Run
  <1>12. CASE FreeContext
    BY IInv, <1>12 DEF FreeContext
  <1>13. CASE CallbackReturns
    BY IInv, <1>13 DEF CallbackReturns
  <1>14. CASE FreeCallbackReturns
    BY IInv, <1>14 DEF FreeCallbackReturns
  <1>15. ASSUME NEW kind \in Kinds, NEW S \in SUBSET Names, DisciplinedCommand(kind, S)
         PROVE  /\ \/ replies' = replies
                   \/ replies # <<>> /\ replies' = Tail(replies)
                   \/ replies' = Append(replies, Len(issued) + 1) /\ Issues /\ Len(issued) + 1 \in Ids
                   \/ replies' = Append(replies, cb) /\ Has("monitoring")
                /\ \/ invalid' = invalid
                   \/ invalid # <<>> /\ invalid' = Tail(invalid)
                   \/ invalid' = Append(invalid, Len(issued) + 1) /\ Issues /\ Len(issued) + 1 \in Ids
    <2>1. Issues /\ Len(issued) + 1 \in Ids
      BY <1>15, CommandEffect DEF Issues
    <2>2. replies' = replies \/ replies' = Append(replies, Len(issued) + 1)
      BY <1>15, CommandEffect
    <2>3. invalid' = invalid \/ invalid' = Append(invalid, Len(issued) + 1)
      BY <1>15, CommandEffect
    <2> HIDE DEF ctx, loop, server, history, app
    <2> QED
      BY <2>1, <2>2, <2>3
  <1>16. CASE AsyncDisconnect
    BY IInv, <1>16 DEF AsyncDisconnect, UserRuns
  <1>17. CASE AsyncFree
    BY IInv, <1>17 DEF AsyncFree, UserRuns
  <1>18. CASE UNCHANGED vars
    BY IInv, <1>18 DEF vars
  <1> QED
    BY <1>1, <1>2, <1>3, <1>4, <1>5, <1>6, <1>7, <1>8, <1>9, <1>10, <1>11, <1>12,
       <1>13, <1>14, <1>15, <1>16, <1>17, <1>18 DEF DisciplinedNext, Handlers, Process, Freeing,
       Returns, DisciplinedUser

LEMMA WaitingMembers ==
  ASSUME IInv, [DisciplinedNext]_vars
  PROVE  /\ \A id \in Plain' : \/ id \in Plain \/ (Has("monitoring") /\ id = cb)
                               \/ Issues /\ id = Len(issued) + 1
         /\ \A id \in Waiting' : \/ id \in Waiting \/ (Has("monitoring") /\ id = cb)
                                 \/ Issues /\ id = Len(issued) + 1
PROOF
  <1>1. ListType /\ CallbackType
    BY DEF IInv, Types
  <1>2. cb \in Ids \cup {NoCb} /\ replies \in Seq(Ids \cup {NoCb}) /\ invalid \in Seq(Ids \cup {NoCb})
    BY <1>1 DEF ListType, CallbackType
  <1>3. ASSUME NEW i \in 1 .. Len(replies')
        PROVE  \/ replies'[i] \in Plain \/ (Has("monitoring") /\ replies'[i] = cb)
               \/ Issues /\ replies'[i] = Len(issued) + 1
    <2>1. CASE replies' = replies
      BY <2>1 DEF Plain
    <2>2. CASE replies # <<>> /\ replies' = Tail(replies)
      <3>1. replies'[i] = replies[i + 1] /\ i + 1 \in 1 .. Len(replies)
        BY <1>2, <2>2, ElementsOfTail
      <3> QED
        BY <3>1 DEF Plain
    <2>3. CASE replies' = Append(replies, Len(issued) + 1) /\ Issues /\ Len(issued) + 1 \in Ids
      <3>1. Len(issued) + 1 \in Ids \cup {NoCb}
        BY <2>3
      <3>2. \/ i \in 1 .. Len(replies) /\ replies'[i] = replies[i]
            \/ replies'[i] = Len(issued) + 1
        BY <1>2, <2>3, <3>1, ElementsOfAppend
      <3> QED
        BY <2>3, <3>2 DEF Plain
    <2>4. CASE replies' = Append(replies, cb) /\ Has("monitoring")
      <3>1. \/ i \in 1 .. Len(replies) /\ replies'[i] = replies[i]
            \/ replies'[i] = cb
        BY <1>2, <2>4, ElementsOfAppend
      <3> QED
        BY <2>4, <3>1 DEF Plain
    <2> QED
      BY <2>1, <2>2, <2>3, <2>4, ListsChange
  <1>4. ASSUME NEW i \in 1 .. Len(invalid')
        PROVE  \/ invalid'[i] \in Waiting
               \/ Issues /\ invalid'[i] = Len(issued) + 1
    <2>1. CASE invalid' = invalid
      BY <2>1 DEF Waiting
    <2>2. CASE invalid # <<>> /\ invalid' = Tail(invalid)
      <3>1. invalid'[i] = invalid[i + 1] /\ i + 1 \in 1 .. Len(invalid)
        BY <1>2, <2>2, ElementsOfTail
      <3> QED
        BY <3>1 DEF Waiting
    <2>3. CASE invalid' = Append(invalid, Len(issued) + 1) /\ Issues /\ Len(issued) + 1 \in Ids
      <3>1. Len(issued) + 1 \in Ids \cup {NoCb}
        BY <2>3
      <3>2. \/ i \in 1 .. Len(invalid) /\ invalid'[i] = invalid[i]
            \/ invalid'[i] = Len(issued) + 1
        BY <1>2, <2>3, <3>1, ElementsOfAppend
      <3> QED
        BY <2>3, <3>2 DEF Waiting
    <2> QED
      BY <2>1, <2>2, <2>3, ListsChange
  <1>5. \A id \in Plain' : \/ id \in Plain \/ (Has("monitoring") /\ id = cb)
                           \/ Issues /\ id = Len(issued) + 1
    BY <1>3 DEF Plain
  <1>6. \A id \in Waiting' : id \in Plain' \/ \E i \in 1 .. Len(invalid') : id = invalid'[i]
    BY DEF Waiting
  <1> QED
    BY <1>4, <1>5, <1>6 DEF Waiting

LEMMA CallbackKnown ==
  ASSUME IInv, [DisciplinedNext]_vars
  PROVE  cb' \in {cb, NoCb} \/ (issued' = issued /\ Issued(cb'))
PROOF
  <1> USE DEF ctx, loop, server, history, app
  <1>1. CASE \/ HandleConnectFails \/ HandleWriteFails \/ HandleReadEof
            \/ ProcessRejected \/ ProcessFails
    BY IInv, <1>1, Breaks
  <1>2. CASE Environment
    BY IInv, <1>2, Outside
  <1>3. CASE HandleWrite
    BY IInv, <1>3 DEF HandleWrite
  <1>4. CASE HandleRead
    BY IInv, <1>4 DEF HandleRead
  <1>5. CASE ProcessPending
    BY <1>5, IInv, PendingGives DEF Gives
  <1>6. CASE ProcessMessage
    BY <1>6, MessageGives DEF Gives
  <1>7. CASE ProcessOther
    BY <1>7, IInv, OtherGives DEF Gives
  <1>8. CASE ProcessEnd
    BY IInv, <1>8, EndEffect
  <1>9. CASE FreeReplies
    <2>1. Frees(replies) /\ (replies # <<>> => Head(replies) \in Waiting)
      BY <1>9, IInv, FreeRepliesEffect, WaitingHeads DEF IInv, Types
    <2> QED
      BY <2>1, IInv, FreeGives DEF Gives
  <1>10. CASE FreeInvalid
    <2>1. Frees(invalid) /\ (invalid # <<>> => Head(invalid) \in Waiting)
      BY <1>10, IInv, FreeInvalidEffect, WaitingHeads DEF IInv, Types
    <2> QED
      BY <2>1, IInv, FreeGives DEF Gives
  <1>11. CASE FreeSubscriptions
    BY <1>11, SubscriptionGives DEF Gives
  <1>12. CASE FreeContext
    BY IInv, <1>12 DEF FreeContext
  <1>13. CASE CallbackReturns
    BY IInv, <1>13 DEF CallbackReturns
  <1>14. CASE FreeCallbackReturns
    BY IInv, <1>14 DEF FreeCallbackReturns
  <1>15. ASSUME NEW kind \in Kinds, NEW S \in SUBSET Names, DisciplinedCommand(kind, S)
         PROVE  cb' \in {cb, NoCb} \/ (issued' = issued /\ Issued(cb'))
    BY IInv, <1>15, CommandEffect
  <1>16. CASE AsyncDisconnect
    BY IInv, <1>16 DEF AsyncDisconnect, UserRuns
  <1>17. CASE AsyncFree
    BY IInv, <1>17 DEF AsyncFree, UserRuns
  <1>18. CASE UNCHANGED vars
    BY IInv, <1>18 DEF vars
  <1> QED
    BY <1>1, <1>2, <1>3, <1>4, <1>5, <1>6, <1>7, <1>8, <1>9, <1>10, <1>11, <1>12,
       <1>13, <1>14, <1>15, <1>16, <1>17, <1>18 DEF DisciplinedNext, Handlers, Process, Freeing,
       Returns, DisciplinedUser

LEMMA SubscriptionsChange ==
  ASSUME IInv, [DisciplinedNext]_vars
  PROVE  \/ subs' = subs
         \/ \E n \in Names : subs' = [subs EXCEPT ![n] = NoCb]
         \/ \E k \in Kinds, T \in SUBSET Names :
              /\ DisciplinedCommand(k, T) /\ k = "subscribe"
              /\ subs' = [n \in Names |-> IF n \in T THEN Len(issued) + 1 ELSE subs[n]]
PROOF
  <1> USE DEF ctx, loop, server, history, app
  <1>1. CASE \/ HandleConnectFails \/ HandleWriteFails \/ HandleReadEof
            \/ ProcessRejected \/ ProcessFails
    BY IInv, <1>1, Breaks
  <1>2. CASE Environment
    BY IInv, <1>2, Outside
  <1>3. CASE HandleWrite
    BY IInv, <1>3 DEF HandleWrite
  <1>4. CASE HandleRead
    BY IInv, <1>4 DEF HandleRead
  <1>5. CASE ProcessPending
    BY IInv, <1>5, PendingEffect DEF Delivers
  <1>6. CASE ProcessMessage
    BY IInv, <1>6, MessageEffect
  <1>7. CASE ProcessOther
    BY IInv, <1>7, OtherEffect DEF Delivers
  <1>8. CASE ProcessEnd
    BY IInv, <1>8, EndEffect
  <1>9. CASE FreeReplies
    BY IInv, <1>9, FreeRepliesEffect DEF Frees
  <1>10. CASE FreeInvalid
    BY IInv, <1>10, FreeInvalidEffect DEF Frees
  <1>11. CASE FreeSubscriptions
    BY IInv, <1>11 DEF FreeSubscriptions, Run
  <1>12. CASE FreeContext
    BY IInv, <1>12 DEF FreeContext
  <1>13. CASE CallbackReturns
    BY IInv, <1>13 DEF CallbackReturns
  <1>14. CASE FreeCallbackReturns
    BY IInv, <1>14 DEF FreeCallbackReturns
  <1>15. ASSUME NEW kind \in Kinds, NEW S \in SUBSET Names, DisciplinedCommand(kind, S)
         PROVE  \/ subs' = subs
                \/ \E n \in Names : subs' = [subs EXCEPT ![n] = NoCb]
                \/ \E k \in Kinds, T \in SUBSET Names :
                     /\ DisciplinedCommand(k, T) /\ k = "subscribe"
                     /\ subs' = [n \in Names |-> IF n \in T THEN Len(issued) + 1 ELSE subs[n]]
    BY IInv, <1>15, CommandEffect
  <1>16. CASE AsyncDisconnect
    BY IInv, <1>16 DEF AsyncDisconnect, UserRuns
  <1>17. CASE AsyncFree
    BY IInv, <1>17 DEF AsyncFree, UserRuns
  <1>18. CASE UNCHANGED vars
    BY IInv, <1>18 DEF vars
  <1> QED
    BY <1>1, <1>2, <1>3, <1>4, <1>5, <1>6, <1>7, <1>8, <1>9, <1>10, <1>11, <1>12,
       <1>13, <1>14, <1>15, <1>16, <1>17, <1>18 DEF DisciplinedNext, Handlers, Process, Freeing,
       Returns, DisciplinedUser

LEMMA CallbackRunsOn ==
  ASSUME IInv, [DisciplinedNext]_vars
  PROVE  \/ pc' # "callback"
         \/ ProcessPending \/ ProcessOther \/ ProcessMessage
         \/ pc = "callback" /\ cb' = cb /\ reply' = reply
PROOF
  <1> USE DEF ctx, loop, server, history, app
  <1>1. CASE \/ HandleConnectFails \/ HandleWriteFails \/ HandleReadEof
            \/ ProcessRejected \/ ProcessFails
    BY IInv, <1>1, Breaks
  <1>2. CASE Environment
    BY IInv, <1>2, Outside
  <1>3. CASE HandleWrite
    BY IInv, <1>3 DEF HandleWrite
  <1>4. CASE HandleRead
    BY IInv, <1>4 DEF HandleRead
  <1>5. CASE ProcessPending
    BY <1>5
  <1>6. CASE ProcessMessage
    BY <1>6
  <1>7. CASE ProcessOther
    BY <1>7
  <1>8. CASE ProcessEnd
    BY IInv, <1>8, EndEffect
  <1>9. CASE FreeReplies
    BY IInv, <1>9, FreeRepliesEffect DEF Frees
  <1>10. CASE FreeInvalid
    BY IInv, <1>10, FreeInvalidEffect DEF Frees
  <1>11. CASE FreeSubscriptions
    BY IInv, <1>11 DEF FreeSubscriptions, Run
  <1>12. CASE FreeContext
    BY IInv, <1>12 DEF FreeContext
  <1>13. CASE CallbackReturns
    BY IInv, <1>13 DEF CallbackReturns
  <1>14. CASE FreeCallbackReturns
    BY IInv, <1>14 DEF FreeCallbackReturns
  <1>15. ASSUME NEW kind \in Kinds, NEW S \in SUBSET Names, DisciplinedCommand(kind, S)
         PROVE  \/ pc' # "callback"
                \/ ProcessPending \/ ProcessOther \/ ProcessMessage
                \/ pc = "callback" /\ cb' = cb /\ reply' = reply
    BY IInv, <1>15, CommandEffect
  <1>16. CASE AsyncDisconnect
    BY IInv, <1>16 DEF AsyncDisconnect, UserRuns
  <1>17. CASE AsyncFree
    BY IInv, <1>17 DEF AsyncFree, UserRuns
  <1>18. CASE UNCHANGED vars
    BY IInv, <1>18 DEF vars
  <1> QED
    BY <1>1, <1>2, <1>3, <1>4, <1>5, <1>6, <1>7, <1>8, <1>9, <1>10, <1>11, <1>12,
       <1>13, <1>14, <1>15, <1>16, <1>17, <1>18 DEF DisciplinedNext, Handlers, Process, Freeing,
       Returns, DisciplinedUser

LEMMA IdleEmpty ==
  ASSUME IInv, [DisciplinedNext]_vars
  PROVE  pc' = "idle" => rbuf' = <<>>
PROOF
  <1> USE DEF ctx, loop, server, history, app
  <1>1. CASE \/ HandleConnectFails \/ HandleWriteFails \/ HandleReadEof
            \/ ProcessRejected \/ ProcessFails
    BY IInv, <1>1, Breaks DEF IInv, Known, NoAssertion
  <1>2. CASE Environment
    BY IInv, <1>2, Outside DEF IInv, Known, NoAssertion
  <1>3. CASE HandleWrite
    BY IInv, <1>3 DEF HandleWrite, IInv, Known, NoAssertion
  <1>4. CASE HandleRead
    BY IInv, <1>4 DEF HandleRead, IInv, Known, NoAssertion
  <1>5. CASE ProcessPending
    BY IInv, <1>5, PendingEffect DEF Delivers, IInv, Known, NoAssertion
  <1>6. CASE ProcessMessage
    BY IInv, <1>6, MessageEffect DEF Hears, IInv, Known, NoAssertion
  <1>7. CASE ProcessOther
    BY IInv, <1>7, OtherEffect DEF Delivers, IInv, Known, NoAssertion
  <1>8. CASE ProcessEnd
    BY IInv, <1>8, EndEffect DEF IInv, Known, NoAssertion
  <1>9. CASE FreeReplies
    BY IInv, <1>9, FreeRepliesEffect DEF Frees, IInv, Known, NoAssertion
  <1>10. CASE FreeInvalid
    BY IInv, <1>10, FreeInvalidEffect DEF Frees, IInv, Known, NoAssertion
  <1>11. CASE FreeSubscriptions
    BY IInv, <1>11 DEF FreeSubscriptions, Run, IInv, Known, NoAssertion
  <1>12. CASE FreeContext
    BY IInv, <1>12 DEF FreeContext, IInv, Known, NoAssertion
  <1>13. CASE CallbackReturns
    BY IInv, <1>13 DEF CallbackReturns, IInv, Known, NoAssertion
  <1>14. CASE FreeCallbackReturns
    BY IInv, <1>14 DEF FreeCallbackReturns, IInv, Known, NoAssertion
  <1>15. ASSUME NEW kind \in Kinds, NEW S \in SUBSET Names, DisciplinedCommand(kind, S)
         PROVE  pc' = "idle" => rbuf' = <<>>
    BY IInv, <1>15, CommandEffect DEF IInv, Known, NoAssertion
  <1>16. CASE AsyncDisconnect
    BY IInv, <1>16 DEF AsyncDisconnect, UserRuns, IInv, Known, NoAssertion
  <1>17. CASE AsyncFree
    BY IInv, <1>17 DEF AsyncFree, UserRuns, IInv, Known, NoAssertion
  <1>18. CASE UNCHANGED vars
    BY IInv, <1>18 DEF vars, IInv, Known, NoAssertion
  <1> QED
    BY <1>1, <1>2, <1>3, <1>4, <1>5, <1>6, <1>7, <1>8, <1>9, <1>10, <1>11, <1>12,
       <1>13, <1>14, <1>15, <1>16, <1>17, <1>18 DEF DisciplinedNext, Handlers, Process, Freeing,
       Returns, DisciplinedUser

\* A subscription has the callback of a SUBSCRIBE that was issued.
LEMMA SubscribersKnown ==
  ASSUME IInv, [DisciplinedNext]_vars
  PROVE  \A n \in Names : subs'[n] # NoCb =>
           /\ subs'[n] \in 1 .. Len(issued')
           /\ issued'[subs'[n]].kind = "subscribe" /\ n \in issued'[subs'[n]].names
PROOF
  <1>1. \A n \in Names : subs[n] # NoCb =>
          /\ subs[n] \in 1 .. Len(issued')
          /\ issued'[subs[n]].kind = "subscribe" /\ n \in issued'[subs[n]].names
    BY IssuedStays DEF IInv, Known, Subscribed, Issued
  <1>2. subs \in [Names -> Ids \cup {NoCb}]
    BY DEF IInv, Types, ListType
  <1>3. \/ subs' = subs
        \/ \E n \in Names : subs' = [subs EXCEPT ![n] = NoCb]
        \/ \E kind \in Kinds, S \in SUBSET Names :
             /\ DisciplinedCommand(kind, S) /\ kind = "subscribe"
             /\ subs' = [n \in Names |-> IF n \in S THEN Len(issued) + 1 ELSE subs[n]]
    BY SubscriptionsChange
  <1>4. ASSUME NEW kind \in Kinds, NEW S \in SUBSET Names, DisciplinedCommand(kind, S), kind = "subscribe",
               subs' = [n \in Names |-> IF n \in S THEN Len(issued) + 1 ELSE subs[n]]
        PROVE  \A n \in Names : subs'[n] # NoCb =>
                 /\ subs'[n] \in 1 .. Len(issued')
                 /\ issued'[subs'[n]].kind = "subscribe" /\ n \in issued'[subs'[n]].names
    <2>1. /\ issued' = Append(issued, [kind |-> kind, plain |-> ~Has("subscribed"), names |-> S])
          /\ issued \in Seq(Entries)
      BY <1>4, CommandEffect DEF IInv, Types, HistoryType
    <2>2. [kind |-> kind, plain |-> ~Has("subscribed"), names |-> S] \in Entries
      BY DEF Entries
    <2>3. /\ Len(issued') = Len(issued) + 1 /\ Len(issued) \in Nat
          /\ issued'[Len(issued) + 1] = [kind |-> kind, plain |-> ~Has("subscribed"), names |-> S]
      BY <2>1, <2>2, AppendProperties, LenProperties
    <2> QED
      BY <1>1, <1>4, <2>3
  <1> QED
    BY <1>1, <1>2, <1>3, <1>4

LEMMA CallbackOwned ==
  ASSUME IInv, [DisciplinedNext]_vars, pc' = "callback"
  PROVE  /\ cb' # NoCb
         /\ issued'[cb'].kind = "subscribe" =>
              reply'.kind \in Pushes /\ reply'.names \subseteq issued'[cb'].names
PROOF
  <1> USE DEF ctx, loop, server, history, app
  <1>1. CASE ProcessPending
    <2>1. pc = "process" /\ issued' = issued /\ pc' # pc
      BY <1>1, PendingEffect
    <2>2. /\ Issued(Head(replies)) /\ cb' = Head(replies) /\ cb' # NoCb
          /\ issued[Head(replies)].kind # "subscribe"
      <3>1. Delivers(Head(replies), Head(rbuf)) /\ replies # <<>>
        BY <1>1, PendingEffect
      <3>2. cb' = Head(replies) /\ cb' # NoCb
        BY <2>1, <3>1 DEF Delivers
      <3>3. Issued(Head(replies))
        BY <3>1, <3>2, WaitingHeads DEF IInv, Types, Known
      <3>4. CASE Has("monitoring")
        BY <3>2, <3>3, <3>4 DEF IInv, Alone, Issued
      <3>5. CASE ~Has("monitoring")
        BY <1>1, <3>2, <3>3, <3>5, PendingOwn DEF Regular
      <3> QED
        BY <3>4, <3>5
    <2> QED
      BY <2>1, <2>2
  <1>2. CASE ProcessOther
    <2>1. pc = "process" /\ issued' = issued /\ pc' # pc
      BY <1>2, OtherEffect
    <2>2. CASE Has("monitoring")
      <3>1. /\ Delivers(cb, Head(rbuf))
        BY <1>2, <2>2, OtherEffect DEF IInv, Alone
      <3>2. cb' = cb /\ cb # NoCb
        BY <2>1, <3>1 DEF Delivers
      <3> QED
        BY <2>1, <2>2, <3>2 DEF IInv, Alone, Known, Issued
    <2>3. CASE ~Has("monitoring")
      BY <1>2, <2>1, <2>3, OtherOwn DEF Regular
    <2> QED
      BY <2>2, <2>3
  <1>3. CASE ProcessMessage
    <2>1. PICK n \in Names : Head(rbuf).names = {n} /\ Subscribed(n) /\ cb' = subs[n]
      BY <1>3, MessageEffect
    <2>2. Push(Head(rbuf)) /\ issued' = issued /\ pc = "process"
      BY <1>3, MessageEffect
    <2>3. reply' = Head(rbuf)
      <3>1. \E m \in Names : Hears(m, Head(rbuf))
        BY <1>3, MessageEffect
      <3> QED
        BY <2>2, <3>1 DEF Hears
    <2> QED
      BY <2>1, <2>2, <2>3 DEF IInv, Known, Subscribed, Push
  <1>4. CASE pc = "callback" /\ cb' = cb /\ reply' = reply
    <2>1. cb # NoCb /\ Issued(cb)
      BY <1>4 DEF IInv, Known
    <2>2. issued'[cb] = issued[cb]
      BY <2>1, IssuedStays DEF Issued
    <2> QED
      BY <1>4, <2>1, <2>2 DEF IInv, Known
  <1>5. \/ ProcessPending \/ ProcessOther \/ ProcessMessage
        \/ pc = "callback" /\ cb' = cb /\ reply' = reply
    BY CallbackRunsOn
  <1> QED
    BY <1>1, <1>2, <1>3, <1>4, <1>5

LEMMA KnownStep ==
  ASSUME IInv, [DisciplinedNext]_vars
  PROVE  Known'
PROOF
  <1>1. /\ \A id : Issued(id) => id \in 1 .. Len(issued')
        /\ Issues => Len(issued) + 1 \in 1 .. Len(issued')
    BY IssuedStays, IssuesAfter DEF Issued, IInv, Types
  <1>2. cb = NoCb \/ Issued(cb)
    BY DEF IInv, Known
  <1>3. cb' = NoCb \/ cb' \in 1 .. Len(issued')
    BY <1>1, <1>2, CallbackKnown
  <1>4. \A id \in Waiting' : id = NoCb \/ id \in 1 .. Len(issued')
    BY <1>1, <1>2, WaitingMembers DEF IInv, Known
  <1>5. pc' = "idle" => rbuf' = <<>>
    BY IdleEmpty
  <1> QED
    BY <1>3, <1>4, <1>5, SubscribersKnown, CallbackOwned DEF Known, Subscribed, Issued

-----------------------------------------------------------------------------
(* Who waits, outside of monitor mode.                                       *)

WaitersStay ==
  UNCHANGED <<replies, invalid, issued>> /\ \A id \in Waiting : got'[id] = got[id]
\* Command id waits no longer: its callback was given a reply, or it has none.
Settled(id) ==
  \/ \E r : Gives(id, r)
  \/ id \in Silent /\ UNCHANGED <<issued, got>>
Answered ==
  /\ replies # <<>> /\ replies' = Tail(replies) /\ UNCHANGED <<invalid, issued>>
  /\ Settled(Head(replies))
AnsweredInvalid ==
  /\ replies = <<>> /\ invalid # <<>> /\ invalid' = Tail(invalid) /\ UNCHANGED <<replies, issued>>
  /\ Settled(Head(invalid))
IssuesOther ==
  /\ Issues /\ UNCHANGED <<replies, invalid>>
  /\ issued'[Len(issued) + 1].kind \in {"subscribe", "unsubscribe"}
IssuesRegular ==
  /\ Issues /\ issued'[Len(issued) + 1].kind = "regular"
  /\ issued'[Len(issued) + 1].plain = ~Has("subscribed") /\ Live
  /\ \/ ~Has("subscribed") /\ replies' = Append(replies, Len(issued) + 1) /\ UNCHANGED invalid
     \/ Has("subscribed") /\ invalid' = Append(invalid, Len(issued) + 1) /\ UNCHANGED replies

LEMMA OthersWait ==
  ASSUME IInv, ~Has("monitoring"), NEW id, NEW r, Gives(id, r), ~Regular(id)
  PROVE  \A j \in Waiting : got'[j] = got[j]
PROOF
  <1>1. \A j \in Waiting : j \in 1 .. Len(issued) /\ Regular(j)
    BY DEF IInv, Lists, Issued
  <1>2. \A j \in 1 .. Len(issued) : got'[j] = IF j = id THEN Append(got[id], r) ELSE got[j]
    BY GotAfter DEF IInv, Types
  <1> QED
    BY <1>1, <1>2

LEMMA NewCommand ==
  ASSUME IInv, NEW kind \in Kinds, NEW S \in SUBSET Names, DisciplinedCommand(kind, S)
  PROVE  /\ Issues /\ Len(issued') = Len(issued) + 1 /\ Len(issued) \in Nat
         /\ \A j \in 1 .. Len(issued) : issued'[j] = issued[j]
         /\ issued'[Len(issued) + 1] = [kind |-> kind, plain |-> ~Has("subscribed"), names |-> S]
PROOF
  <1>1. /\ issued' = Append(issued, [kind |-> kind, plain |-> ~Has("subscribed"), names |-> S])
        /\ issued \in Seq(Entries) /\ Issues
    BY CommandEffect DEF IInv, Types, HistoryType, Issues
  <1>2. [kind |-> kind, plain |-> ~Has("subscribed"), names |-> S] \in Entries
    BY DEF Entries
  <1> QED
    BY <1>1, <1>2, AppendProperties, LenProperties

LEMMA CommandLive ==
  ASSUME IInv, NEW kind \in Kinds, NEW S \in SUBSET Names, DisciplinedCommand(kind, S)
  PROVE  Live /\ pc \in {"idle", "callback"}
PROOF
  BY CommandEffect DEF IInv, Answers, Live

LEMMA SettledGot ==
  ASSUME HistoryType, NEW id, Settled(id)
  PROVE  \A j \in 1 .. Len(issued) : j # id => got'[j] = got[j]
PROOF
  BY GotAfter DEF Settled

LEMMA WaitersEffect ==
  ASSUME IInv, ~Has("monitoring"), [DisciplinedNext]_vars
  PROVE  \/ WaitersStay \/ Answered \/ AnsweredInvalid \/ IssuesOther \/ IssuesRegular
         \/ "monitoring" \in flags'
PROOF
  <1> USE DEF ctx, loop, server, history, app
  <1>1. CASE \/ HandleConnectFails \/ HandleWriteFails \/ HandleReadEof
            \/ ProcessRejected \/ ProcessFails
    BY IInv, <1>1, Breaks DEF WaitersStay
  <1>2. CASE Environment
    BY IInv, <1>2, Outside DEF WaitersStay
  <1>3. CASE HandleWrite
    BY IInv, <1>3 DEF HandleWrite, WaitersStay
  <1>4. CASE HandleRead
    BY IInv, <1>4 DEF HandleRead, WaitersStay
  <1>5. CASE ProcessPending
    <2>1. /\ replies # <<>> /\ replies' = Tail(replies)
          /\ UNCHANGED <<invalid, issued>> /\ Delivers(Head(replies), Head(rbuf))
      BY <1>5, PendingEffect
    <2>2. Head(replies) # NoCb
      BY <1>5, PendingOwn
    <2>3. CASE Head(replies) \in Silent
      BY <2>1, <2>3 DEF Delivers, HasFn, Answered, Settled
    <2>4. CASE Head(replies) \notin Silent
      <3>1. pc' # pc
        BY <1>5, <2>1, <2>2, <2>4, PendingEffect DEF Delivers, HasFn
      <3> QED
        BY <1>5, <2>1, <3>1, PendingGives DEF Answered, Settled
    <2> QED
      BY <2>3, <2>4
  <1>6. CASE ProcessMessage
    <2>1. PICK n \in Names :
            Subscribed(n) /\ (UNCHANGED <<pc, issued, got>> \/ Gives(subs[n], Head(rbuf)))
      BY <1>6, MessageGives
    <2>2. ~Regular(subs[n])
      BY <2>1 DEF IInv, Known, Regular
    <2>3. UNCHANGED <<replies, invalid, issued>>
      BY <1>6, MessageEffect
    <2> QED
      BY <2>1, <2>2, <2>3, OthersWait DEF WaitersStay
  <1>7. CASE ProcessOther
    <2>1. Settled(Head(invalid))
      <3>1. Delivers(Head(invalid), Head(rbuf)) /\ Head(invalid) # NoCb
        BY <1>7, OtherOwn
      <3>2. pc = "process" /\ issued' = issued
        BY <1>7, OtherEffect
      <3>3. CASE Head(invalid) \in Silent
        BY <3>1, <3>2, <3>3 DEF Delivers, HasFn, Settled
      <3>4. CASE Head(invalid) \notin Silent
        BY <1>7, <3>1, <3>2, <3>4, OtherGives DEF Delivers, HasFn, Settled
      <3> QED
        BY <3>3, <3>4
    <2>2. replies = <<>> /\ UNCHANGED <<replies, issued>> /\ invalid # <<>> /\ invalid' = Tail(invalid)
      BY <1>7, OtherEffect, OtherOwn
    <2> QED
      BY <2>1, <2>2 DEF AnsweredInvalid
  <1>8. CASE ProcessEnd
    BY IInv, <1>8, EndEffect DEF WaitersStay
  <1>9. CASE FreeReplies
    <2>1. Frees(replies) /\ replies' = Tail(replies) /\ UNCHANGED invalid
      BY <1>9, FreeRepliesEffect
    <2>2. replies # <<>> /\ issued' = issued /\ Head(replies) # NoCb
      BY <2>1, WaitsOnce DEF Frees
    <2>3. Settled(Head(replies))
      <3>1. Head(replies) \in Waiting /\ Issued(Head(replies)) /\ got[Head(replies)] = <<>>
        BY <2>2, WaitsOnce, WaitingHeads DEF IInv, Types
      <3>2. CASE Head(replies) \in Silent
        BY <2>1, <3>2 DEF Frees, HasFn, Settled
      <3>3. CASE Head(replies) \notin Silent
        <4>1. /\ reply' = NullReply /\ pc = "free" /\ pc' = "freeCallback"
              /\ cb' = Head(replies)
              /\ got' = [got EXCEPT ![Head(replies)] = Append(@, NullReply)]
          BY <2>1, <2>2, <3>3 DEF Frees, HasFn
        <4>2. Gives(Head(replies), NullReply)
          BY <2>2, <3>1, <4>1, NullType DEF Gives
        <4> QED
          BY <4>2 DEF Settled
      <3> QED
        BY <3>2, <3>3
    <2> QED
      BY <2>1, <2>2, <2>3 DEF Answered
  <1>10. CASE FreeInvalid
    <2>1. Frees(invalid) /\ invalid' = Tail(invalid) /\ UNCHANGED replies /\ replies = <<>>
      BY <1>10, FreeInvalidEffect
    <2>2. invalid # <<>> /\ issued' = issued /\ Head(invalid) # NoCb
      BY <2>1, WaitsOnce DEF Frees
    <2>3. Settled(Head(invalid))
      <3>1. Head(invalid) \in Waiting /\ Issued(Head(invalid)) /\ got[Head(invalid)] = <<>>
        BY <2>2, WaitsOnce, WaitingHeads DEF IInv, Types
      <3>2. CASE Head(invalid) \in Silent
        BY <2>1, <3>2 DEF Frees, HasFn, Settled
      <3>3. CASE Head(invalid) \notin Silent
        <4>1. /\ reply' = NullReply /\ pc = "free" /\ pc' = "freeCallback"
              /\ cb' = Head(invalid)
              /\ got' = [got EXCEPT ![Head(invalid)] = Append(@, NullReply)]
          BY <2>1, <2>2, <3>3 DEF Frees, HasFn
        <4>2. Gives(Head(invalid), NullReply)
          BY <2>2, <3>1, <4>1, NullType DEF Gives
        <4> QED
          BY <4>2 DEF Settled
      <3> QED
        BY <3>2, <3>3
    <2> QED
      BY <2>1, <2>2, <2>3 DEF AnsweredInvalid
  <1>11. CASE FreeSubscriptions
    <2>1. UNCHANGED <<replies, invalid, issued>>
      BY <1>11 DEF FreeSubscriptions
    <2>2. CASE got' = got
      BY <2>1, <2>2 DEF WaitersStay
    <2>3. ASSUME NEW n \in Names, Subscribed(n), Gives(subs[n], NullReply)
          PROVE  WaitersStay
      <3>1. ~Regular(subs[n])
        BY <2>3 DEF IInv, Known, Regular
      <3> QED
        BY <2>1, <2>3, <3>1, OthersWait DEF WaitersStay
    <2> QED
      BY <1>11, <2>2, <2>3, SubscriptionGives
  <1>12. CASE FreeContext
    BY IInv, <1>12 DEF FreeContext, WaitersStay
  <1>13. CASE CallbackReturns
    BY IInv, <1>13 DEF CallbackReturns, WaitersStay
  <1>14. CASE FreeCallbackReturns
    BY IInv, <1>14 DEF FreeCallbackReturns, WaitersStay
  <1>15. ASSUME NEW kind \in Kinds, NEW S \in SUBSET Names, DisciplinedCommand(kind, S)
         PROVE  \/ WaitersStay \/ Answered \/ AnsweredInvalid \/ IssuesOther \/ IssuesRegular
                \/ "monitoring" \in flags'
    <2>1. /\ Issues /\ Live
          /\ issued'[Len(issued) + 1].kind = kind
          /\ issued'[Len(issued) + 1].plain = ~Has("subscribed")
      <3>1. /\ Issues /\ Live
            /\ issued'[Len(issued) + 1] = [kind |-> kind, plain |-> ~Has("subscribed"), names |-> S]
        BY <1>15, IInv, NewCommand, CommandLive
      <3> HIDE DEF ctx, loop, server, history, app
      <3> QED
        BY <3>1
    <2>2. CASE kind \in {"subscribe", "unsubscribe"}
      <3>1. UNCHANGED <<replies, invalid>>
        BY <1>15, <2>2, CommandEffect
      <3> QED
        BY <2>1, <2>2, <3>1 DEF IssuesOther
    <2>3. CASE kind = "monitor"
      BY <1>15, <2>3, CommandEffect
    <2>4. CASE kind = "regular"
      <3>1. \/ ~Has("subscribed") /\ replies' = Append(replies, Len(issued) + 1) /\ UNCHANGED invalid
            \/ Has("subscribed") /\ invalid' = Append(invalid, Len(issued) + 1) /\ UNCHANGED replies
        BY <1>15, <2>4, CommandEffect
      <3> QED
        BY <2>1, <2>4, <3>1 DEF IssuesRegular
    <2> QED
      BY <2>2, <2>3, <2>4 DEF Kinds
  <1>16. CASE AsyncDisconnect
    BY IInv, <1>16 DEF AsyncDisconnect, UserRuns, WaitersStay
  <1>17. CASE AsyncFree
    BY IInv, <1>17 DEF AsyncFree, UserRuns, WaitersStay
  <1>18. CASE UNCHANGED vars
    BY IInv, <1>18 DEF vars, WaitersStay
  <1> QED
    BY <1>1, <1>2, <1>3, <1>4, <1>5, <1>6, <1>7, <1>8, <1>9, <1>10, <1>11, <1>12,
       <1>13, <1>14, <1>15, <1>16, <1>17, <1>18 DEF DisciplinedNext, Handlers, Process, Freeing,
       Returns, DisciplinedUser

LEMMA ListsStep ==
  ASSUME IInv, [DisciplinedNext]_vars, ~("monitoring" \in flags')
  PROVE  Lists'
PROOF
  <1>1. ~Has("monitoring")
    BY FlagsStay DEF Has
  <1>2. Lists /\ HistoryType /\ ListType
    BY <1>1 DEF IInv, Types
  <1>3. /\ replies \in Seq(Ids \cup {NoCb}) /\ invalid \in Seq(Ids \cup {NoCb})
        /\ Len(replies) \in Nat /\ Len(invalid) \in Nat /\ Len(issued) \in Nat
    BY <1>2, IssuedStays, LenProperties DEF ListType
  <1>4. /\ \A i \in 1 .. Len(replies) : replies[i] \in Waiting
        /\ \A i \in 1 .. Len(invalid) : invalid[i] \in Waiting
        /\ \A id \in Waiting : id \in 1 .. Len(issued) /\ issued[id].kind = "regular" /\ got[id] = <<>>
    BY <1>2 DEF Waiting, Plain, Lists, Issued, Regular
  <1>5. CASE WaitersStay
    <2>1. Waiting' = Waiting /\ issued' = issued
      BY <1>5 DEF WaitersStay, Waiting, Plain
    <2>2. \A id \in Waiting' : id \in 1 .. Len(issued') /\ issued'[id].kind = "regular" /\ got'[id] = <<>>
      BY <1>4, <1>5, <2>1 DEF WaitersStay
    <2> QED
      BY <1>2, <1>5, <2>2 DEF WaitersStay, Lists, Issued, Regular
  <1>6. CASE Answered
    <2>1. /\ Len(replies') = Len(replies) - 1 /\ Head(replies) = replies[1] /\ Len(replies) >= 1
          /\ \A i \in 1 .. Len(replies') : replies'[i] = replies[i + 1] /\ i + 1 \in 1 .. Len(replies)
      BY <1>3, <1>6, ElementsOfTail DEF Answered
    <2>2. invalid' = invalid /\ issued' = issued
      BY <1>6 DEF Answered
    <2>3. Settled(Head(replies))
      BY <1>6 DEF Answered
    <2>4. \A j \in 1 .. Len(issued) : j # replies[1] => got'[j] = got[j]
      BY <1>2, <2>1, <2>3, SettledGot
    <2>5. 1 \in 1 .. Len(replies)
      BY <1>3, <2>1
    <2>6. \A id \in Waiting' : id \in Waiting /\ id # replies[1]
      <3>1. \A i \in 1 .. Len(replies') : replies'[i] \in Waiting /\ replies'[i] # replies[1]
        <4> SUFFICES ASSUME NEW i \in 1 .. Len(replies')
                     PROVE  replies'[i] \in Waiting /\ replies'[i] # replies[1]
          OBVIOUS
        <4>1. replies'[i] = replies[i + 1] /\ i + 1 \in 1 .. Len(replies) /\ 1 < i + 1
          BY <1>3, <2>1
        <4>2. replies[1] < replies[i + 1] /\ replies[1] \in Int
          BY <1>2, <1>3, <1>4, <2>5, <4>1 DEF Lists
        <4> QED
          BY <1>4, <4>1, <4>2
      <3>2. \A i \in 1 .. Len(invalid') : invalid'[i] \in Waiting /\ invalid'[i] # replies[1]
        <4> SUFFICES ASSUME NEW i \in 1 .. Len(invalid)
                     PROVE  invalid[i] \in Waiting /\ invalid[i] # replies[1]
          BY <2>2
        <4>1. replies[1] < invalid[i] /\ replies[1] \in Int
          BY <1>2, <1>3, <1>4, <2>5 DEF Lists
        <4> QED
          BY <1>4, <4>1
      <3> QED
        BY <3>1, <3>2 DEF Waiting, Plain
    <2>7. \A id \in Waiting' : id \in 1 .. Len(issued') /\ issued'[id].kind = "regular" /\ got'[id] = <<>>
      BY <1>4, <2>2, <2>4, <2>6
    <2>8. \A i, j \in 1 .. Len(replies') : i < j => replies'[i] < replies'[j]
      BY <1>2, <1>3, <2>1 DEF Lists
    <2>9. \A i \in 1 .. Len(replies'), j \in 1 .. Len(invalid') : replies'[i] < invalid'[j]
      BY <1>2, <2>1, <2>2 DEF Lists
    <2> QED
      BY <1>2, <2>2, <2>7, <2>8, <2>9 DEF Lists, Issued, Regular
  <1>7. CASE AnsweredInvalid
    <2>1. /\ Len(invalid') = Len(invalid) - 1 /\ Head(invalid) = invalid[1] /\ Len(invalid) >= 1
          /\ \A i \in 1 .. Len(invalid') : invalid'[i] = invalid[i + 1] /\ i + 1 \in 1 .. Len(invalid)
      BY <1>3, <1>7, ElementsOfTail DEF AnsweredInvalid
    <2>2. replies' = <<>> /\ issued' = issued /\ Len(replies') = 0
      BY <1>7 DEF AnsweredInvalid
    <2>3. Settled(Head(invalid))
      BY <1>7 DEF AnsweredInvalid
    <2>4. \A j \in 1 .. Len(issued) : j # invalid[1] => got'[j] = got[j]
      BY <1>2, <2>1, <2>3, SettledGot
    <2>5. 1 \in 1 .. Len(invalid)
      BY <1>3, <2>1
    <2>6. \A id \in Waiting' : id \in Waiting /\ id # invalid[1]
      <3>1. \A i \in 1 .. Len(invalid') : invalid'[i] \in Waiting /\ invalid'[i] # invalid[1]
        <4> SUFFICES ASSUME NEW i \in 1 .. Len(invalid')
                     PROVE  invalid'[i] \in Waiting /\ invalid'[i] # invalid[1]
          OBVIOUS
        <4>1. invalid'[i] = invalid[i + 1] /\ i + 1 \in 1 .. Len(invalid) /\ 1 < i + 1
          BY <1>3, <2>1
        <4>2. invalid[1] < invalid[i + 1] /\ invalid[1] \in Int
          BY <1>2, <1>3, <1>4, <2>5, <4>1 DEF Lists
        <4> QED
          BY <1>4, <4>1, <4>2
      <3> QED
        BY <2>2, <3>1 DEF Waiting, Plain
    <2>7. \A id \in Waiting' : id \in 1 .. Len(issued') /\ issued'[id].kind = "regular" /\ got'[id] = <<>>
      BY <1>4, <2>2, <2>4, <2>6
    <2>8. \A i, j \in 1 .. Len(invalid') : i < j => invalid'[i] < invalid'[j]
      BY <1>2, <1>3, <2>1 DEF Lists
    <2> QED
      BY <2>2, <2>7, <2>8, SMTT(30) DEF Lists, Issued, Regular
  <1>8. ASSUME Issues
        PROVE  /\ Len(issued') = Len(issued) + 1
               /\ \A id \in Waiting : id \in 1 .. Len(issued') /\ issued'[id].kind = "regular"
                                      /\ got'[id] = <<>> /\ id < Len(issued) + 1
               /\ got'[Len(issued) + 1] = <<>> /\ Len(issued) + 1 \in Ids \cup {NoCb}
    <2>1. /\ Len(issued') = Len(issued) + 1 /\ got'[Len(issued) + 1] = <<>>
          /\ \A j \in 1 .. Len(issued) : issued'[j] = issued[j] /\ got'[j] = got[j]
      BY <1>2, <1>8, IssuesAfter
    <2>2. Len(issued) + 1 \in Ids \cup {NoCb}
      BY <1>8 DEF Issues
    <2>3. ASSUME NEW id \in Waiting
          PROVE  id \in 1 .. Len(issued') /\ issued'[id].kind = "regular"
                 /\ got'[id] = <<>> /\ id < Len(issued) + 1
      <3>1. id \in 1 .. Len(issued) /\ issued[id].kind = "regular" /\ got[id] = <<>>
        BY <1>4
      <3> QED
        BY <1>3, <2>1, <3>1
    <2> QED
      BY <2>1, <2>2, <2>3
  <1>9. CASE IssuesOther
    <2>1. Waiting' = Waiting /\ UNCHANGED <<replies, invalid>> /\ Issues
      BY <1>9 DEF IssuesOther, Waiting, Plain
    <2> QED
      BY <1>2, <1>8, <2>1 DEF Lists, Issued, Regular
  <1>10. CASE IssuesRegular
    <2>1. Issues /\ issued'[Len(issued) + 1].kind = "regular"
      BY <1>10 DEF IssuesRegular
    <2>2. CASE ~Has("subscribed") /\ replies' = Append(replies, Len(issued) + 1) /\ UNCHANGED invalid
      <3>1. invalid = <<>>
        BY <1>1, <1>10, <2>2 DEF IssuesRegular, IInv, Pipeline, Subscriptions
      <3>2. /\ Len(replies') = Len(replies) + 1 /\ replies'[Len(replies) + 1] = Len(issued) + 1
            /\ \A i \in 1 .. Len(replies) : replies'[i] = replies[i]
            /\ \A i \in 1 .. Len(replies') : i \in 1 .. Len(replies) \/ i = Len(replies) + 1
        BY <1>3, <1>8, <2>1, <2>2, ElementsOfAppend
      <3>3. \A id \in Waiting' : id \in Waiting \/ id = Len(issued) + 1
        BY <1>4, <2>2, <3>1, <3>2 DEF Waiting, Plain
      <3>4. \A id \in Waiting' : id \in 1 .. Len(issued') /\ issued'[id].kind = "regular" /\ got'[id] = <<>>
        BY <1>3, <1>8, <2>1, <3>3
      <3>5. \A i, j \in 1 .. Len(replies') : i < j => replies'[i] < replies'[j]
        <4> SUFFICES ASSUME NEW i \in 1 .. Len(replies'), NEW j \in 1 .. Len(replies'), i < j
                     PROVE  replies'[i] < replies'[j]
          OBVIOUS
        <4>1. i \in 1 .. Len(replies)
          BY <1>3, <3>2
        <4>2. CASE j = Len(replies) + 1
          BY <1>4, <1>8, <2>1, <3>2, <4>1, <4>2
        <4>3. CASE j \in 1 .. Len(replies)
          BY <1>2, <3>2, <4>1, <4>3 DEF Lists
        <4> QED
          BY <3>2, <4>2, <4>3
      <3>6. Len(invalid') = 0
        BY <2>2, <3>1
      <3> QED
        BY <3>4, <3>5, <3>6 DEF Lists, Issued, Regular
    <2>3. CASE Has("subscribed") /\ invalid' = Append(invalid, Len(issued) + 1) /\ UNCHANGED replies
      <3>2. /\ Len(invalid') = Len(invalid) + 1 /\ invalid'[Len(invalid) + 1] = Len(issued) + 1
            /\ \A i \in 1 .. Len(invalid) : invalid'[i] = invalid[i]
            /\ \A i \in 1 .. Len(invalid') : i \in 1 .. Len(invalid) \/ i = Len(invalid) + 1
        BY <1>3, <1>8, <2>1, <2>3, ElementsOfAppend
      <3>3. \A id \in Waiting' : id \in Waiting \/ id = Len(issued) + 1
        BY <1>4, <2>3, <3>2 DEF Waiting, Plain
      <3>4. \A id \in Waiting' : id \in 1 .. Len(issued') /\ issued'[id].kind = "regular" /\ got'[id] = <<>>
        BY <1>3, <1>8, <2>1, <3>3
      <3>5. \A i, j \in 1 .. Len(invalid') : i < j => invalid'[i] < invalid'[j]
        <4> SUFFICES ASSUME NEW i \in 1 .. Len(invalid'), NEW j \in 1 .. Len(invalid'), i < j
                     PROVE  invalid'[i] < invalid'[j]
          OBVIOUS
        <4>1. i \in 1 .. Len(invalid)
          BY <1>3, <3>2
        <4>2. CASE j = Len(invalid) + 1
          BY <1>4, <1>8, <2>1, <3>2, <4>1, <4>2
        <4>3. CASE j \in 1 .. Len(invalid)
          BY <1>2, <3>2, <4>1, <4>3 DEF Lists
        <4> QED
          BY <3>2, <4>2, <4>3
      <3>6. \A i \in 1 .. Len(replies), j \in 1 .. Len(invalid') : replies[i] < invalid'[j]
        <4> SUFFICES ASSUME NEW i \in 1 .. Len(replies), NEW j \in 1 .. Len(invalid')
                     PROVE  replies[i] < invalid'[j]
          OBVIOUS
        <4>1. CASE j = Len(invalid) + 1
          BY <1>4, <1>8, <2>1, <3>2, <4>1
        <4>2. CASE j \in 1 .. Len(invalid)
          BY <1>2, <3>2, <4>2 DEF Lists
        <4> QED
          BY <3>2, <4>1, <4>2
      <3> QED
        BY <1>2, <2>3, <3>4, <3>5, <3>6 DEF Lists, Issued, Regular
    <2> QED
      BY <1>10, <2>2, <2>3 DEF IssuesRegular
  <1> QED
    BY <1>1, <1>5, <1>6, <1>7, <1>9, <1>10, WaitersEffect

-----------------------------------------------------------------------------
(* Commands are answered, or the context is being closed.                    *)

LEMMA PhaseStep ==
  ASSUME IInv, [DisciplinedNext]_vars
  PROVE  \/ Live /\ pc' \in {"idle", "process", "callback"} /\ err' = err
         \/ /\ Live /\ pc' = "free" /\ UNCHANGED <<issued, got, replies>>
            /\ "disconnecting" \in flags' \/ "freeing" \in flags'
            /\ err' = TRUE \/ "freeing" \in flags' \/ replies = <<>>
         \/ /\ ~Live /\ pc' \notin {"idle", "process", "callback"}
            /\ err' = err /\ issued' = issued
PROOF
  <1> USE DEF ctx, loop, server, history, app
  <1>1. CASE \/ HandleConnectFails \/ HandleWriteFails \/ HandleReadEof
            \/ ProcessRejected \/ ProcessFails
    BY IInv, <1>1, Breaks DEF Live, NoAssertion, IInv, Types, FlagType, Has
  <1>2. CASE Environment
    BY IInv, <1>2, Outside DEF Live, NoAssertion, IInv, Types, FlagType, Has
  <1>3. CASE HandleWrite
    BY IInv, <1>3 DEF HandleWrite, Live, NoAssertion, IInv, Types, FlagType, Has
  <1>4. CASE HandleRead
    BY IInv, <1>4 DEF HandleRead, Live, NoAssertion, IInv, Types, FlagType, Has
  <1>5. CASE ProcessPending
    <2>1. pc = "process" /\ err' = err /\ pc' \in {"process", "callback"}
      BY <1>5, IInv, PendingEffect DEF Delivers
    <2> QED
      BY <2>1 DEF Live
  <1>6. CASE ProcessMessage
    <2>1. pc = "process" /\ err' = err /\ pc' \in {"process", "callback"}
      BY <1>6, MessageEffect DEF Hears
    <2> QED
      BY <2>1 DEF Live
  <1>7. CASE ProcessOther
    <2>1. pc = "process" /\ err' = err /\ pc' \in {"process", "callback"}
      BY <1>7, IInv, OtherEffect, OtherOwn DEF Delivers
    <2> QED
      BY <2>1 DEF Live
  <1>8. CASE ProcessEnd
    BY IInv, <1>8, EndEffect DEF Live, NoAssertion, IInv, Types, FlagType, Has
  <1>9. CASE FreeReplies
    BY IInv, <1>9, FreeRepliesEffect DEF Frees, Live, NoAssertion, IInv, Types,
       FlagType, Has
  <1>10. CASE FreeInvalid
    BY IInv, <1>10, FreeInvalidEffect DEF Frees, Live, NoAssertion, IInv, Types,
       FlagType, Has
  <1>11. CASE FreeSubscriptions
    BY IInv, <1>11 DEF FreeSubscriptions, Run, Live, NoAssertion, IInv, Types,
       FlagType, Has
  <1>12. CASE FreeContext
    BY IInv, <1>12 DEF FreeContext, Live, NoAssertion, IInv, Types, FlagType,
       Has
  <1>13. CASE CallbackReturns
    BY IInv, <1>13 DEF CallbackReturns, Live, NoAssertion, IInv, Types,
       FlagType, Has
  <1>14. CASE FreeCallbackReturns
    BY IInv, <1>14 DEF FreeCallbackReturns, Live, NoAssertion, IInv, Types,
       FlagType, Has
  <1>15. ASSUME NEW kind \in Kinds, NEW S \in SUBSET Names, DisciplinedCommand(kind, S)
         PROVE  \/ Live /\ pc' \in {"idle", "process", "callback"} /\ err' = err
                \/ /\ Live /\ pc' = "free" /\ UNCHANGED <<issued, got, replies>>
                   /\ "disconnecting" \in flags' \/ "freeing" \in flags'
                   /\ err' = TRUE \/ "freeing" \in flags' \/ replies = <<>>
                \/ /\ ~Live /\ pc' \notin {"idle", "process", "callback"}
                   /\ err' = err /\ issued' = issued
    <2>1. Live /\ pc \in {"idle", "callback"} /\ UNCHANGED <<pc, err>>
      BY <1>15, IInv, CommandLive, CommandEffect
    <2> QED
      BY <2>1
  <1>16. CASE AsyncDisconnect
    BY IInv, <1>16 DEF AsyncDisconnect, UserRuns, Live, NoAssertion, IInv,
       Types, FlagType, Has
  <1>17. CASE AsyncFree
    BY IInv, <1>17 DEF AsyncFree, UserRuns, Live, NoAssertion, IInv, Types,
       FlagType, Has
  <1>18. CASE UNCHANGED vars
    BY IInv, <1>18 DEF vars, Live, NoAssertion, IInv, Types, FlagType, Has
  <1> QED
    BY <1>1, <1>2, <1>3, <1>4, <1>5, <1>6, <1>7, <1>8, <1>9, <1>10, <1>11, <1>12,
       <1>13, <1>14, <1>15, <1>16, <1>17, <1>18 DEF DisciplinedNext, Handlers, Process, Freeing,
       Returns, DisciplinedUser

\* A reply once given stays the first.
LEMMA FirstReplyStays ==
  ASSUME IInv, [DisciplinedNext]_vars, NEW id \in 1 .. Len(issued), Regular(id)
  PROVE  \/ got'[id] = got[id]
         \/ /\ got[id] = <<>> /\ got'[id] # <<>>
            /\ pc' = "callback" => got'[id][1] # NullReply
PROOF
  <1>1. HistoryType
    BY DEF IInv, Types
  <1>2. CASE Issues
    BY <1>1, <1>2, IssuesAfter
  <1>3. ASSUME NEW j, NEW r, Gives(j, r)
        PROVE  \/ got'[id] = got[id]
               \/ /\ got[id] = <<>> /\ got'[id] # <<>>
                  /\ pc' = "callback" => got'[id][1] # NullReply
    <2>1. CASE j # id
      BY <1>1, <1>3, <2>1, GotAfter
    <2>2. CASE j = id
      <3>1. got[id] = <<>> /\ got'[id] = Append(got[id], r) /\ (pc' = "callback" => r # NullReply)
        BY <1>1, <1>3, <2>2, GotAfter DEF Gives
      <3>2. got'[id] = <<r>>
        BY <3>1
      <3> QED
        BY <3>1, <3>2
    <2> QED
      BY <2>1, <2>2
  <1> QED
    BY <1>2, <1>3, GotStep

\* A plain command waits until it has its reply.
LEMMA PlainWaits ==
  ASSUME IInv, [DisciplinedNext]_vars, ~Has("monitoring"), NEW id \in Plain, "monitoring" \notin flags'
  PROVE  id \in Plain' \/ id \in Silent \/ got'[id] # <<>>
PROOF
  <1>1. ListType /\ HistoryType
    BY DEF IInv, Types
  <1>2. replies \in Seq(Ids \cup {NoCb}) /\ Len(replies) \in Nat
    BY <1>1, LenProperties DEF ListType
  <1>3. PICK i \in 1 .. Len(replies) : id = replies[i]
    BY DEF Plain
  <1>4. CASE WaitersStay \/ IssuesOther
    BY <1>4 DEF WaitersStay, IssuesOther, Plain
  <1>5. CASE AnsweredInvalid
    BY <1>2, <1>3, <1>5 DEF AnsweredInvalid
  <1>6. CASE IssuesRegular
    <2>1. CASE replies' = replies
      BY <2>1 DEF Plain
    <2>2. CASE replies' = Append(replies, Len(issued) + 1)
      <3>1. Len(issued) + 1 \in Ids \cup {NoCb}
        BY <1>6 DEF IssuesRegular, Issues
      <3>2. replies'[i] = replies[i] /\ i \in 1 .. Len(replies')
        BY <1>2, <2>2, <3>1, ElementsOfAppend
      <3> QED
        BY <1>3, <3>2 DEF Plain
    <2> QED
      BY <1>6, <2>1, <2>2 DEF IssuesRegular
  <1>7. CASE Answered
    <2>1. /\ Head(replies) = replies[1]
          /\ \A j \in 1 .. Len(replies) : j = 1 \/ (j - 1 \in 1 .. Len(replies') /\ replies'[j - 1] = replies[j])
      BY <1>2, <1>7, ElementsOfTail DEF Answered
    <2>2. CASE i = 1
      <3> SUFFICES ASSUME id \notin Silent
                   PROVE  got'[id] # <<>>
        OBVIOUS
      <3>1. PICK r : Gives(id, r)
        BY <1>3, <1>7, <2>1, <2>2 DEF Answered, Settled
      <3>2. id \in 1 .. Len(issued) /\ r \in Replies
        BY <3>1 DEF Gives, Issued
      <3>3. got'[id] = Append(got[id], r) /\ got[id] \in Seq(Replies)
        BY <1>1, <3>1, <3>2, GotAfter
      <3> QED
        BY <3>2, <3>3, AppendProperties
    <2>3. CASE i # 1
      BY <1>3, <2>1, <2>3 DEF Plain
    <2> QED
      BY <2>2, <2>3
  <1> QED
    BY <1>4, <1>5, <1>6, <1>7, WaitersEffect

LEMMA AnswersLive ==
  ASSUME IInv, [DisciplinedNext]_vars, Live, pc' \in {"idle", "process", "callback"},
         NEW id \in 1 .. Len(issued'), issued'[id].kind = "regular"
  PROVE  /\ got'[id] # <<>> => got'[id][1] # NullReply
         /\ issued'[id].plain /\ id \notin Silent => id \in Plain' \/ got'[id] # <<>>
PROOF
  <1>1. ~Has("monitoring") /\ "monitoring" \notin flags'
    BY AloneStep, FlagsStay DEF Alone, Has
  <1>2. CASE id \in 1 .. Len(issued)
    <2>1. issued'[id] = issued[id] /\ Regular(id)
      BY <1>2, IssuedStays DEF Regular
    <2>2. /\ got[id] # <<>> => got[id][1] # NullReply
          /\ issued[id].plain /\ id \notin Silent => id \in Plain \/ got[id] # <<>>
      BY <1>2, <2>1 DEF IInv, Answers
    <2>3. got'[id] # <<>> => got'[id][1] # NullReply
      <3>1. pc' = "callback" \/ ~(\E j, r : Gives(j, r))
        BY DEF Gives, Live
      <3>2. CASE pc' = "callback"
        BY <1>2, <2>1, <2>2, <3>2, FirstReplyStays
      <3>3. CASE ~(\E j, r : Gives(j, r))
        <4>1. got'[id] = got[id]
          BY <1>2, <3>3, GotStep, IssuesAfter DEF IInv, Types
        <4> QED
          BY <2>2, <4>1
      <3> QED
        BY <3>1, <3>2, <3>3
    <2>4. ASSUME issued'[id].plain, id \notin Silent
          PROVE  id \in Plain' \/ got'[id] # <<>>
      <3>1. id \in Plain \/ got[id] # <<>>
        BY <2>1, <2>2, <2>4
      <3>2. got[id] # <<>> => got'[id] # <<>>
        BY <1>2, <2>1, FirstReplyStays
      <3> QED
        BY <1>1, <3>1, <3>2, <2>4, PlainWaits
    <2> QED
      BY <2>3, <2>4
  <1>3. CASE id \notin 1 .. Len(issued)
    <2>1. Issues /\ id = Len(issued) + 1 /\ Len(issued) \in Nat
      BY <1>3, IssuedStays
    <2>2. got'[id] = <<>>
      BY <2>1, IssuesAfter DEF IInv, Types
    <2>3. IssuesRegular
      <3>1. issued' # issued
        BY <1>3
      <3> QED
        BY <1>1, <2>1, <3>1, WaitersEffect
           DEF WaitersStay, Answered, AnsweredInvalid, IssuesOther
    <2>4. ASSUME issued'[id].plain
          PROVE  id \in Plain'
      <3>1. ~Has("subscribed") /\ replies' = Append(replies, Len(issued) + 1)
        BY <2>1, <2>3, <2>4 DEF IssuesRegular
      <3>2. Len(issued) + 1 \in Ids \cup {NoCb} /\ replies \in Seq(Ids \cup {NoCb})
        BY <2>1 DEF Issues, IInv, Types, ListType
      <3>3. /\ Len(replies') = Len(replies) + 1 /\ replies'[Len(replies) + 1] = id
            /\ Len(replies) \in Nat
        BY <2>1, <3>1, <3>2, ElementsOfAppend
      <3>4. Len(replies) + 1 \in 1 .. Len(replies')
        BY <3>3
      <3> QED
        BY <3>3, <3>4 DEF Plain
    <2> QED
      BY <2>2, <2>4
  <1> QED
    BY <1>2, <1>3

LEMMA AnswersStep ==
  ASSUME IInv, [DisciplinedNext]_vars
  PROVE  Answers'
PROOF
  <1>1. CASE Live /\ pc' \in {"idle", "process", "callback"} /\ err' = err
    <2>1. ~err'
      BY <1>1 DEF IInv, Answers
    <2> QED
      BY <1>1, <2>1, AnswersLive DEF Answers, Live, Regular
  <1>2. CASE /\ Live /\ pc' = "free" /\ UNCHANGED <<issued, got, replies>>
             /\ "disconnecting" \in flags' \/ "freeing" \in flags'
             /\ err' = TRUE \/ "freeing" \in flags' \/ replies = <<>>
    <2>1. ASSUME ~err', "freeing" \notin flags'
          PROVE  /\ replies' = <<>>
                 /\ \A id \in 1 .. Len(issued') :
                      issued'[id].kind = "regular" /\ id \notin Silent /\ issued'[id].plain =>
                        got'[id] # <<>> /\ got'[id][1] # NullReply
      <3>1. replies = <<>> /\ Plain = {}
        BY <1>2, <2>1 DEF Plain
      <3> QED
        BY <1>2, <3>1 DEF IInv, Answers, Heard, Regular
    <2> QED
      BY <1>2, <2>1 DEF Answers, Live, Closing, Has, Heard, Regular
  <1>3. CASE /\ ~Live /\ pc' \notin {"idle", "process", "callback"}
             /\ err' = err /\ issued' = issued
    <2>1. "disconnecting" \in flags' \/ "freeing" \in flags'
      BY <1>3, FlagsStay DEF IInv, Answers, Closing, Has
    <2>2. ASSUME ~err', "freeing" \notin flags'
          PROVE  /\ replies' = <<>> \/ "monitoring" \in flags'
                 /\ \A id \in 1 .. Len(issued') :
                      issued'[id].kind = "regular" /\ id \notin Silent /\ issued'[id].plain =>
                        got'[id] # <<>> /\ got'[id][1] # NullReply
      <3>1. /\ replies = <<>> \/ Has("monitoring")
            /\ \A id \in 1 .. Len(issued) : Heard(id) /\ issued[id].plain =>
                 got[id] # <<>> /\ got[id][1] # NullReply
        BY <1>3, <2>2, FlagsStay DEF IInv, Answers, Has
      <3>2. \A id \in 1 .. Len(issued) : Heard(id) /\ issued[id].plain => got'[id] = got[id]
        BY <3>1, FirstReplyStays DEF Heard
      <3>3. ~Issues
        BY <1>3, IssuesAfter, IssuedStays DEF IInv, Types
      <3>4. replies' = <<>> \/ "monitoring" \in flags'
        BY <3>1, <3>3, ListsChange, FlagsStay DEF Has
      <3> QED
        BY <1>3, <3>1, <3>2, <3>4 DEF Heard, Regular
    <2> QED
      BY <1>3, <2>1, <2>2 DEF Answers, Live, Closing, Has, Heard, Regular
  <1> QED
    BY <1>1, <1>2, <1>3, PhaseStep

-----------------------------------------------------------------------------
(* The two streams, as a step changes them.                                  *)

\* What is first in a stream is taken off.
IncomingShift ==
  /\ Len(Incoming) \in Nat \ {0} /\ Len(Incoming') = Len(Incoming) - 1
  /\ \A i \in 1 .. Len(Incoming') : Incoming'[i] = Incoming[i + 1] /\ i + 1 \in 1 .. Len(Incoming)
  /\ \A j \in 1 .. Len(Incoming) :
       j = 1 \/ (j - 1 \in 1 .. Len(Incoming') /\ Incoming'[j - 1] = Incoming[j])
OutgoingShift ==
  /\ Len(Outgoing) \in Nat \ {0} /\ Len(Outgoing') = Len(Outgoing) - 1
  /\ \A i \in 1 .. Len(Outgoing') : Outgoing'[i] = Outgoing[i + 1] /\ i + 1 \in 1 .. Len(Outgoing)
  /\ \A j \in 1 .. Len(Outgoing) :
       j = 1 \/ (j - 1 \in 1 .. Len(Outgoing') /\ Outgoing'[j - 1] = Outgoing[j])

\* Something is added at the end.
IncomingGrows(msgs) ==
  /\ Len(Incoming) \in Nat /\ Len(msgs) \in Nat /\ Len(Incoming') = Len(Incoming) + Len(msgs)
  /\ \A i \in 1 .. Len(Incoming) : Incoming'[i] = Incoming[i] /\ i \in 1 .. Len(Incoming')
  /\ \A k \in 1 .. Len(msgs) :
       Incoming'[Len(Incoming) + k] = msgs[k] /\ Len(Incoming) + k \in 1 .. Len(Incoming')
  /\ \A i \in 1 .. Len(Incoming') :
       i \in 1 .. Len(Incoming) \/ \E k \in 1 .. Len(msgs) : i = Len(Incoming) + k
IncomingAppends(r) ==
  /\ Len(Incoming) \in Nat /\ Len(Incoming') = Len(Incoming) + 1
  /\ \A i \in 1 .. Len(Incoming) : Incoming'[i] = Incoming[i] /\ i \in 1 .. Len(Incoming')
  /\ Incoming'[Len(Incoming) + 1] = r /\ Len(Incoming) + 1 \in 1 .. Len(Incoming')
  /\ \A i \in 1 .. Len(Incoming') : i \in 1 .. Len(Incoming) \/ i = Len(Incoming) + 1
OutgoingAppends(c) ==
  /\ Len(Outgoing) \in Nat /\ Len(Outgoing') = Len(Outgoing) + 1
  /\ \A i \in 1 .. Len(Outgoing) : Outgoing'[i] = Outgoing[i] /\ i \in 1 .. Len(Outgoing')
  /\ Outgoing'[Len(Outgoing) + 1] = c /\ Len(Outgoing) + 1 \in 1 .. Len(Outgoing')
  /\ \A i \in 1 .. Len(Outgoing') : i \in 1 .. Len(Outgoing) \/ i = Len(Outgoing) + 1

LEMMA ShiftsIncoming ==
  ASSUME QueueType, rbuf # <<>>, rbuf' = Tail(rbuf), wire' = wire
  PROVE  IncomingShift /\ Head(rbuf) = Incoming[1] /\ 1 \in 1 .. Len(Incoming)
PROOF
  <1>1. Incoming # <<>> /\ Incoming' = Tail(Incoming) /\ Head(rbuf) = Incoming[1]
    BY IncomingTail
  <1>2. Incoming \in Seq(Replies)
    BY StreamType
  <1> QED
    BY <1>1, <1>2, ElementsOfTail DEF IncomingShift

LEMMA ShiftsOutgoing ==
  ASSUME QueueType, toServer # <<>>, toServer' = Tail(toServer), obuf' = obuf
  PROVE  OutgoingShift /\ Head(toServer) = Outgoing[1] /\ 1 \in 1 .. Len(Outgoing) /\ Outgoing # <<>>
PROOF
  <1>1. Outgoing # <<>> /\ Outgoing' = Tail(Outgoing) /\ Head(toServer) = Outgoing[1]
    BY OutgoingTail
  <1>2. Outgoing \in Seq(Commands)
    BY StreamType
  <1> QED
    BY <1>1, <1>2, ElementsOfTail DEF OutgoingShift

LEMMA AppendsIncoming ==
  ASSUME QueueType, NEW r \in Replies, wire' = Append(wire, r), rbuf' = rbuf
  PROVE  IncomingAppends(r)
PROOF
  <1>1. Incoming' = Append(Incoming, r) /\ Incoming \in Seq(Replies)
    BY IncomingAppend, StreamType
  <1>2. /\ Len(Incoming') = Len(Incoming) + 1 /\ Len(Incoming) \in Nat
        /\ Incoming'[Len(Incoming) + 1] = r
        /\ \A i \in 1 .. Len(Incoming) : Incoming'[i] = Incoming[i] /\ i \in 1 .. Len(Incoming')
        /\ \A i \in 1 .. Len(Incoming') : i \in 1 .. Len(Incoming) \/ i = Len(Incoming) + 1
    BY <1>1, ElementsOfAppend
  <1> QED
    BY <1>2 DEF IncomingAppends

LEMMA AppendsOutgoing ==
  ASSUME QueueType, NEW c \in Commands, obuf' = Append(obuf, c), toServer' = toServer
  PROVE  OutgoingAppends(c)
PROOF
  <1>1. Outgoing' = Append(Outgoing, c) /\ Outgoing \in Seq(Commands)
    BY OutgoingAppend, StreamType
  <1>2. /\ Len(Outgoing') = Len(Outgoing) + 1 /\ Len(Outgoing) \in Nat
        /\ Outgoing'[Len(Outgoing) + 1] = c
        /\ \A i \in 1 .. Len(Outgoing) : Outgoing'[i] = Outgoing[i] /\ i \in 1 .. Len(Outgoing')
        /\ \A i \in 1 .. Len(Outgoing') : i \in 1 .. Len(Outgoing) \/ i = Len(Outgoing) + 1
    BY <1>1, ElementsOfAppend
  <1> QED
    BY <1>2 DEF OutgoingAppends

LEMMA GrowsIncoming ==
  ASSUME QueueType, NEW msgs \in Seq(Replies), wire' = wire \o msgs, rbuf' = rbuf
  PROVE  IncomingGrows(msgs)
PROOF
  <1>1. Incoming' = Incoming \o msgs /\ Incoming \in Seq(Replies)
    <2>1. rbuf \in Seq(Replies) /\ wire \in Seq(Replies)
      BY DEF QueueType
    <2>2. (rbuf \o wire) \o msgs = rbuf \o (wire \o msgs)
      BY <2>1, ConcatAssociative, SMTT(30)
    <2> QED
      BY <2>2, StreamType DEF Incoming
  <1>2. /\ Len(Incoming) \in Nat /\ Len(msgs) \in Nat /\ Len(Incoming') = Len(Incoming) + Len(msgs)
        /\ \A i \in 1 .. Len(Incoming) + Len(msgs) : Incoming'[i] =
             IF i <= Len(Incoming) THEN Incoming[i] ELSE msgs[i - Len(Incoming)]
    BY <1>1, ConcatProperties, LenProperties
  <1>3. \A i \in 1 .. Len(Incoming) : Incoming'[i] = Incoming[i] /\ i \in 1 .. Len(Incoming')
    BY <1>2
  <1>4. ASSUME NEW k \in 1 .. Len(msgs)
        PROVE  Incoming'[Len(Incoming) + k] = msgs[k] /\ Len(Incoming) + k \in 1 .. Len(Incoming')
    <2>1. /\ Len(Incoming) + k \in 1 .. Len(Incoming) + Len(msgs)
          /\ ~(Len(Incoming) + k <= Len(Incoming)) /\ (Len(Incoming) + k) - Len(Incoming) = k
      BY <1>2
    <2> QED
      BY <1>2, <2>1
  <1>5. ASSUME NEW i \in 1 .. Len(Incoming'), i \notin 1 .. Len(Incoming)
        PROVE  \E k \in 1 .. Len(msgs) : i = Len(Incoming) + k
    <2>1. i - Len(Incoming) \in 1 .. Len(msgs) /\ i = Len(Incoming) + (i - Len(Incoming))
      BY <1>2, <1>5
    <2> QED
      BY <2>1
  <1> QED
    BY <1>2, <1>3, <1>4, <1>5 DEF IncomingGrows

LEMMA Numbers ==
  ASSUME IInv, ~Has("monitoring")
  PROVE  /\ \A id \in Waiting : id \in Nat \ {0} /\ id \in 1 .. Len(issued)
         /\ Plain \subseteq Waiting
         /\ \A i \in 1 .. Len(Incoming) : Incoming[i] \in Replies /\ Incoming[i].to \in Nat
         /\ \A i \in 1 .. Len(Outgoing) : Outgoing[i] \in Commands /\ Outgoing[i].id \in Nat \ {0}
         /\ Len(Incoming) \in Nat /\ Len(Outgoing) \in Nat /\ Len(issued) \in Nat
         /\ QueueType /\ ListType /\ NetType
         /\ Outgoing = <<>> <=> Len(Outgoing) = 0
PROOF
  <1>1. Types /\ Lists
    BY DEF IInv
  <1>2. \A id \in Waiting : id \in Nat \ {0} /\ id \in 1 .. Len(issued)
    BY <1>1, FirstWaiting DEF Types, Lists, Issued
  <1>3. Incoming \in Seq(Replies) /\ Outgoing \in Seq(Commands)
    BY <1>1, StreamType DEF Types
  <1>4. \A r \in Replies : r.to \in Nat
    BY AsyncAssumption DEF Replies, Ids
  <1>5. \A c \in Commands : c.id \in Nat \ {0}
    BY AsyncAssumption DEF Commands, Ids
  <1>6. /\ \A i \in 1 .. Len(Incoming) : Incoming[i] \in Replies
        /\ \A i \in 1 .. Len(Outgoing) : Outgoing[i] \in Commands
        /\ Len(Incoming) \in Nat /\ Len(Outgoing) \in Nat
        /\ Outgoing = <<>> <=> Len(Outgoing) = 0
    BY <1>3, ElementOfSeq, LenProperties, EmptySeq
  <1>7. Plain \subseteq Waiting /\ Len(issued) \in Nat
    BY <1>1, LenProperties DEF Waiting, Types, HistoryType
  <1> QED
    BY <1>1, <1>2, <1>4, <1>5, <1>6, <1>7 DEF Types

-----------------------------------------------------------------------------
(* What is under way, as each kind of step leaves it.                        *)

\* The steps that move replies and commands, but not in the streams.
LEMMA PipelineFrame ==
  ASSUME Pipeline, Incoming' = Incoming, UNCHANGED <<replies, invalid, subs, served, issued>>,
         "subscribed" \in flags' <=> Has("subscribed"),
         net = "closed" => net' = "closed", net' = "pending" => net = "pending",
         net' # "closed" => Outgoing' = Outgoing
  PROVE  Pipeline'
PROOF
  <1>1. Plain' = Plain /\ Waiting' = Waiting
    BY DEF Plain, Waiting
  <1> QED
    BY <1>1 DEF Pipeline, Contents, Ordered, Flight, MessagesLater, Subscriptions, Unsubscribes,
                Issued, Subscribed, Has

\* The reply that is first is given to the command it answers.
LEMMA PipelineReply ==
  ASSUME IInv, ~Has("monitoring"), Pipeline, IncomingShift, 1 \in 1 .. Len(Incoming),
         UNCHANGED <<subs, served, issued, net>>, Outgoing' = Outgoing,
         "subscribed" \in flags' <=> Has("subscribed"),
         Incoming[1].kind \in {"reply", "error"}, Incoming[1].to \in Waiting,
         \A id \in Plain' : id \in Plain /\ id # Incoming[1].to,
         \A id : id \in Waiting' <=> id \in Waiting /\ id # Incoming[1].to,
         invalid' # <<>> => invalid # <<>>
  PROVE  Pipeline'
PROOF
  <1> DEFINE h == Incoming[1].to
  <1>1. /\ \A id \in Waiting : id \in Nat \ {0}
        /\ \A i \in 1 .. Len(Incoming) : Incoming[i].to \in Nat
        /\ Len(Incoming) \in Nat /\ h \in Nat \ {0}
        /\ \A i \in 1 .. Len(Outgoing) : Outgoing[i].id \in Nat \ {0}
    BY Numbers
  <1>2. \A r : r.kind \in {"reply", "error"} => ~Push(r) /\ ~Unsub(r)
    BY DEF Push, Unsub, Pushes
  <1>3. \A i \in 1 .. Len(Incoming') : Incoming'[i].to # 0 => h < Incoming'[i].to
    <2> SUFFICES ASSUME NEW i \in 1 .. Len(Incoming'), Incoming'[i].to # 0
                 PROVE  h < Incoming'[i].to
      OBVIOUS
    <2>1. Incoming'[i] = Incoming[i + 1] /\ i + 1 \in 1 .. Len(Incoming) /\ 1 \in 1 .. (i + 1) - 1
      BY <1>1 DEF IncomingShift
    <2> QED
      BY <2>1 DEF Pipeline, Ordered
  <1>4. \A id \in Waiting' : id \in Waiting /\ id # h
    OBVIOUS
  <1> HIDE DEF h
  <1>5. Contents'
    <2>1. ASSUME NEW i \in 1 .. Len(Incoming')
          PROVE  \/ /\ Push(Incoming'[i]) /\ Incoming'[i].to = 0
                    /\ \E n \in Names : Incoming'[i].names = {n} /\ subs'[n] # NoCb
                 \/ Incoming'[i].kind \in {"reply", "error"} /\ Incoming'[i].to \in Waiting'
      <3>1. Incoming'[i] = Incoming[i + 1] /\ i + 1 \in 1 .. Len(Incoming) /\ Len(Incoming) # 1
        BY <1>1 DEF IncomingShift
      <3>2. CASE Push(Incoming[i + 1]) /\ Incoming[i + 1].to = 0
                 /\ \E n \in Names : Incoming[i + 1].names = {n} /\ Subscribed(n)
        BY <3>1, <3>2 DEF Subscribed
      <3>3. CASE Incoming[i + 1].kind \in {"reply", "error"} /\ Incoming[i + 1].to \in Waiting
        <4>1. Incoming'[i].to # 0 /\ h < Incoming'[i].to
          BY <1>1, <1>3, <3>1, <3>3
        <4> QED
          BY <1>1, <3>1, <3>3, <4>1 DEF h
      <3> QED
        BY <3>1, <3>2, <3>3 DEF Pipeline, Contents
    <2>2. net' = "pending" => Incoming' = <<>> /\ served' = {}
      BY <1>1 DEF Pipeline, Contents
    <2> QED
      BY <2>1, <2>2 DEF Contents, Push, Subscribed
  <1>6. Ordered'
    <2> SUFFICES ASSUME NEW i \in 1 .. Len(Incoming'), Incoming'[i].to # 0
                 PROVE  /\ \A j \in 1 .. i - 1 : Incoming'[j].to < Incoming'[i].to
                        /\ \A id \in Waiting' : id <= Incoming'[i].to =>
                             \E j \in 1 .. i : Incoming'[j].to = id
      BY DEF Ordered
    <2>1. Incoming'[i] = Incoming[i + 1] /\ i + 1 \in 1 .. Len(Incoming) /\ i \in Nat /\ i >= 1
      BY <1>1 DEF IncomingShift
    <2>2. /\ \A j \in 1 .. (i + 1) - 1 : Incoming[j].to < Incoming[i + 1].to
          /\ \A id \in Waiting : id <= Incoming[i + 1].to => \E j \in 1 .. i + 1 : Incoming[j].to = id
      BY <2>1 DEF Pipeline, Ordered
    <2>3. \A j \in 1 .. i - 1 : Incoming'[j] = Incoming[j + 1] /\ j + 1 \in 1 .. (i + 1) - 1
      BY <1>1, <2>1 DEF IncomingShift
    <2>4. ASSUME NEW id \in Waiting', id <= Incoming'[i].to
          PROVE  \E j \in 1 .. i : Incoming'[j].to = id
      <3>1. PICK j \in 1 .. i + 1 : Incoming[j].to = id
        BY <1>4, <2>1, <2>2, <2>4
      <3>2. j # 1 /\ j \in 1 .. Len(Incoming)
        BY <1>4, <2>1, <3>1 DEF h
      <3>3. j - 1 \in 1 .. i /\ Incoming'[j - 1] = Incoming[j]
        BY <2>1, <3>1, <3>2 DEF IncomingShift
      <3> QED
        BY <3>1, <3>3
    <2> QED
      BY <2>1, <2>2, <2>3, <2>4
  <1>7. Flight'
    <2> SUFFICES ASSUME net # "closed"
                 PROVE  /\ \A i \in 1 .. Len(Outgoing) :
                             /\ Outgoing[i].id \in 1 .. Len(issued) /\ Outgoing[i].kind # "monitor"
                             /\ Outgoing[i].kind = "regular" => Outgoing[i].id \in Waiting'
                             /\ \A j \in 1 .. i - 1 : Outgoing[j].id < Outgoing[i].id
                             /\ \A j \in 1 .. Len(Incoming') : Incoming'[j].to < Outgoing[i].id
                        /\ \A id \in Waiting' :
                             \/ \E i \in 1 .. Len(Incoming') : Incoming'[i].to = id
                             \/ \E i \in 1 .. Len(Outgoing) :
                                  Outgoing[i].kind = "regular" /\ Outgoing[i].id = id
      BY DEF Flight, Issued
    <2>1. ASSUME NEW i \in 1 .. Len(Outgoing)
          PROVE  /\ Outgoing[i].id \in 1 .. Len(issued) /\ Outgoing[i].kind # "monitor"
                 /\ Outgoing[i].kind = "regular" => Outgoing[i].id \in Waiting'
                 /\ \A j \in 1 .. i - 1 : Outgoing[j].id < Outgoing[i].id
                 /\ \A j \in 1 .. Len(Incoming') : Incoming'[j].to < Outgoing[i].id
      <3>1. /\ Outgoing[i].id \in 1 .. Len(issued) /\ Outgoing[i].kind # "monitor"
            /\ Outgoing[i].kind = "regular" => Outgoing[i].id \in Waiting
            /\ \A j \in 1 .. i - 1 : Outgoing[j].id < Outgoing[i].id
            /\ \A j \in 1 .. Len(Incoming) : Incoming[j].to < Outgoing[i].id
        BY DEF Pipeline, Flight, Issued
      <3>2. Outgoing[i].id # h
        BY <1>1, <3>1 DEF h
      <3>3. \A j \in 1 .. Len(Incoming') : Incoming'[j].to < Outgoing[i].id
        BY <3>1 DEF IncomingShift
      <3> QED
        BY <3>1, <3>2, <3>3 DEF h
    <2>2. ASSUME NEW id \in Waiting'
          PROVE  \/ \E i \in 1 .. Len(Incoming') : Incoming'[i].to = id
                 \/ \E i \in 1 .. Len(Outgoing) :
                      Outgoing[i].kind = "regular" /\ Outgoing[i].id = id
      <3>1. \/ \E i \in 1 .. Len(Incoming) : Incoming[i].to = id
            \/ \E i \in 1 .. Len(Outgoing) : Outgoing[i].kind = "regular" /\ Outgoing[i].id = id
        BY <1>4 DEF Pipeline, Flight
      <3>2. ASSUME NEW i \in 1 .. Len(Incoming), Incoming[i].to = id
            PROVE  i - 1 \in 1 .. Len(Incoming') /\ Incoming'[i - 1].to = id
        BY <1>4, <3>2 DEF h, IncomingShift
      <3> QED
        BY <3>1, <3>2
    <2> QED
      BY <2>1, <2>2
  \* What comes before an index of the stream, but for the first, still does.
  <1>8. ASSUME NEW i \in 1 .. Len(Incoming'), NEW id \in Waiting',
               \E j \in 1 .. (i + 1) - 1 : Incoming[j].to = id
        PROVE  \E j \in 1 .. i - 1 : Incoming'[j].to = id
    <2>1. PICK j \in 1 .. (i + 1) - 1 : Incoming[j].to = id
      BY <1>8
    <2>2. i + 1 \in 1 .. Len(Incoming) /\ i \in Nat
      BY <1>1 DEF IncomingShift
    <2>3. j # 1 /\ j \in 1 .. Len(Incoming)
      BY <1>4, <2>1, <2>2 DEF h
    <2>4. j - 1 \in 1 .. i - 1 /\ Incoming'[j - 1] = Incoming[j]
      BY <2>1, <2>2, <2>3 DEF IncomingShift
    <2> QED
      BY <2>1, <2>4
  <1>9. MessagesLater'
    <2>1. ASSUME NEW i \in 1 .. Len(Incoming'), Push(Incoming'[i]), NEW id \in Plain'
          PROVE  \E j \in 1 .. i - 1 : Incoming'[j].to = id
      <3>1. Incoming'[i] = Incoming[i + 1] /\ i + 1 \in 1 .. Len(Incoming)
        BY DEF IncomingShift
      <3>2. id \in Plain /\ id \in Waiting'
        BY Numbers
      <3>3. \E j \in 1 .. (i + 1) - 1 : Incoming[j].to = id
        BY <2>1, <3>1, <3>2 DEF Pipeline, MessagesLater
      <3> QED
        BY <1>8, <3>2, <3>3
    <2>2. ASSUME net # "closed"
          PROVE  /\ \A i \in 1 .. Len(Outgoing) :
                      Outgoing[i].kind = "subscribe" => \A id \in Plain' : id < Outgoing[i].id
                 /\ served # {} =>
                      \A id \in Plain' : \E j \in 1 .. Len(Incoming') : Incoming'[j].to = id
      <3>1. /\ \A i \in 1 .. Len(Outgoing) :
                 Outgoing[i].kind = "subscribe" => \A id \in Plain : id < Outgoing[i].id
            /\ served # {} => \A id \in Plain : \E j \in 1 .. Len(Incoming) : Incoming[j].to = id
        BY <2>2 DEF Pipeline, MessagesLater
      <3>2. ASSUME NEW id \in Plain', NEW j \in 1 .. Len(Incoming), Incoming[j].to = id
            PROVE  j - 1 \in 1 .. Len(Incoming') /\ Incoming'[j - 1].to = id
        BY <3>2 DEF IncomingShift
      <3> QED
        BY <3>1, <3>2
    <2> QED
      BY <2>1, <2>2 DEF MessagesLater, Push
  <1>10. ~Unsub(Incoming[1])
    BY <1>2
  <1>11. ASSUME NEW j \in 1 .. Len(Incoming), Unsub(Incoming[j])
         PROVE  j - 1 \in 1 .. Len(Incoming') /\ Incoming'[j - 1] = Incoming[j]
    BY <1>10, <1>11 DEF IncomingShift
  <1>12. Subscriptions'
    <2>1. (\E n \in Names : Subscribed(n)) \/ invalid # <<>> => Has("subscribed")
      BY DEF Pipeline, Subscriptions
    <2>2. \A n \in served : Subscribed(n)
      BY DEF Pipeline, Subscriptions
    <2>3. ASSUME net # "closed"
          PROVE  /\ \A i \in 1 .. Len(Outgoing) : Outgoing[i].kind \in {"subscribe", "unsubscribe"} =>
                      Outgoing[i].names # {} /\ \A n \in Outgoing[i].names : Subscribed(n)
                 /\ \A n \in Names : Subscribed(n) =>
                      \/ n \in served
                      \/ \E i \in 1 .. Len(Outgoing) :
                           Outgoing[i].kind = "subscribe" /\ n \in Outgoing[i].names
                      \/ \E i \in 1 .. Len(Incoming') : Unsub(Incoming'[i]) /\ n \in Incoming'[i].names
      <3>1. \A n \in Names : Subscribed(n) =>
              \/ n \in served
              \/ \E i \in 1 .. Len(Outgoing) :
                   Outgoing[i].kind = "subscribe" /\ n \in Outgoing[i].names
              \/ \E i \in 1 .. Len(Incoming) : Unsub(Incoming[i]) /\ n \in Incoming[i].names
        BY <2>3 DEF Pipeline, Subscriptions
      <3>2. \A i \in 1 .. Len(Outgoing) : Outgoing[i].kind \in {"subscribe", "unsubscribe"} =>
              Outgoing[i].names # {} /\ \A n \in Outgoing[i].names : Subscribed(n)
        BY <2>3 DEF Pipeline, Subscriptions
      <3>3. \A n \in Names : (\E i \in 1 .. Len(Incoming) : Unsub(Incoming[i]) /\ n \in Incoming[i].names)
              => \E i \in 1 .. Len(Incoming') : Unsub(Incoming'[i]) /\ n \in Incoming'[i].names
        BY <1>11
      <3> QED
        BY <3>1, <3>2, <3>3
    <2> QED
      BY <2>1, <2>2, <2>3 DEF Subscriptions, Subscribed, Has, Unsub
  <1>13. Unsubscribes'
    <2>1. net # "closed" =>
            \A i \in 1 .. Len(Outgoing) : Outgoing[i].kind = "unsubscribe" => i = Len(Outgoing)
      BY DEF Pipeline, Unsubscribes
    <2>2. ASSUME NEW i \in 1 .. Len(Incoming'), Unsub(Incoming'[i])
          PROVE  /\ net # "closed" => Outgoing = <<>>
                 /\ \A id \in Waiting' : \E j \in 1 .. i - 1 : Incoming'[j].to = id
                 /\ \A n \in Names : Subscribed(n) =>
                      n \in served \/ \E j \in 1 .. Len(Incoming') :
                                        Unsub(Incoming'[j]) /\ n \in Incoming'[j].names
                 /\ Incoming'[i].names \cap served = {}
                 /\ \A j \in i + 1 .. Len(Incoming') :
                      Push(Incoming'[j]) => Incoming'[j].names # Incoming'[i].names
                 /\ Incoming'[i].count = 0 <=>
                      served = {} /\ \A j \in i + 1 .. Len(Incoming') : ~Unsub(Incoming'[j])
      <3>1. Incoming'[i] = Incoming[i + 1] /\ i + 1 \in 1 .. Len(Incoming) /\ i \in Nat
        BY <1>1 DEF IncomingShift
      <3>2. /\ net # "closed" => Outgoing = <<>>
            /\ \A id \in Waiting : \E j \in 1 .. (i + 1) - 1 : Incoming[j].to = id
            /\ \A n \in Names : Subscribed(n) =>
                 n \in served \/ \E j \in 1 .. Len(Incoming) : Unsub(Incoming[j]) /\ n \in Incoming[j].names
            /\ Incoming[i + 1].names \cap served = {}
            /\ \A j \in (i + 1) + 1 .. Len(Incoming) :
                 Push(Incoming[j]) => Incoming[j].names # Incoming[i + 1].names
            /\ Incoming[i + 1].count = 0 <=>
                 served = {} /\ \A j \in (i + 1) + 1 .. Len(Incoming) : ~Unsub(Incoming[j])
        BY <2>2, <3>1 DEF Pipeline, Unsubscribes
      <3>3. \A id \in Waiting' : \E j \in 1 .. i - 1 : Incoming'[j].to = id
        BY <1>4, <1>8, <3>2
      <3>4. \A n \in Names : Subscribed(n) =>
              n \in served \/ \E j \in 1 .. Len(Incoming') :
                                Unsub(Incoming'[j]) /\ n \in Incoming'[j].names
        BY <1>11, <3>2
      <3>5. \A j \in i + 1 .. Len(Incoming') :
              Incoming'[j] = Incoming[j + 1] /\ j + 1 \in (i + 1) + 1 .. Len(Incoming)
        BY <1>1, <3>1 DEF IncomingShift
      <3>6. \A j \in (i + 1) + 1 .. Len(Incoming) :
              Incoming'[j - 1] = Incoming[j] /\ j - 1 \in i + 1 .. Len(Incoming')
        BY <1>1, <3>1 DEF IncomingShift
      <3>7. \A j \in i + 1 .. Len(Incoming') :
              Push(Incoming'[j]) => Incoming'[j].names # Incoming'[i].names
        BY <3>1, <3>2, <3>5
      <3>8. (\A j \in i + 1 .. Len(Incoming') : ~Unsub(Incoming'[j]))
              <=> \A j \in (i + 1) + 1 .. Len(Incoming) : ~Unsub(Incoming[j])
        BY <3>5, <3>6
      <3> QED
        BY <3>1, <3>2, <3>3, <3>4, <3>7, <3>8
    <2> QED
      BY <2>1, <2>2 DEF Unsubscribes, Subscribed, Unsub, Push
  <1> QED
    BY <1>5, <1>6, <1>7, <1>9, <1>12, <1>13 DEF Pipeline

\* The one answer that turns the client away is taken off, or comes.
LEMMA PipelineClosed ==
  ASSUME Pipeline, Len(Incoming') = 0, net = "closed", UNCHANGED <<net, subs, served>>,
         "subscribed" \in flags' <=> Has("subscribed"), invalid' = invalid
  PROVE  Pipeline'
PROOF
  <1>1. /\ \A n \in served : Subscribed(n)
        /\ (\E n \in Names : Subscribed(n)) \/ invalid # <<>> => Has("subscribed")
    BY DEF Pipeline, Subscriptions
  <1>2. Contents' /\ Ordered' /\ Flight' /\ MessagesLater' /\ Unsubscribes'
    BY DEF Contents, Ordered, Flight, MessagesLater, Unsubscribes
  <1>3. Subscriptions'
    BY <1>1 DEF Subscriptions, Subscribed, Has
  <1> QED
    BY <1>2, <1>3 DEF Pipeline

LEMMA PipelineTurnedAway ==
  ASSUME IInv, Pipeline, NEW r, Rejection(r), IncomingAppends(r), net = "pending", net' = "closed",
         UNCHANGED <<replies, invalid, subs, served, issued, flags>>
  PROVE  Pipeline'
PROOF
  <1>1. Len(Incoming) = 0 /\ served = {}
    BY DEF Pipeline, Contents
  <1>2. Len(Incoming') = 1 /\ Incoming'[1] = r
    BY <1>1 DEF IncomingAppends
  <1>3. r.to = 0 /\ ~Push(r) /\ ~Unsub(r)
    BY DEF Rejection, Push, Unsub, Pushes
  <1>4. Contents' /\ Ordered' /\ Flight'
    BY <1>2, <1>3 DEF Contents, Ordered, Flight, Rejection
  <1>5. MessagesLater' /\ Unsubscribes'
    BY <1>2, <1>3 DEF MessagesLater, Unsubscribes, Push, Unsub
  <1>6. /\ \A n \in served : Subscribed(n)
        /\ (\E n \in Names : Subscribed(n)) \/ invalid # <<>> => Has("subscribed")
    BY DEF Pipeline, Subscriptions
  <1>7. Subscriptions'
    BY <1>6 DEF Subscriptions, Subscribed, Has
  <1> QED
    BY <1>4, <1>5, <1>7 DEF Pipeline

\* A message that is published.
LEMMA PipelineTraffic ==
  ASSUME IInv, ~Has("monitoring"), Pipeline, NEW r, IncomingAppends(r), Outgoing' = Outgoing,
         r.kind = "message", r.to = 0, NEW n \in served, r.names = {n}, net = "up",
         UNCHANGED <<net, replies, invalid, subs, served, issued, flags>>
  PROVE  Pipeline'
PROOF
  <1>1. Plain' = Plain /\ Waiting' = Waiting
    BY DEF Plain, Waiting
  <1>2. /\ \A id \in Waiting : id \in Nat \ {0}
        /\ \A i \in 1 .. Len(Incoming) : Incoming[i].to \in Nat
        /\ \A i \in 1 .. Len(Outgoing) : Outgoing[i].id \in Nat \ {0}
        /\ Len(Incoming) \in Nat /\ served \subseteq Names
    BY Numbers DEF NetType
  <1>3. Push(r) /\ ~Unsub(r)
    BY DEF Push, Unsub, Pushes
  <1>4. Contents'
    <2>1. Subscribed(n) /\ n \in Names
      BY <1>2 DEF Pipeline, Subscriptions
    <2>2. ASSUME NEW i \in 1 .. Len(Incoming')
          PROVE  \/ /\ Push(Incoming'[i]) /\ Incoming'[i].to = 0
                    /\ \E m \in Names : Incoming'[i].names = {m} /\ subs[m] # NoCb
                 \/ Incoming'[i].kind \in {"reply", "error"} /\ Incoming'[i].to \in Waiting
      BY <1>3, <2>1 DEF Pipeline, Contents, Subscribed, IncomingAppends
    <2> QED
      BY <1>1, <2>2 DEF Contents, Subscribed, Push
  <1>5. Ordered'
    BY <1>1, <1>2, SMTT(30) DEF Pipeline, Ordered, IncomingAppends
  <1>6. Flight'
    BY <1>1, <1>2, SMTT(30) DEF Pipeline, Flight, Issued, IncomingAppends
  <1>7. MessagesLater'
    <2>1. ASSUME NEW i \in 1 .. Len(Incoming'), Push(Incoming'[i]), NEW id \in Plain
          PROVE  \E j \in 1 .. i - 1 : Incoming'[j].to = id
      <3>1. CASE i \in 1 .. Len(Incoming)
        <4>1. \E j \in 1 .. i - 1 : Incoming[j].to = id
          BY <2>1, <3>1 DEF Pipeline, MessagesLater, IncomingAppends
        <4>2. \A j \in 1 .. i - 1 : Incoming'[j] = Incoming[j]
          BY <1>2, <3>1 DEF IncomingAppends
        <4> QED
          BY <4>1, <4>2
      <3>2. CASE i = Len(Incoming) + 1
        <4>1. \E j \in 1 .. Len(Incoming) : Incoming[j].to = id
          BY DEF Pipeline, MessagesLater
        <4> QED
          BY <1>2, <3>2, <4>1 DEF IncomingAppends
      <3> QED
        BY <3>1, <3>2 DEF IncomingAppends
    <2>2. /\ \A i \in 1 .. Len(Outgoing) :
               Outgoing[i].kind = "subscribe" => \A id \in Plain : id < Outgoing[i].id
          /\ served # {} => \A id \in Plain : \E j \in 1 .. Len(Incoming') : Incoming'[j].to = id
      BY DEF Pipeline, MessagesLater, IncomingAppends
    <2> QED
      BY <1>1, <2>1, <2>2 DEF MessagesLater, Push
  <1>8. Subscriptions'
    <2>1. \A m \in Names : (\E i \in 1 .. Len(Incoming) : Unsub(Incoming[i]) /\ m \in Incoming[i].names)
            => \E i \in 1 .. Len(Incoming') : Unsub(Incoming'[i]) /\ m \in Incoming'[i].names
      BY DEF IncomingAppends
    <2> QED
      BY <2>1 DEF Pipeline, Subscriptions, Subscribed, Has, Unsub
  <1>9. Unsubscribes'
    <2>1. \A i \in 1 .. Len(Outgoing) : Outgoing[i].kind = "unsubscribe" => i = Len(Outgoing)
      BY DEF Pipeline, Unsubscribes
    <2>2. ASSUME NEW i \in 1 .. Len(Incoming'), Unsub(Incoming'[i])
          PROVE  /\ Outgoing = <<>>
                 /\ \A id \in Waiting : \E j \in 1 .. i - 1 : Incoming'[j].to = id
                 /\ \A m \in Names : Subscribed(m) =>
                      m \in served \/ \E j \in 1 .. Len(Incoming') :
                                        Unsub(Incoming'[j]) /\ m \in Incoming'[j].names
                 /\ Incoming'[i].names \cap served = {}
                 /\ \A j \in i + 1 .. Len(Incoming') :
                      Push(Incoming'[j]) => Incoming'[j].names # Incoming'[i].names
                 /\ Incoming'[i].count = 0 <=>
                      served = {} /\ \A j \in i + 1 .. Len(Incoming') : ~Unsub(Incoming'[j])
      <3>1. i \in 1 .. Len(Incoming) /\ Incoming'[i] = Incoming[i] /\ Unsub(Incoming[i])
        BY <1>3, <2>2 DEF IncomingAppends
      <3>2. /\ Outgoing = <<>>
            /\ \A id \in Waiting : \E j \in 1 .. i - 1 : Incoming[j].to = id
            /\ \A m \in Names : Subscribed(m) =>
                 m \in served \/ \E j \in 1 .. Len(Incoming) : Unsub(Incoming[j]) /\ m \in Incoming[j].names
            /\ Incoming[i].names \cap served = {}
            /\ \A j \in i + 1 .. Len(Incoming) :
                 Push(Incoming[j]) => Incoming[j].names # Incoming[i].names
            /\ Incoming[i].count = 0 <=>
                 served = {} /\ \A j \in i + 1 .. Len(Incoming) : ~Unsub(Incoming[j])
        BY <3>1 DEF Pipeline, Unsubscribes
      <3>3. \A j \in 1 .. i - 1 : Incoming'[j] = Incoming[j]
        BY <1>2, <3>1 DEF IncomingAppends
      <3>4. \A j \in i + 1 .. Len(Incoming') :
              (j \in i + 1 .. Len(Incoming) /\ Incoming'[j] = Incoming[j]) \/ Incoming'[j] = r
        BY <1>2, <3>1 DEF IncomingAppends
      <3>5. r.names # Incoming[i].names
        BY <3>2
      <3>6. \A j \in i + 1 .. Len(Incoming') :
              Push(Incoming'[j]) => Incoming'[j].names # Incoming'[i].names
        BY <3>1, <3>2, <3>4, <3>5
      <3>7. \A m \in Names : Subscribed(m) =>
              m \in served \/ \E j \in 1 .. Len(Incoming') :
                                Unsub(Incoming'[j]) /\ m \in Incoming'[j].names
        BY <3>2 DEF IncomingAppends
      <3> QED
        BY <3>1, <3>2, <3>3, <3>6, <3>7, SMTT(30)
    <2> QED
      BY <1>1, <2>1, <2>2 DEF Unsubscribes, Subscribed, Unsub, Push
  <1> QED
    BY <1>4, <1>5, <1>6, <1>7, <1>8, <1>9 DEF Pipeline

\* The message that is first is given to the callback of its name.
LEMMA PipelineMessage ==
  ASSUME IInv, ~Has("monitoring"), Pipeline, IncomingShift, 1 \in 1 .. Len(Incoming),
         Push(Incoming[1]), Incoming[1].to = 0,
         NEW n \in Names, Incoming[1].names = {n},
         UNCHANGED <<replies, invalid, served, issued, net>>, Outgoing' = Outgoing,
         Unsub(Incoming[1]) => invalid = <<>>,
         \/ ~Unsub(Incoming[1]) /\ subs' = subs /\ ("subscribed" \in flags' <=> Has("subscribed"))
         \/ /\ Unsub(Incoming[1]) /\ subs' = [subs EXCEPT ![n] = NoCb]
            /\ "subscribed" \in flags' <=> Has("subscribed") /\ Incoming[1].count # 0
  PROVE  Pipeline'
PROOF
  <1> DEFINE r == Incoming[1]
             still(m) == subs'[m] # NoCb
  <1>1. Plain' = Plain /\ Waiting' = Waiting
    BY DEF Plain, Waiting
  <1>2. /\ \A id \in Waiting : id \in Nat \ {0}
        /\ \A i \in 1 .. Len(Incoming) : Incoming[i].to \in Nat
        /\ \A i \in 1 .. Len(Outgoing) : Outgoing[i].id \in Nat \ {0}
        /\ Len(Incoming) \in Nat /\ subs \in [Names -> Ids \cup {NoCb}] /\ served \subseteq Names
        /\ \A i \in 1 .. Len(Outgoing) : Outgoing[i].names \subseteq Names
        /\ \A i \in 1 .. Len(Incoming) : Incoming[i].names \subseteq Names
        /\ Outgoing = <<>> => Len(Outgoing) = 0
    BY Numbers DEF ListType, NetType, Commands, Replies
  <1>3. /\ \A m \in Names : still(m) => Subscribed(m)
        /\ \A m \in Names : Subscribed(m) => still(m) \/ (Unsub(r) /\ m = n)
        /\ \A m \in Names : still(m) /\ Unsub(r) => m # n
    BY <1>2 DEF Subscribed
  <1> HIDE DEF still
  \* What else is known when a subscription ends.
  <1>4. ASSUME Unsub(r)
        PROVE  /\ net # "closed" => Outgoing = <<>>
               /\ Waiting = {} /\ n \notin served
               /\ \A j \in 2 .. Len(Incoming) : Push(Incoming[j]) => Incoming[j].names # {n}
               /\ \A m \in Names : still(m) =>
                    m \in served \/ \E j \in 2 .. Len(Incoming) : Unsub(Incoming[j]) /\ m \in Incoming[j].names
               /\ r.count = 0 => served = {} /\ \A j \in 2 .. Len(Incoming) : ~Unsub(Incoming[j])
    <2>1. /\ net # "closed" => Outgoing = <<>>
          /\ \A id \in Waiting : \E j \in 1 .. 1 - 1 : Incoming[j].to = id
          /\ \A m \in Names : Subscribed(m) =>
               m \in served \/ \E j \in 1 .. Len(Incoming) : Unsub(Incoming[j]) /\ m \in Incoming[j].names
          /\ r.names \cap served = {}
          /\ \A j \in 1 + 1 .. Len(Incoming) : Push(Incoming[j]) => Incoming[j].names # r.names
          /\ r.count = 0 <=> served = {} /\ \A j \in 1 + 1 .. Len(Incoming) : ~Unsub(Incoming[j])
      BY <1>4 DEF Pipeline, Unsubscribes
    <2>2. ASSUME NEW m \in Names, still(m)
          PROVE  m \in served \/ \E j \in 2 .. Len(Incoming) : Unsub(Incoming[j]) /\ m \in Incoming[j].names
      <3>1. m # n /\ Subscribed(m)
        BY <1>3, <1>4, <2>2
      <3>2. \A j \in 1 .. Len(Incoming) : m \in Incoming[j].names => j \in 2 .. Len(Incoming)
        BY <1>2, <3>1
      <3> QED
        BY <2>1, <3>1, <3>2
    <2> QED
      BY <2>1, <2>2
  <1>5. \A i \in 1 .. Len(Incoming') :
          Incoming'[i] = Incoming[i + 1] /\ i + 1 \in 2 .. Len(Incoming) /\ i \in Nat
    BY <1>2 DEF IncomingShift
  <1>6. \A j \in 2 .. Len(Incoming) : j - 1 \in 1 .. Len(Incoming') /\ Incoming'[j - 1] = Incoming[j]
    BY <1>2 DEF IncomingShift
  <1>7. \A id \in Waiting, j \in 1 .. Len(Incoming) : Incoming[j].to = id => j \in 2 .. Len(Incoming)
    BY <1>2
  <1>8. ASSUME NEW i \in 1 .. Len(Incoming'), NEW id \in Waiting,
               \E j \in 1 .. (i + 1) - 1 : Incoming[j].to = id
        PROVE  \E j \in 1 .. i - 1 : Incoming'[j].to = id
    <2>1. PICK j \in 1 .. (i + 1) - 1 : Incoming[j].to = id
      BY <1>8
    <2>2. i + 1 \in 2 .. Len(Incoming) /\ i \in Nat
      BY <1>5
    <2>3. j \in 2 .. Len(Incoming)
      BY <1>2, <1>7, <2>1, <2>2
    <2>4. j - 1 \in 1 .. i - 1 /\ Incoming'[j - 1] = Incoming[j]
      BY <1>6, <2>1, <2>2, <2>3
    <2> QED
      BY <2>1, <2>4
  <1>9. Contents'
    <2>1. ASSUME NEW i \in 1 .. Len(Incoming')
          PROVE  \/ /\ Push(Incoming'[i]) /\ Incoming'[i].to = 0
                    /\ \E m \in Names : Incoming'[i].names = {m} /\ still(m)
                 \/ Incoming'[i].kind \in {"reply", "error"} /\ Incoming'[i].to \in Waiting
      <3>1. /\ Incoming'[i] = Incoming[i + 1] /\ i + 1 \in 1 .. Len(Incoming)
            /\ i + 1 \in 2 .. Len(Incoming) /\ Len(Incoming) # 1
        BY <1>2, <1>5
      <3>2. \/ /\ Push(Incoming[i + 1]) /\ Incoming[i + 1].to = 0
               /\ \E m \in Names : Incoming[i + 1].names = {m} /\ Subscribed(m)
            \/ Incoming[i + 1].kind \in {"reply", "error"} /\ Incoming[i + 1].to \in Waiting
        BY <3>1 DEF Pipeline, Contents
      <3>3. ASSUME Push(Incoming[i + 1]), NEW m \in Names, Incoming[i + 1].names = {m}, Subscribed(m)
            PROVE  still(m)
        BY <1>3, <1>4, <3>1, <3>3
      <3> QED
        BY <3>1, <3>2, <3>3
    <2>2. net' = "pending" => Incoming' = <<>> /\ served' = {}
      <3>1. net # "pending"
        BY <1>2 DEF Pipeline, Contents
      <3> QED
        BY <3>1
    <2> QED
      BY <1>1, <2>1, <2>2 DEF Contents, Push, Subscribed, still
  <1>10. Ordered'
    <2> SUFFICES ASSUME NEW i \in 1 .. Len(Incoming'), Incoming'[i].to # 0
                 PROVE  /\ \A j \in 1 .. i - 1 : Incoming'[j].to < Incoming'[i].to
                        /\ \A id \in Waiting : id <= Incoming'[i].to =>
                             \E j \in 1 .. i : Incoming'[j].to = id
      BY <1>1 DEF Ordered
    <2>1. Incoming'[i] = Incoming[i + 1] /\ i + 1 \in 1 .. Len(Incoming) /\ i \in Nat
      BY <1>5
    <2>2. /\ \A j \in 1 .. (i + 1) - 1 : Incoming[j].to < Incoming[i + 1].to
          /\ \A id \in Waiting : id <= Incoming[i + 1].to => \E j \in 1 .. i + 1 : Incoming[j].to = id
      BY <2>1 DEF Pipeline, Ordered
    <2>3. \A j \in 1 .. i - 1 : Incoming'[j] = Incoming[j + 1] /\ j + 1 \in 1 .. (i + 1) - 1
      BY <1>2, <2>1 DEF IncomingShift
    <2>4. ASSUME NEW id \in Waiting, id <= Incoming'[i].to
          PROVE  \E j \in 1 .. i : Incoming'[j].to = id
      <3>1. PICK j \in 1 .. i + 1 : Incoming[j].to = id
        BY <2>1, <2>2, <2>4
      <3>2. j \in 2 .. Len(Incoming)
        BY <1>2, <1>7, <2>1, <3>1
      <3>3. j - 1 \in 1 .. i /\ Incoming'[j - 1] = Incoming[j]
        BY <1>6, <2>1, <3>1, <3>2
      <3> QED
        BY <3>1, <3>3
    <2> QED
      BY <2>1, <2>2, <2>3, <2>4
  <1>11. Flight'
    <2>1. ASSUME net # "closed", NEW i \in 1 .. Len(Outgoing)
          PROVE  /\ Issued(Outgoing[i].id) /\ Outgoing[i].kind # "monitor"
                 /\ Outgoing[i].kind = "regular" => Outgoing[i].id \in Waiting
                 /\ \A j \in 1 .. i - 1 : Outgoing[j].id < Outgoing[i].id
                 /\ \A j \in 1 .. Len(Incoming') : Incoming'[j].to < Outgoing[i].id
      BY <1>5, <2>1 DEF Pipeline, Flight, IncomingShift
    <2>2. ASSUME net # "closed", NEW id \in Waiting
          PROVE  \/ \E i \in 1 .. Len(Incoming') : Incoming'[i].to = id
                 \/ \E i \in 1 .. Len(Outgoing) :
                      Outgoing[i].kind = "regular" /\ Outgoing[i].id = id
      BY <1>6, <1>7, <2>2 DEF Pipeline, Flight
    <2> QED
      BY <1>1, <2>1, <2>2 DEF Flight, Issued
  <1>12. MessagesLater'
    <2>1. Plain = {}
      BY DEF Pipeline, MessagesLater
    <2> QED
      BY <1>1, <2>1 DEF MessagesLater
  <1>13. Subscriptions'
    <2>1. \A m \in served : still(m)
      <3>1. \A m \in served : Subscribed(m)
        BY DEF Pipeline, Subscriptions
      <3> QED
        BY <1>2, <1>3, <1>4, <3>1
    <2>2. (\E m \in Names : still(m)) \/ invalid # <<>> => "subscribed" \in flags'
      <3>1. (\E m \in Names : Subscribed(m)) \/ invalid # <<>> => Has("subscribed")
        BY DEF Pipeline, Subscriptions
      <3>2. Unsub(r) /\ r.count = 0 => ~\E m \in Names : still(m)
        BY <1>4
      <3> QED
        BY <1>3, <3>1, <3>2
    <2>3. ASSUME net # "closed"
          PROVE  /\ \A i \in 1 .. Len(Outgoing) : Outgoing[i].kind \in {"subscribe", "unsubscribe"} =>
                      Outgoing[i].names # {} /\ \A m \in Outgoing[i].names : still(m)
                 /\ \A m \in Names : still(m) =>
                      \/ m \in served
                      \/ \E i \in 1 .. Len(Outgoing) :
                           Outgoing[i].kind = "subscribe" /\ m \in Outgoing[i].names
                      \/ \E i \in 1 .. Len(Incoming') : Unsub(Incoming'[i]) /\ m \in Incoming'[i].names
      <3>1. /\ \A i \in 1 .. Len(Outgoing) : Outgoing[i].kind \in {"subscribe", "unsubscribe"} =>
                 Outgoing[i].names # {} /\ \A m \in Outgoing[i].names : Subscribed(m)
            /\ \A m \in Names : Subscribed(m) =>
                 \/ m \in served
                 \/ \E i \in 1 .. Len(Outgoing) :
                      Outgoing[i].kind = "subscribe" /\ m \in Outgoing[i].names
                 \/ \E i \in 1 .. Len(Incoming) : Unsub(Incoming[i]) /\ m \in Incoming[i].names
        BY <2>3 DEF Pipeline, Subscriptions
      <3>2. \A i \in 1 .. Len(Outgoing) : Outgoing[i].kind \in {"subscribe", "unsubscribe"} =>
              Outgoing[i].names # {} /\ \A m \in Outgoing[i].names : still(m)
        BY <1>2, <1>3, <1>4, <2>3, <3>1
      <3>3. ASSUME NEW m \in Names, still(m), NEW i \in 1 .. Len(Incoming),
                   Unsub(Incoming[i]), m \in Incoming[i].names
            PROVE  \E j \in 1 .. Len(Incoming') : Unsub(Incoming'[j]) /\ m \in Incoming'[j].names
        <4>1. i # 1
          BY <1>3, <3>3
        <4>2. i \in 2 .. Len(Incoming)
          BY <1>2, <4>1
        <4> QED
          BY <1>6, <3>3, <4>2
      <3> QED
        BY <1>3, <3>1, <3>2, <3>3
    <2> QED
      BY <2>1, <2>2, <2>3 DEF Subscriptions, Subscribed, Has, Unsub, still
  <1>14. Unsubscribes'
    <2>1. net # "closed" =>
            \A i \in 1 .. Len(Outgoing) : Outgoing[i].kind = "unsubscribe" => i = Len(Outgoing)
      BY DEF Pipeline, Unsubscribes
    <2>2. ASSUME NEW i \in 1 .. Len(Incoming'), Unsub(Incoming'[i])
          PROVE  /\ net # "closed" => Outgoing = <<>>
                 /\ \A id \in Waiting : \E j \in 1 .. i - 1 : Incoming'[j].to = id
                 /\ \A m \in Names : still(m) =>
                      m \in served \/ \E j \in 1 .. Len(Incoming') :
                                        Unsub(Incoming'[j]) /\ m \in Incoming'[j].names
                 /\ Incoming'[i].names \cap served = {}
                 /\ \A j \in i + 1 .. Len(Incoming') :
                      Push(Incoming'[j]) => Incoming'[j].names # Incoming'[i].names
                 /\ Incoming'[i].count = 0 <=>
                      served = {} /\ \A j \in i + 1 .. Len(Incoming') : ~Unsub(Incoming'[j])
      <3>1. Incoming'[i] = Incoming[i + 1] /\ i + 1 \in 1 .. Len(Incoming) /\ i \in Nat
        BY <1>2 DEF IncomingShift
      <3>2. /\ net # "closed" => Outgoing = <<>>
            /\ \A id \in Waiting : \E j \in 1 .. (i + 1) - 1 : Incoming[j].to = id
            /\ \A m \in Names : Subscribed(m) =>
                 m \in served \/ \E j \in 1 .. Len(Incoming) : Unsub(Incoming[j]) /\ m \in Incoming[j].names
            /\ Incoming[i + 1].names \cap served = {}
            /\ \A j \in (i + 1) + 1 .. Len(Incoming) :
                 Push(Incoming[j]) => Incoming[j].names # Incoming[i + 1].names
            /\ Incoming[i + 1].count = 0 <=>
                 served = {} /\ \A j \in (i + 1) + 1 .. Len(Incoming) : ~Unsub(Incoming[j])
        BY <2>2, <3>1 DEF Pipeline, Unsubscribes
      <3>3. \A id \in Waiting : \E j \in 1 .. i - 1 : Incoming'[j].to = id
        BY <1>8, <3>2
      <3>4. ASSUME NEW m \in Names, still(m)
            PROVE  m \in served \/ \E j \in 1 .. Len(Incoming') :
                                     Unsub(Incoming'[j]) /\ m \in Incoming'[j].names
        <4>1. m \in served \/ \E j \in 1 .. Len(Incoming) : Unsub(Incoming[j]) /\ m \in Incoming[j].names
          BY <1>3, <3>2, <3>4
        <4>2. \A j \in 1 .. Len(Incoming) :
                Unsub(Incoming[j]) /\ m \in Incoming[j].names => j \in 2 .. Len(Incoming)
          BY <1>2, <1>3, <3>4
        <4> QED
          BY <1>6, <4>1, <4>2
      <3>5. \A j \in i + 1 .. Len(Incoming') :
              Incoming'[j] = Incoming[j + 1] /\ j + 1 \in (i + 1) + 1 .. Len(Incoming)
        BY <1>2, <3>1 DEF IncomingShift
      <3>6. \A j \in (i + 1) + 1 .. Len(Incoming) :
              Incoming'[j - 1] = Incoming[j] /\ j - 1 \in i + 1 .. Len(Incoming')
        BY <1>2, <3>1 DEF IncomingShift
      <3>7. ASSUME NEW j \in i + 1 .. Len(Incoming'), Push(Incoming'[j])
            PROVE  Incoming'[j].names # Incoming'[i].names
        <4>1. Incoming'[j] = Incoming[j + 1] /\ j + 1 \in (i + 1) + 1 .. Len(Incoming)
          BY <3>5
        <4>2. Push(Incoming[j + 1])
          BY <3>7, <4>1
        <4> QED
          BY <3>1, <3>2, <4>1, <4>2
      <3>8. (\A j \in i + 1 .. Len(Incoming') : ~Unsub(Incoming'[j]))
              <=> \A j \in (i + 1) + 1 .. Len(Incoming) : ~Unsub(Incoming[j])
        BY <3>5, <3>6
      <3> QED
        BY <3>1, <3>2, <3>3, <3>4, <3>7, <3>8
    <2> QED
      BY <1>1, <2>1, <2>2 DEF Unsubscribes, Subscribed, Unsub, Push, still
  <1> QED
    BY <1>9, <1>10, <1>11, <1>12, <1>13, <1>14 DEF Pipeline


\* The server serves the command that is first: what it answers comes after
\* everything, and the commands that are left come after the one it answers.
LEMMA FirstServed ==
  ASSUME IInv, ~Has("monitoring"), Pipeline, OutgoingShift, 1 \in 1 .. Len(Outgoing), net = "up"
  PROVE  LET c == Outgoing[1] IN
         /\ c \in Commands /\ c.id \in Nat \ {0} /\ c.kind # "monitor"
         /\ c.kind = "regular" => c.id \in Waiting
         /\ \A j \in 1 .. Len(Incoming) : ~Unsub(Incoming[j]) /\ Incoming[j].to < c.id
         /\ \A i \in 1 .. Len(Outgoing') :
              /\ Outgoing'[i] = Outgoing[i + 1] /\ i + 1 \in 1 .. Len(Outgoing)
              /\ c.id < Outgoing'[i].id
              /\ Issued(Outgoing'[i].id) /\ Outgoing'[i].kind # "monitor"
              /\ Outgoing'[i].kind = "regular" => Outgoing'[i].id \in Waiting
              /\ \A j \in 1 .. i - 1 : Outgoing'[j].id < Outgoing'[i].id
              /\ \A j \in 1 .. Len(Incoming) : Incoming[j].to < Outgoing'[i].id
              /\ Outgoing'[i].kind = "subscribe" => \A id \in Plain : id < Outgoing'[i].id
              /\ Outgoing'[i].kind \in {"subscribe", "unsubscribe"} =>
                   Outgoing'[i].names # {} /\ \A n \in Outgoing'[i].names : Subscribed(n)
              /\ Outgoing'[i].kind = "unsubscribe" => i = Len(Outgoing')
PROOF
  <1> DEFINE c == Outgoing[1]
  <1>1. /\ \A i \in 1 .. Len(Outgoing) : Outgoing[i] \in Commands /\ Outgoing[i].id \in Nat \ {0}
        /\ Len(Outgoing) \in Nat \ {0} /\ Outgoing # <<>>
    BY Numbers
  <1>2. \A i \in 1 .. Len(Outgoing) :
          LET d == Outgoing[i] IN
          /\ Issued(d.id) /\ d.kind # "monitor"
          /\ d.kind = "regular" => d.id \in Waiting
          /\ \A j \in 1 .. i - 1 : Outgoing[j].id < d.id
          /\ \A j \in 1 .. Len(Incoming) : Incoming[j].to < d.id
    BY DEF Pipeline, Flight
  <1>3. \A j \in 1 .. Len(Incoming) : ~Unsub(Incoming[j])
    BY <1>1 DEF Pipeline, Unsubscribes
  <1>4. \A i \in 1 .. Len(Outgoing) :
          /\ Outgoing[i].kind = "subscribe" => \A id \in Plain : id < Outgoing[i].id
          /\ Outgoing[i].kind \in {"subscribe", "unsubscribe"} =>
               Outgoing[i].names # {} /\ \A n \in Outgoing[i].names : Subscribed(n)
          /\ Outgoing[i].kind = "unsubscribe" => i = Len(Outgoing)
    BY DEF Pipeline, MessagesLater, Subscriptions, Unsubscribes
  <1>5. ASSUME NEW i \in 1 .. Len(Outgoing')
        PROVE  /\ Outgoing'[i] = Outgoing[i + 1] /\ i + 1 \in 1 .. Len(Outgoing)
               /\ c.id < Outgoing'[i].id
               /\ \A j \in 1 .. i - 1 : Outgoing'[j].id < Outgoing'[i].id
               /\ i + 1 = Len(Outgoing) => i = Len(Outgoing')
    <2>1. Outgoing'[i] = Outgoing[i + 1] /\ i + 1 \in 1 .. Len(Outgoing)
          /\ Len(Outgoing') = Len(Outgoing) - 1
      BY DEF OutgoingShift
    <2>2. 1 \in 1 .. (i + 1) - 1
      BY <1>1, <2>1
    <2>3. c.id < Outgoing[i + 1].id
      BY <1>2, <2>1, <2>2
    <2>4. ASSUME NEW j \in 1 .. i - 1
          PROVE  Outgoing'[j].id < Outgoing'[i].id
      <3>1. j \in 1 .. Len(Outgoing') /\ j + 1 \in 1 .. (i + 1) - 1
        BY <1>1, <2>1
      <3>2. Outgoing'[j] = Outgoing[j + 1]
        BY <3>1 DEF OutgoingShift
      <3> QED
        BY <1>2, <2>1, <3>1, <3>2
    <2> QED
      BY <1>1, <2>1, <2>3, <2>4
  <1> HIDE DEF c
  <1>6. c \in Commands /\ c.id \in Nat \ {0} /\ c.kind # "monitor"
        /\ (c.kind = "regular" => c.id \in Waiting)
        /\ \A j \in 1 .. Len(Incoming) : Incoming[j].to < c.id
    BY <1>1, <1>2 DEF c
  <1> QED
    BY <1>2, <1>3, <1>4, <1>5, <1>6, SMTT(30) DEF c

\* The reply to a command that waits.
LEMMA PipelineAnswer ==
  ASSUME IInv, ~Has("monitoring"), Pipeline, OutgoingShift, 1 \in 1 .. Len(Outgoing),
         NEW r, IncomingAppends(r), Outgoing[1].kind = "regular", r.to = Outgoing[1].id,
         r.kind \in {"reply", "error"}, net = "up",
         UNCHANGED <<net, replies, invalid, subs, served, issued, flags>>
  PROVE  Pipeline'
PROOF
  <1> DEFINE c == Outgoing[1]
  <1>1. Plain' = Plain /\ Waiting' = Waiting
    BY DEF Plain, Waiting
  <1>2. /\ \A id \in Waiting : id \in Nat \ {0}
        /\ \A i \in 1 .. Len(Incoming) : Incoming[i].to \in Nat
        /\ \A i \in 1 .. Len(Outgoing) : Outgoing[i].id \in Nat \ {0}
        /\ Len(Incoming) \in Nat /\ Plain \subseteq Waiting
    BY Numbers
  <1>3. ~Push(r) /\ ~Unsub(r)
    BY DEF Push, Unsub, Pushes
  <1>4. /\ c.id \in Nat \ {0} /\ c.id \in Waiting
        /\ \A j \in 1 .. Len(Incoming) : ~Unsub(Incoming[j]) /\ Incoming[j].to < c.id
        /\ \A i \in 1 .. Len(Outgoing') :
             /\ Outgoing'[i] = Outgoing[i + 1] /\ i + 1 \in 1 .. Len(Outgoing)
             /\ c.id < Outgoing'[i].id
             /\ Issued(Outgoing'[i].id) /\ Outgoing'[i].kind # "monitor"
             /\ Outgoing'[i].kind = "regular" => Outgoing'[i].id \in Waiting
             /\ \A j \in 1 .. i - 1 : Outgoing'[j].id < Outgoing'[i].id
             /\ \A j \in 1 .. Len(Incoming) : Incoming[j].to < Outgoing'[i].id
             /\ Outgoing'[i].kind = "subscribe" => \A id \in Plain : id < Outgoing'[i].id
             /\ Outgoing'[i].kind \in {"subscribe", "unsubscribe"} =>
                  Outgoing'[i].names # {} /\ \A n \in Outgoing'[i].names : Subscribed(n)
             /\ Outgoing'[i].kind = "unsubscribe" => i = Len(Outgoing')
    BY FirstServed
  <1>5. c.kind = "regular" /\ r.to = c.id
    OBVIOUS
  \* Everything that waits is in the stream or comes after the command.
  <1>6. ASSUME NEW id \in Waiting
        PROVE  \/ id = c.id
               \/ \E i \in 1 .. Len(Incoming) : Incoming[i].to = id
               \/ \E i \in 1 .. Len(Outgoing') : Outgoing'[i].kind = "regular" /\ Outgoing'[i].id = id
    <2>1. \/ \E i \in 1 .. Len(Incoming) : Incoming[i].to = id
          \/ \E i \in 1 .. Len(Outgoing) : Outgoing[i].kind = "regular" /\ Outgoing[i].id = id
      BY DEF Pipeline, Flight
    <2> QED
      BY <2>1 DEF OutgoingShift
  <1> HIDE DEF c
  <1>7. Contents'
    <2>1. ASSUME NEW i \in 1 .. Len(Incoming')
          PROVE  \/ /\ Push(Incoming'[i]) /\ Incoming'[i].to = 0
                    /\ \E m \in Names : Incoming'[i].names = {m} /\ subs[m] # NoCb
                 \/ Incoming'[i].kind \in {"reply", "error"} /\ Incoming'[i].to \in Waiting
      BY <1>4, <1>5 DEF Pipeline, Contents, Subscribed, IncomingAppends
    <2> QED
      BY <1>1, <2>1 DEF Contents, Subscribed, Push
  <1>8. Ordered'
    <2> SUFFICES ASSUME NEW i \in 1 .. Len(Incoming'), Incoming'[i].to # 0
                 PROVE  /\ \A j \in 1 .. i - 1 : Incoming'[j].to < Incoming'[i].to
                        /\ \A id \in Waiting : id <= Incoming'[i].to =>
                             \E j \in 1 .. i : Incoming'[j].to = id
      BY <1>1 DEF Ordered
    <2>1. CASE i \in 1 .. Len(Incoming)
      <3>1. \A j \in 1 .. i : Incoming'[j] = Incoming[j]
        BY <1>2, <2>1 DEF IncomingAppends
      <3>2. Incoming'[i] = Incoming[i] /\ \A j \in 1 .. i - 1 : Incoming'[j] = Incoming[j]
        BY <1>2, <2>1, <3>1
      <3>3. /\ \A j \in 1 .. i - 1 : Incoming[j].to < Incoming[i].to
            /\ \A id \in Waiting : id <= Incoming[i].to => \E j \in 1 .. i : Incoming[j].to = id
        BY <2>1, <3>2 DEF Pipeline, Ordered
      <3> QED
        BY <3>1, <3>2, <3>3
    <2>2. CASE i = Len(Incoming) + 1
      <3>1. Incoming'[i].to = c.id
        BY <1>5, <2>2 DEF IncomingAppends
      <3>2. \A j \in 1 .. i - 1 : j \in 1 .. Len(Incoming) /\ Incoming'[j] = Incoming[j]
        BY <1>2, <2>2 DEF IncomingAppends
      <3>3. ASSUME NEW id \in Waiting, id <= c.id
            PROVE  \E j \in 1 .. i : Incoming'[j].to = id
        <4>1. CASE id = c.id
          BY <1>2, <2>2, <3>1, <4>1
        <4>2. CASE \E j \in 1 .. Len(Incoming) : Incoming[j].to = id
          BY <1>2, <2>2, <4>2 DEF IncomingAppends
        <4>3. ~\E j \in 1 .. Len(Outgoing') : Outgoing'[j].kind = "regular" /\ Outgoing'[j].id = id
          <5>1. \A j \in 1 .. Len(Outgoing') : Outgoing'[j].id \in Nat /\ c.id < Outgoing'[j].id
            BY <1>2, <1>4
          <5> QED
            BY <1>2, <1>4, <3>3, <5>1
        <4> QED
          BY <1>6, <4>1, <4>2, <4>3
      <3> QED
        BY <1>4, <3>1, <3>2, <3>3
    <2> QED
      BY <2>1, <2>2 DEF IncomingAppends
  <1>9. Flight'
    <2>1. ASSUME NEW i \in 1 .. Len(Outgoing'), NEW j \in 1 .. Len(Incoming')
          PROVE  Incoming'[j].to < Outgoing'[i].id
      BY <1>4, <1>5 DEF IncomingAppends
    <2>2. ASSUME NEW id \in Waiting
          PROVE  \/ \E i \in 1 .. Len(Incoming') : Incoming'[i].to = id
                 \/ \E i \in 1 .. Len(Outgoing') : Outgoing'[i].kind = "regular" /\ Outgoing'[i].id = id
      BY <1>5, <1>6 DEF IncomingAppends
    <2> QED
      BY <1>1, <1>4, <2>1, <2>2 DEF Flight, Issued
  <1>10. MessagesLater'
    <2>1. ASSUME NEW i \in 1 .. Len(Incoming'), Push(Incoming'[i]), NEW id \in Plain
          PROVE  \E j \in 1 .. i - 1 : Incoming'[j].to = id
      <3>1. i \in 1 .. Len(Incoming) /\ Incoming'[i] = Incoming[i]
        BY <1>3, <2>1 DEF IncomingAppends
      <3>2. \E j \in 1 .. i - 1 : Incoming[j].to = id
        BY <2>1, <3>1 DEF Pipeline, MessagesLater
      <3>3. \A j \in 1 .. i - 1 : Incoming'[j] = Incoming[j]
        BY <1>2, <3>1 DEF IncomingAppends
      <3> QED
        BY <3>2, <3>3
    <2>2. served # {} => \A id \in Plain : \E j \in 1 .. Len(Incoming') : Incoming'[j].to = id
      BY DEF Pipeline, MessagesLater, IncomingAppends
    <2> QED
      BY <1>1, <1>4, <2>1, <2>2 DEF MessagesLater, Push
  <1>11. Subscriptions'
    <2>1. /\ \A n \in served : Subscribed(n)
          /\ (\E n \in Names : Subscribed(n)) \/ invalid # <<>> => Has("subscribed")
      BY DEF Pipeline, Subscriptions
    <2>2. ASSUME NEW n \in Names, Subscribed(n)
          PROVE  \/ n \in served
                 \/ \E i \in 1 .. Len(Outgoing') :
                      Outgoing'[i].kind = "subscribe" /\ n \in Outgoing'[i].names
      <3>1. \/ n \in served
            \/ \E i \in 1 .. Len(Outgoing) :
                 Outgoing[i].kind = "subscribe" /\ n \in Outgoing[i].names
        BY <1>4, <2>2 DEF Pipeline, Subscriptions
      <3> QED
        BY <1>5, <3>1 DEF OutgoingShift, c
    <2> QED
      BY <1>4, <2>1, <2>2 DEF Subscriptions, Subscribed, Has
  <1>12. Unsubscribes'
    <2>1. \A i \in 1 .. Len(Incoming') : ~Unsub(Incoming'[i])
      BY <1>3, <1>4 DEF IncomingAppends
    <2> QED
      BY <1>4, <2>1 DEF Unsubscribes, Unsub
  <1> QED
    BY <1>7, <1>8, <1>9, <1>10, <1>11, <1>12 DEF Pipeline

\* The messages that confirm a SUBSCRIBE.
LEMMA PipelineSubscribed ==
  ASSUME IInv, ~Has("monitoring"), Pipeline, OutgoingShift, 1 \in 1 .. Len(Outgoing),
         NEW msgs, IncomingGrows(msgs), Messages("subscribe", Outgoing[1].names, msgs),
         Outgoing[1].kind = "subscribe", net = "up", served' = served \cup Outgoing[1].names,
         UNCHANGED <<net, replies, invalid, subs, issued, flags>>
  PROVE  Pipeline'
PROOF
  <1> DEFINE c == Outgoing[1]
  <1>1. Plain' = Plain /\ Waiting' = Waiting
    BY DEF Plain, Waiting
  <1>2. /\ \A id \in Waiting : id \in Nat \ {0}
        /\ \A i \in 1 .. Len(Incoming) : Incoming[i].to \in Nat
        /\ \A i \in 1 .. Len(Outgoing) : Outgoing[i].id \in Nat \ {0}
        /\ Len(Incoming) \in Nat /\ Plain \subseteq Waiting
    BY Numbers
  <1>3. /\ \A k \in 1 .. Len(msgs) :
             /\ Push(msgs[k]) /\ ~Unsub(msgs[k]) /\ msgs[k].to = 0
             /\ \E n \in c.names : msgs[k].names = {n}
        /\ Len(msgs) \in Nat
    BY DEF Push, Unsub, Pushes, Messages
  <1>4. /\ c \in Commands /\ c.id \in Nat \ {0}
        /\ \A j \in 1 .. Len(Incoming) : ~Unsub(Incoming[j]) /\ Incoming[j].to < c.id
        /\ \A i \in 1 .. Len(Outgoing') :
             /\ Outgoing'[i] = Outgoing[i + 1] /\ i + 1 \in 1 .. Len(Outgoing)
             /\ c.id < Outgoing'[i].id
             /\ Issued(Outgoing'[i].id) /\ Outgoing'[i].kind # "monitor"
             /\ Outgoing'[i].kind = "regular" => Outgoing'[i].id \in Waiting
             /\ \A j \in 1 .. i - 1 : Outgoing'[j].id < Outgoing'[i].id
             /\ \A j \in 1 .. Len(Incoming) : Incoming[j].to < Outgoing'[i].id
             /\ Outgoing'[i].kind = "subscribe" => \A id \in Plain : id < Outgoing'[i].id
             /\ Outgoing'[i].kind \in {"subscribe", "unsubscribe"} =>
                  Outgoing'[i].names # {} /\ \A n \in Outgoing'[i].names : Subscribed(n)
             /\ Outgoing'[i].kind = "unsubscribe" => i = Len(Outgoing')
    BY FirstServed
  <1>5. c.names \subseteq Names /\ c.kind = "subscribe" /\ served' = served \cup c.names
        /\ \A n \in c.names : Subscribed(n)
    BY <1>4 DEF Commands, Pipeline, Subscriptions
  <1>6. ASSUME NEW id \in Waiting
        PROVE  \/ \E i \in 1 .. Len(Incoming) : Incoming[i].to = id
               \/ \E i \in 1 .. Len(Outgoing') : Outgoing'[i].kind = "regular" /\ Outgoing'[i].id = id
    <2>1. \/ \E i \in 1 .. Len(Incoming) : Incoming[i].to = id
          \/ \E i \in 1 .. Len(Outgoing) : Outgoing[i].kind = "regular" /\ Outgoing[i].id = id
      BY DEF Pipeline, Flight
    <2> QED
      BY <1>5, <2>1 DEF OutgoingShift
  \* What is in the list of plain commands has its reply before the messages.
  <1>7. ASSUME NEW id \in Plain
        PROVE  \E i \in 1 .. Len(Incoming) : Incoming[i].to = id
    <2>1. id < c.id /\ id \in Waiting /\ id \in Nat
      BY <1>2, <1>5 DEF Pipeline, MessagesLater
    <2>2. ASSUME NEW i \in 1 .. Len(Outgoing'), Outgoing'[i].id = id
          PROVE  FALSE
      <3>1. Outgoing'[i].id \in Nat /\ c.id < Outgoing'[i].id
        BY <1>2, <1>4
      <3> QED
        BY <1>4, <2>1, <2>2, <3>1
    <2> QED
      BY <1>6, <2>1, <2>2
  <1> HIDE DEF c
  <1>8. Contents'
    <2>1. ASSUME NEW i \in 1 .. Len(Incoming')
          PROVE  \/ /\ Push(Incoming'[i]) /\ Incoming'[i].to = 0
                    /\ \E m \in Names : Incoming'[i].names = {m} /\ subs[m] # NoCb
                 \/ Incoming'[i].kind \in {"reply", "error"} /\ Incoming'[i].to \in Waiting
      <3>1. CASE i \in 1 .. Len(Incoming)
        BY <3>1 DEF Pipeline, Contents, Subscribed, IncomingGrows
      <3>2. CASE \E k \in 1 .. Len(msgs) : i = Len(Incoming) + k
        <4>1. PICK k \in 1 .. Len(msgs) : i = Len(Incoming) + k
          BY <3>2
        <4>2. Incoming'[i] = msgs[k]
          BY <4>1 DEF IncomingGrows
        <4> QED
          BY <1>3, <1>5, <4>2 DEF Subscribed
      <3> QED
        BY <3>1, <3>2 DEF IncomingGrows
    <2> QED
      BY <1>1, <2>1 DEF Contents, Subscribed, Push
  <1>9. ASSUME NEW i \in 1 .. Len(Incoming'), i \notin 1 .. Len(Incoming)
        PROVE  Incoming'[i].to = 0
    <2>1. PICK k \in 1 .. Len(msgs) : i = Len(Incoming) + k
      BY <1>9 DEF IncomingGrows
    <2>2. Incoming'[i] = msgs[k]
      BY <2>1 DEF IncomingGrows
    <2> QED
      BY <1>3, <2>2
  <1>10. \A i \in 1 .. Len(Incoming) : \A j \in 1 .. i : Incoming'[j] = Incoming[j]
    BY <1>2 DEF IncomingGrows
  <1>11. Ordered'
    <2> SUFFICES ASSUME NEW i \in 1 .. Len(Incoming'), Incoming'[i].to # 0
                 PROVE  /\ \A j \in 1 .. i - 1 : Incoming'[j].to < Incoming'[i].to
                        /\ \A id \in Waiting : id <= Incoming'[i].to =>
                             \E j \in 1 .. i : Incoming'[j].to = id
      BY <1>1 DEF Ordered
    <2>1. i \in 1 .. Len(Incoming)
      BY <1>9
    <2>2. Incoming'[i] = Incoming[i] /\ \A j \in 1 .. i - 1 : Incoming'[j] = Incoming[j]
      BY <1>2, <1>10, <2>1
    <2>3. /\ \A j \in 1 .. i - 1 : Incoming[j].to < Incoming[i].to
          /\ \A id \in Waiting : id <= Incoming[i].to => \E j \in 1 .. i : Incoming[j].to = id
      BY <2>1, <2>2 DEF Pipeline, Ordered
    <2> QED
      BY <1>10, <2>1, <2>2, <2>3
  <1>12. Flight'
    <2>1. ASSUME NEW i \in 1 .. Len(Outgoing'), NEW j \in 1 .. Len(Incoming')
          PROVE  Incoming'[j].to < Outgoing'[i].id
      <3>1. Outgoing'[i].id \in Nat \ {0}
        BY <1>2, <1>4
      <3>2. CASE Incoming'[j].to = 0
        BY <3>1, <3>2
      <3>3. CASE Incoming'[j].to # 0
        BY <1>4, <1>9, <1>10, <3>3 DEF IncomingGrows
      <3> QED
        BY <3>2, <3>3
    <2>2. ASSUME NEW id \in Waiting
          PROVE  \/ \E i \in 1 .. Len(Incoming') : Incoming'[i].to = id
                 \/ \E i \in 1 .. Len(Outgoing') : Outgoing'[i].kind = "regular" /\ Outgoing'[i].id = id
      BY <1>6 DEF IncomingGrows
    <2> QED
      BY <1>1, <1>4, <2>1, <2>2 DEF Flight, Issued
  <1>13. MessagesLater'
    <2>1. ASSUME NEW i \in 1 .. Len(Incoming'), Push(Incoming'[i]), NEW id \in Plain
          PROVE  \E j \in 1 .. i - 1 : Incoming'[j].to = id
      <3>1. CASE i \in 1 .. Len(Incoming)
        <4>1. Incoming'[i] = Incoming[i] /\ \A j \in 1 .. i - 1 : Incoming'[j] = Incoming[j]
          BY <1>2, <1>10, <3>1
        <4> QED
          BY <2>1, <3>1, <4>1 DEF Pipeline, MessagesLater
      <3>2. CASE \E k \in 1 .. Len(msgs) : i = Len(Incoming) + k
        <4>1. PICK j \in 1 .. Len(Incoming) : Incoming[j].to = id
          BY <1>7
        <4>2. j \in 1 .. i - 1 /\ Incoming'[j] = Incoming[j]
          BY <1>2, <1>3, <3>2, <4>1 DEF IncomingGrows
        <4> QED
          BY <4>1, <4>2
      <3> QED
        BY <3>1, <3>2 DEF IncomingGrows
    <2>2. \A id \in Plain : \E j \in 1 .. Len(Incoming') : Incoming'[j].to = id
      BY <1>7 DEF IncomingGrows
    <2> QED
      BY <1>1, <1>4, <2>1, <2>2 DEF MessagesLater, Push
  <1>14. Subscriptions'
    <2>1. /\ \A n \in served' : Subscribed(n)
          /\ (\E n \in Names : Subscribed(n)) \/ invalid # <<>> => Has("subscribed")
      BY <1>5 DEF Pipeline, Subscriptions
    <2>2. ASSUME NEW n \in Names, Subscribed(n)
          PROVE  \/ n \in served'
                 \/ \E i \in 1 .. Len(Outgoing') :
                      Outgoing'[i].kind = "subscribe" /\ n \in Outgoing'[i].names
      <3>1. \/ n \in served
            \/ \E i \in 1 .. Len(Outgoing) :
                 Outgoing[i].kind = "subscribe" /\ n \in Outgoing[i].names
        BY <1>4, <2>2 DEF Pipeline, Subscriptions
      <3> QED
        BY <1>5, <3>1 DEF OutgoingShift, c
    <2> QED
      BY <1>4, <2>1, <2>2 DEF Subscriptions, Subscribed, Has
  <1>15. Unsubscribes'
    <2>1. \A i \in 1 .. Len(Incoming') : ~Unsub(Incoming'[i])
      BY <1>3, <1>4 DEF IncomingGrows
    <2> QED
      BY <1>4, <2>1 DEF Unsubscribes, Unsub
  <1> QED
    BY <1>8, <1>11, <1>12, <1>13, <1>14, <1>15 DEF Pipeline

\* The messages that confirm an UNSUBSCRIBE, with nothing behind it.
LEMMA PipelineUnsubscribed ==
  ASSUME IInv, ~Has("monitoring"), Pipeline, OutgoingShift, 1 \in 1 .. Len(Outgoing),
         Outgoing' \in Seq(Commands),
         NEW msgs, IncomingGrows(msgs), Messages("unsubscribe", Outgoing[1].names, msgs),
         Outgoing[1].names \subseteq served =>
           \A k \in 1 .. Len(msgs) :
             msgs[k].count = 0 <=> served = Outgoing[1].names /\ k = Len(msgs),
         Outgoing[1].kind = "unsubscribe", net = "up", served' = served \ Outgoing[1].names,
         UNCHANGED <<net, replies, invalid, subs, issued, flags>>
  PROVE  Pipeline'
PROOF
  <1> DEFINE c == Outgoing[1]
  <1>1. Plain' = Plain /\ Waiting' = Waiting
    BY DEF Plain, Waiting
  <1>2. /\ \A id \in Waiting : id \in Nat \ {0}
        /\ \A i \in 1 .. Len(Incoming) : Incoming[i].to \in Nat
        /\ Len(Incoming) \in Nat /\ Plain \subseteq Waiting
    BY Numbers
  <1>3. /\ \A k \in 1 .. Len(msgs) :
             /\ Push(msgs[k]) /\ Unsub(msgs[k]) /\ msgs[k].to = 0
             /\ \E n \in c.names : msgs[k].names = {n}
        /\ \A k, l \in 1 .. Len(msgs) : k # l => msgs[k].names # msgs[l].names
        /\ \A n \in c.names : \E k \in 1 .. Len(msgs) : msgs[k].names = {n}
        /\ Len(msgs) \in Nat
    BY DEF Push, Unsub, Pushes, Messages
  <1>4. /\ c \in Commands
        /\ \A j \in 1 .. Len(Incoming) : ~Unsub(Incoming[j])
    BY FirstServed
  <1>5. Len(Outgoing) = 1 /\ Len(Outgoing') = 0 /\ Outgoing' = <<>>
    <2>1. Len(Outgoing) = 1
      BY DEF Pipeline, Unsubscribes
    <2> QED
      BY <2>1, EmptySeq DEF OutgoingShift
  <1>6. c.names \subseteq Names /\ c.kind = "unsubscribe" /\ served' = served \ c.names
        /\ \A n \in c.names : Subscribed(n)
    BY <1>4 DEF Commands, Pipeline, Subscriptions
  <1>7. \A n \in Names : Subscribed(n) => n \in served
    BY <1>4, <1>5, <1>6 DEF Pipeline, Subscriptions
  <1>8. /\ c.names \subseteq served
        /\ \A k \in 1 .. Len(msgs) : msgs[k].count = 0 <=> served = c.names /\ k = Len(msgs)
    BY <1>6, <1>7
  <1>9. \A id \in Waiting : \E i \in 1 .. Len(Incoming) : Incoming[i].to = id
    BY <1>5, <1>6 DEF Pipeline, Flight
  <1> HIDE DEF c
  <1>10. Contents'
    <2>1. ASSUME NEW i \in 1 .. Len(Incoming')
          PROVE  \/ /\ Push(Incoming'[i]) /\ Incoming'[i].to = 0
                    /\ \E m \in Names : Incoming'[i].names = {m} /\ subs[m] # NoCb
                 \/ Incoming'[i].kind \in {"reply", "error"} /\ Incoming'[i].to \in Waiting
      <3>1. CASE i \in 1 .. Len(Incoming)
        BY <3>1 DEF Pipeline, Contents, Subscribed, IncomingGrows
      <3>2. CASE \E k \in 1 .. Len(msgs) : i = Len(Incoming) + k
        <4>1. PICK k \in 1 .. Len(msgs) : i = Len(Incoming) + k
          BY <3>2
        <4>2. Incoming'[i] = msgs[k]
          BY <4>1 DEF IncomingGrows
        <4> QED
          BY <1>3, <1>6, <4>2 DEF Subscribed
      <3> QED
        BY <3>1, <3>2 DEF IncomingGrows
    <2> QED
      BY <1>1, <2>1 DEF Contents, Subscribed, Push
  <1>11. ASSUME NEW i \in 1 .. Len(Incoming'), i \notin 1 .. Len(Incoming)
         PROVE  Incoming'[i].to = 0
    <2>1. PICK k \in 1 .. Len(msgs) : i = Len(Incoming) + k
      BY <1>11 DEF IncomingGrows
    <2>2. Incoming'[i] = msgs[k]
      BY <2>1 DEF IncomingGrows
    <2> QED
      BY <1>3, <2>2
  <1>12. \A i \in 1 .. Len(Incoming) : \A j \in 1 .. i : Incoming'[j] = Incoming[j]
    BY <1>2 DEF IncomingGrows
  <1>13. Ordered'
    <2> SUFFICES ASSUME NEW i \in 1 .. Len(Incoming'), Incoming'[i].to # 0
                 PROVE  /\ \A j \in 1 .. i - 1 : Incoming'[j].to < Incoming'[i].to
                        /\ \A id \in Waiting : id <= Incoming'[i].to =>
                             \E j \in 1 .. i : Incoming'[j].to = id
      BY <1>1 DEF Ordered
    <2>1. i \in 1 .. Len(Incoming)
      BY <1>11
    <2>2. Incoming'[i] = Incoming[i] /\ \A j \in 1 .. i - 1 : Incoming'[j] = Incoming[j]
      BY <1>2, <1>12, <2>1
    <2>3. /\ \A j \in 1 .. i - 1 : Incoming[j].to < Incoming[i].to
          /\ \A id \in Waiting : id <= Incoming[i].to => \E j \in 1 .. i : Incoming[j].to = id
      BY <2>1, <2>2 DEF Pipeline, Ordered
    <2> QED
      BY <1>12, <2>1, <2>2, <2>3
  <1>14. Flight'
    BY <1>1, <1>5, <1>9 DEF Flight, IncomingGrows
  \* A confirmation comes after all the replies.
  <1>15. ASSUME NEW i \in 1 .. Len(Incoming'), NEW k \in 1 .. Len(msgs), i = Len(Incoming) + k,
                NEW id \in Waiting
         PROVE  \E j \in 1 .. i - 1 : Incoming'[j].to = id
    <2>1. PICK j \in 1 .. Len(Incoming) : Incoming[j].to = id
      BY <1>9
    <2>2. j \in 1 .. i - 1 /\ Incoming'[j] = Incoming[j]
      BY <1>2, <1>3, <1>15, <2>1 DEF IncomingGrows
    <2> QED
      BY <2>1, <2>2
  <1>16. MessagesLater'
    <2>1. ASSUME NEW i \in 1 .. Len(Incoming'), Push(Incoming'[i]), NEW id \in Plain
          PROVE  \E j \in 1 .. i - 1 : Incoming'[j].to = id
      <3>1. CASE i \in 1 .. Len(Incoming)
        <4>1. Incoming'[i] = Incoming[i] /\ \A j \in 1 .. i - 1 : Incoming'[j] = Incoming[j]
          BY <1>2, <1>12, <3>1
        <4> QED
          BY <2>1, <3>1, <4>1 DEF Pipeline, MessagesLater
      <3>2. CASE \E k \in 1 .. Len(msgs) : i = Len(Incoming) + k
        BY <1>2, <1>15, <3>2
      <3> QED
        BY <3>1, <3>2 DEF IncomingGrows
    <2>2. \A id \in Plain : \E j \in 1 .. Len(Incoming') : Incoming'[j].to = id
      BY <1>2, <1>9 DEF IncomingGrows
    <2> QED
      BY <1>1, <1>5, <2>1, <2>2 DEF MessagesLater, Push
  <1>17. \A n \in c.names :
           \E i \in 1 .. Len(Incoming') : Unsub(Incoming'[i]) /\ n \in Incoming'[i].names
    <2> SUFFICES ASSUME NEW n \in c.names
                 PROVE  \E i \in 1 .. Len(Incoming') : Unsub(Incoming'[i]) /\ n \in Incoming'[i].names
      OBVIOUS
    <2>1. PICK k \in 1 .. Len(msgs) : msgs[k].names = {n}
      BY <1>3
    <2>2. Incoming'[Len(Incoming) + k] = msgs[k] /\ Len(Incoming) + k \in 1 .. Len(Incoming')
      BY DEF IncomingGrows
    <2> QED
      BY <1>3, <2>1, <2>2
  <1>18. Subscriptions'
    <2>1. /\ \A n \in served' : Subscribed(n)
          /\ (\E n \in Names : Subscribed(n)) \/ invalid # <<>> => Has("subscribed")
      BY <1>6 DEF Pipeline, Subscriptions
    <2>2. \A n \in Names : Subscribed(n) => n \in served' \/ n \in c.names
      BY <1>6, <1>7
    <2> QED
      BY <1>5, <1>17, <2>1, <2>2 DEF Subscriptions, Subscribed, Has, Unsub
  <1>19. Unsubscribes'
    <2>1. ASSUME NEW i \in 1 .. Len(Incoming'), Unsub(Incoming'[i])
          PROVE  /\ \A id \in Waiting : \E j \in 1 .. i - 1 : Incoming'[j].to = id
                 /\ \A m \in Names : Subscribed(m) =>
                      m \in served' \/ \E j \in 1 .. Len(Incoming') :
                                         Unsub(Incoming'[j]) /\ m \in Incoming'[j].names
                 /\ Incoming'[i].names \cap served' = {}
                 /\ \A j \in i + 1 .. Len(Incoming') :
                      Push(Incoming'[j]) => Incoming'[j].names # Incoming'[i].names
                 /\ Incoming'[i].count = 0 <=>
                      served' = {} /\ \A j \in i + 1 .. Len(Incoming') : ~Unsub(Incoming'[j])
      <3>1. PICK k \in 1 .. Len(msgs) : i = Len(Incoming) + k
        BY <1>4, <2>1 DEF IncomingGrows
      <3>2. Incoming'[i] = msgs[k]
        BY <3>1 DEF IncomingGrows
      <3>3. ASSUME NEW j \in i + 1 .. Len(Incoming')
            PROVE  \E l \in k + 1 .. Len(msgs) : j = Len(Incoming) + l /\ Incoming'[j] = msgs[l]
        <4>1. j \in 1 .. Len(Incoming') /\ j \notin 1 .. Len(Incoming)
          BY <1>2, <3>1
        <4>2. PICK l \in 1 .. Len(msgs) : j = Len(Incoming) + l
          BY <4>1 DEF IncomingGrows
        <4>3. Incoming'[j] = msgs[l]
          BY <4>2 DEF IncomingGrows
        <4>4. l \in k + 1 .. Len(msgs)
          BY <1>2, <1>3, <3>1, <4>2
        <4> QED
          BY <4>2, <4>3, <4>4
      <3>4. \A j \in i + 1 .. Len(Incoming') : Incoming'[j].names # Incoming'[i].names
        <4> SUFFICES ASSUME NEW j \in i + 1 .. Len(Incoming')
                     PROVE  Incoming'[j].names # Incoming'[i].names
          OBVIOUS
        <4>1. PICK l \in k + 1 .. Len(msgs) : Incoming'[j] = msgs[l]
          BY <3>3
        <4>2. l \in 1 .. Len(msgs) /\ l # k
          BY <1>3
        <4> QED
          BY <1>3, <3>2, <4>1, <4>2
      <3>5. (\A j \in i + 1 .. Len(Incoming') : ~Unsub(Incoming'[j])) <=> k = Len(msgs)
        <4>1. CASE k = Len(msgs)
          BY <1>3, <3>3, <4>1
        <4>2. CASE k # Len(msgs)
          <5>1. k + 1 \in 1 .. Len(msgs)
            BY <1>3, <4>2
          <5>2. Incoming'[Len(Incoming) + (k + 1)] = msgs[k + 1]
                /\ Len(Incoming) + (k + 1) \in 1 .. Len(Incoming')
            BY <5>1 DEF IncomingGrows
          <5>3. Len(Incoming) + (k + 1) \in i + 1 .. Len(Incoming')
            BY <1>2, <3>1, <5>2
          <5> QED
            BY <1>3, <4>2, <5>1, <5>2, <5>3
        <4> QED
          BY <4>1, <4>2
      <3>6. served' = {} <=> served = c.names
        BY <1>6, <1>8
      <3>7. Incoming'[i].names \cap served' = {}
        <4>1. PICK n \in c.names : msgs[k].names = {n}
          BY <1>3
        <4> QED
          BY <1>6, <3>2, <4>1
      <3>8. Incoming'[i].count = 0 <=>
              served' = {} /\ \A j \in i + 1 .. Len(Incoming') : ~Unsub(Incoming'[j])
        BY <1>8, <3>2, <3>5, <3>6
      <3>9. \A m \in Names : Subscribed(m) =>
              m \in served' \/ \E j \in 1 .. Len(Incoming') :
                                 Unsub(Incoming'[j]) /\ m \in Incoming'[j].names
        BY <1>6, <1>7, <1>17
      <3> QED
        BY <1>15, <3>1, <3>4, <3>7, <3>8, <3>9
    <2> QED
      BY <1>1, <1>5, <2>1 DEF Unsubscribes, Subscribed, Unsub, Push
  <1> QED
    BY <1>10, <1>13, <1>14, <1>16, <1>18, <1>19 DEF Pipeline

\* A command is accepted only when no UNSUBSCRIBE is under way.
LEMMA NoneUnsubscribes ==
  ASSUME QueueType, ~Unsubscribing
  PROVE  /\ \A i \in 1 .. Len(Incoming) : ~Unsub(Incoming[i])
         /\ \A i \in 1 .. Len(Outgoing) : Outgoing[i].kind # "unsubscribe"
PROOF
  <1>1. /\ Len(rbuf) \in Nat /\ Len(wire) \in Nat /\ Len(toServer) \in Nat /\ Len(obuf) \in Nat
    BY LenProperties DEF QueueType
  <1>2. /\ Len(Incoming) = Len(rbuf) + Len(wire) /\ Len(Outgoing) = Len(toServer) + Len(obuf)
        /\ \A i \in 1 .. Len(rbuf) : Incoming[i] = rbuf[i]
        /\ \A i \in 1 .. Len(wire) : Incoming[Len(rbuf) + i] = wire[i]
        /\ \A i \in 1 .. Len(toServer) : Outgoing[i] = toServer[i]
        /\ \A i \in 1 .. Len(obuf) : Outgoing[Len(toServer) + i] = obuf[i]
    BY StreamType
  <1>3. ASSUME NEW i \in 1 .. Len(Incoming)
        PROVE  ~Unsub(Incoming[i])
    <2>1. CASE i \in 1 .. Len(rbuf)
      BY <1>2, <2>1 DEF Unsubscribing, Unsub
    <2>2. CASE i \notin 1 .. Len(rbuf)
      <3>1. i - Len(rbuf) \in 1 .. Len(wire) /\ Len(rbuf) + (i - Len(rbuf)) = i
        BY <1>1, <1>2, <2>2
      <3>2. Incoming[i] = wire[i - Len(rbuf)]
        BY <1>2, <3>1
      <3> QED
        BY <3>1, <3>2 DEF Unsubscribing, Unsub
    <2> QED
      BY <2>1, <2>2
  <1>4. ASSUME NEW i \in 1 .. Len(Outgoing)
        PROVE  Outgoing[i].kind # "unsubscribe"
    <2>1. CASE i \in 1 .. Len(toServer)
      BY <1>2, <2>1 DEF Unsubscribing
    <2>2. CASE i \notin 1 .. Len(toServer)
      <3>1. i - Len(toServer) \in 1 .. Len(obuf) /\ Len(toServer) + (i - Len(toServer)) = i
        BY <1>1, <1>2, <2>2
      <3>2. Outgoing[i] = obuf[i - Len(toServer)]
        BY <1>2, <3>1
      <3> QED
        BY <3>1, <3>2 DEF Unsubscribing
    <2> QED
      BY <2>1, <2>2
  <1> QED
    BY <1>3, <1>4

\* A command is added at the end of what goes to the server.
LEMMA PipelineCommand ==
  ASSUME IInv, ~Has("monitoring"), Pipeline, NEW c \in Commands, OutgoingAppends(c),
         Incoming' = Incoming, UNCHANGED <<net, served>>,
         c.id = Len(issued) + 1, Len(issued') = Len(issued) + 1, c.kind # "monitor",
         \A i \in 1 .. Len(Incoming) : ~Unsub(Incoming[i]),
         \A i \in 1 .. Len(Outgoing) : Outgoing[i].kind # "unsubscribe",
         \A id : id \in Waiting' <=> id \in Waiting \/ (c.kind = "regular" /\ id = c.id),
         \A id : id \in Plain' <=> id \in Plain
                   \/ (c.kind = "regular" /\ id = c.id /\ ~Has("subscribed")),
         \A n \in Names : subs'[n] # NoCb <=> Subscribed(n) \/ (c.kind = "subscribe" /\ n \in c.names),
         c.kind \in {"subscribe", "unsubscribe"} => c.names # {},
         c.kind = "unsubscribe" => \A n \in c.names : Subscribed(n),
         "subscribed" \in flags' <=> Has("subscribed") \/ c.kind = "subscribe",
         invalid' # <<>> => invalid # <<>> \/ Has("subscribed")
  PROVE  Pipeline'
PROOF
  <1> DEFINE still(n) == subs'[n] # NoCb
  <1>1. /\ \A id \in Waiting : id \in Nat \ {0} /\ id \in 1 .. Len(issued)
        /\ \A i \in 1 .. Len(Incoming) : Incoming[i].to \in Nat
        /\ \A i \in 1 .. Len(Outgoing) : Outgoing[i].id \in Nat \ {0}
        /\ Len(Incoming) \in Nat /\ Len(issued) \in Nat /\ Plain \subseteq Waiting
        /\ Len(Outgoing) \in Nat
    BY Numbers
  <1>2. /\ c.names \subseteq Names /\ c.id \in Nat
        /\ \A id \in Waiting : id < c.id
    BY <1>1 DEF Commands
  <1>3. /\ \A id \in Waiting : id \in Waiting'
        /\ \A id \in Waiting' : id \in Waiting \/ (c.kind = "regular" /\ id = c.id)
        /\ c.kind = "regular" => c.id \in Waiting'
    OBVIOUS
  <1>4. Has("subscribed") => \A id \in Plain' : id \in Plain
    OBVIOUS
  <1>5. \A n \in Names : still(n) <=> Subscribed(n) \/ (c.kind = "subscribe" /\ n \in c.names)
    OBVIOUS
  <1>6. \A i \in 1 .. Len(Incoming) : Incoming[i].to < c.id
    BY <1>1, <1>2 DEF Pipeline, Contents, Rejection
  <1>7. /\ served \subseteq Names
        /\ served # {} => Has("subscribed")
        /\ \A n \in Names : Subscribed(n) => Has("subscribed")
    BY Numbers DEF Pipeline, Subscriptions, NetType
  <1>8. \A i \in 1 .. Len(Outgoing) : Outgoing[i].names \subseteq Names
    BY Numbers DEF Commands
  <1> HIDE DEF still
  <1>9. Contents'
    <2>1. ASSUME NEW i \in 1 .. Len(Incoming)
          PROVE  \/ /\ Push(Incoming[i]) /\ Incoming[i].to = 0
                    /\ \E n \in Names : Incoming[i].names = {n} /\ still(n)
                 \/ Incoming[i].kind \in {"reply", "error"} /\ Incoming[i].to \in Waiting'
                 \/ Rejection(Incoming[i]) /\ net = "closed" /\ Len(Incoming) = 1
      BY <1>3, <1>5 DEF Pipeline, Contents
    <2>2. net = "pending" => Incoming = <<>> /\ served = {}
      BY DEF Pipeline, Contents
    <2> QED
      BY <2>1, <2>2 DEF Contents, Subscribed, still, Push, Rejection
  <1>10. Ordered'
    <2> SUFFICES ASSUME NEW i \in 1 .. Len(Incoming), Incoming[i].to # 0
                 PROVE  /\ \A j \in 1 .. i - 1 : Incoming[j].to < Incoming[i].to
                        /\ \A id \in Waiting' : id <= Incoming[i].to =>
                             \E j \in 1 .. i : Incoming[j].to = id
      BY DEF Ordered
    <2>1. /\ \A j \in 1 .. i - 1 : Incoming[j].to < Incoming[i].to
          /\ \A id \in Waiting : id <= Incoming[i].to => \E j \in 1 .. i : Incoming[j].to = id
      BY DEF Pipeline, Ordered
    <2>2. ~(c.id <= Incoming[i].to)
      BY <1>1, <1>2, <1>6
    <2> QED
      BY <1>3, <2>1, <2>2
  <1>11. Flight'
    <2> SUFFICES ASSUME net # "closed"
                 PROVE  Flight'
      BY DEF Flight
    <2>1. /\ \A i \in 1 .. Len(Outgoing) :
               LET d == Outgoing[i] IN
               /\ Issued(d.id) /\ d.kind # "monitor"
               /\ d.kind = "regular" => d.id \in Waiting
               /\ \A j \in 1 .. i - 1 : Outgoing[j].id < d.id
               /\ \A j \in 1 .. Len(Incoming) : Incoming[j].to < d.id
          /\ \A id \in Waiting :
               \/ \E i \in 1 .. Len(Incoming) : Incoming[i].to = id
               \/ \E i \in 1 .. Len(Outgoing) : Outgoing[i].kind = "regular" /\ Outgoing[i].id = id
      BY DEF Pipeline, Flight
    <2>2. \A i \in 1 .. Len(Outgoing) : Outgoing[i].id < c.id
      BY <1>1, <2>1 DEF Issued
    <2>3. ASSUME NEW i \in 1 .. Len(Outgoing')
          PROVE  LET d == Outgoing'[i] IN
                 /\ d.id \in 1 .. Len(issued') /\ d.kind # "monitor"
                 /\ d.kind = "regular" => d.id \in Waiting'
                 /\ \A j \in 1 .. i - 1 : Outgoing'[j].id < d.id
                 /\ \A j \in 1 .. Len(Incoming) : Incoming[j].to < d.id
      <3>1. CASE i \in 1 .. Len(Outgoing)
        <4>1. Outgoing'[i] = Outgoing[i] /\ \A j \in 1 .. i - 1 : Outgoing'[j] = Outgoing[j]
          BY <1>1, <3>1 DEF OutgoingAppends
        <4>2. Outgoing[i].id \in 1 .. Len(issued')
          BY <1>1, <2>1, <3>1 DEF Issued
        <4> QED
          BY <1>3, <2>1, <3>1, <4>1, <4>2
      <3>2. CASE i = Len(Outgoing) + 1
        <4>1. Outgoing'[i] = c
              /\ \A j \in 1 .. i - 1 : j \in 1 .. Len(Outgoing) /\ Outgoing'[j] = Outgoing[j]
          BY <1>1, <3>2 DEF OutgoingAppends
        <4>2. c.id \in 1 .. Len(issued')
          BY <1>1
        <4> QED
          BY <1>3, <1>6, <2>2, <4>1, <4>2
      <3> QED
        BY <3>1, <3>2 DEF OutgoingAppends
    <2>4. ASSUME NEW id \in Waiting'
          PROVE  \/ \E i \in 1 .. Len(Incoming) : Incoming[i].to = id
                 \/ \E i \in 1 .. Len(Outgoing') : Outgoing'[i].kind = "regular" /\ Outgoing'[i].id = id
      BY <1>3, <2>1 DEF OutgoingAppends
    <2> QED
      BY <2>3, <2>4 DEF Flight, Issued
  <1>12. MessagesLater'
    <2>1. ASSUME NEW i \in 1 .. Len(Incoming), Push(Incoming[i]), NEW id \in Plain'
          PROVE  \E j \in 1 .. i - 1 : Incoming[j].to = id
      <3>1. Has("subscribed")
        <4>1. Incoming[i].kind \notin {"reply", "error"}
          BY <2>1 DEF Push, Pushes
        <4> QED
          BY <1>7, <4>1 DEF Pipeline, Contents, Rejection
      <3> QED
        BY <1>4, <2>1, <3>1 DEF Pipeline, MessagesLater
    <2>2. ASSUME net # "closed", NEW i \in 1 .. Len(Outgoing'), Outgoing'[i].kind = "subscribe",
                 NEW id \in Plain'
          PROVE  id < Outgoing'[i].id
      <3>1. CASE i \in 1 .. Len(Outgoing)
        <4>1. Outgoing'[i] = Outgoing[i]
          BY <3>1 DEF OutgoingAppends
        <4>2. Outgoing[i].names # {} /\ \A n \in Outgoing[i].names : Subscribed(n)
          BY <2>2, <3>1, <4>1 DEF Pipeline, Subscriptions
        <4>3. Has("subscribed")
          BY <1>7, <1>8, <3>1, <4>2
        <4> QED
          BY <1>4, <2>2, <3>1, <4>1, <4>3 DEF Pipeline, MessagesLater
      <3>2. CASE i = Len(Outgoing) + 1
        <4>1. Outgoing'[i] = c /\ id \in Plain
          BY <2>2, <3>2 DEF OutgoingAppends
        <4> QED
          BY <1>1, <1>2, <4>1
      <3> QED
        BY <3>1, <3>2 DEF OutgoingAppends
    <2>3. net # "closed" /\ served # {} =>
            \A id \in Plain' : \E j \in 1 .. Len(Incoming) : Incoming[j].to = id
      BY <1>4, <1>7 DEF Pipeline, MessagesLater
    <2> QED
      BY <2>1, <2>2, <2>3 DEF MessagesLater, Push
  <1>13. Subscriptions'
    <2>1. /\ \A n \in served : still(n)
          /\ (\E n \in Names : still(n)) \/ invalid' # <<>> => "subscribed" \in flags'
      <3>1. \A n \in served : still(n)
        BY <1>5, <1>7 DEF Pipeline, Subscriptions
      <3>2. invalid # <<>> => Has("subscribed")
        BY DEF Pipeline, Subscriptions
      <3> QED
        BY <1>5, <1>7, <3>1, <3>2
    <2>2. ASSUME net # "closed", NEW i \in 1 .. Len(Outgoing'),
                 Outgoing'[i].kind \in {"subscribe", "unsubscribe"}
          PROVE  Outgoing'[i].names # {} /\ \A n \in Outgoing'[i].names : still(n)
      <3>1. CASE i \in 1 .. Len(Outgoing)
        <4>1. Outgoing'[i] = Outgoing[i]
          BY <3>1 DEF OutgoingAppends
        <4>2. Outgoing[i].names # {} /\ \A n \in Outgoing[i].names : Subscribed(n)
          BY <2>2, <3>1, <4>1 DEF Pipeline, Subscriptions
        <4> QED
          BY <1>5, <1>8, <3>1, <4>1, <4>2
      <3>2. CASE i = Len(Outgoing) + 1
        <4>1. Outgoing'[i] = c
          BY <3>2 DEF OutgoingAppends
        <4> QED
          BY <1>2, <1>5, <2>2, <4>1
      <3> QED
        BY <3>1, <3>2 DEF OutgoingAppends
    <2>3. ASSUME net # "closed", NEW n \in Names, still(n)
          PROVE  \/ n \in served
                 \/ \E i \in 1 .. Len(Outgoing') :
                      Outgoing'[i].kind = "subscribe" /\ n \in Outgoing'[i].names
      <3>1. CASE Subscribed(n)
        <4>1. \/ n \in served
              \/ \E i \in 1 .. Len(Outgoing) :
                   Outgoing[i].kind = "subscribe" /\ n \in Outgoing[i].names
          BY <2>3, <3>1 DEF Pipeline, Subscriptions
        <4> QED
          BY <4>1 DEF OutgoingAppends
      <3>2. CASE c.kind = "subscribe" /\ n \in c.names
        BY <3>2 DEF OutgoingAppends
      <3> QED
        BY <1>5, <2>3, <3>1, <3>2
    <2> QED
      BY <2>1, <2>2, <2>3 DEF Subscriptions, Subscribed, Has, still
  <1>14. Unsubscribes'
    <2>1. \A i \in 1 .. Len(Outgoing') : Outgoing'[i].kind = "unsubscribe" => i = Len(Outgoing')
      BY DEF OutgoingAppends
    <2> QED
      BY <2>1 DEF Unsubscribes, Unsub
  <1> QED
    BY <1>9, <1>10, <1>11, <1>12, <1>13, <1>14 DEF Pipeline

-----------------------------------------------------------------------------
(* The steps of the context and of the server, one by one.                   *)

\* What is worked off waits no longer, and all the others do.
LEMMA WorkedOff ==
  ASSUME ListType, Lists
  PROVE  /\ replies # <<>> /\ replies' = Tail(replies) /\ invalid' = invalid =>
              /\ \A id \in Plain' : id \in Plain /\ id # Head(replies)
              /\ \A id : id \in Waiting' <=> id \in Waiting /\ id # Head(replies)
         /\ replies = <<>> /\ replies' = replies /\ invalid # <<>> /\ invalid' = Tail(invalid) =>
              /\ \A id \in Plain' : id \in Plain /\ id # Head(invalid)
              /\ \A id : id \in Waiting' <=> id \in Waiting /\ id # Head(invalid)
PROOF
  <1>1. /\ replies \in Seq(Ids \cup {NoCb}) /\ invalid \in Seq(Ids \cup {NoCb})
        /\ Len(replies) \in Nat /\ Len(invalid) \in Nat
    BY LenProperties DEF ListType
  <1>2. /\ \A i \in 1 .. Len(replies) : replies[i] \in Nat
        /\ \A i \in 1 .. Len(invalid) : invalid[i] \in Nat
    BY FirstWaiting DEF Waiting, Plain
  <1>3. ASSUME replies # <<>>, replies' = Tail(replies), invalid' = invalid
        PROVE  /\ \A id \in Plain' : id \in Plain /\ id # Head(replies)
               /\ \A id : id \in Waiting' <=> id \in Waiting /\ id # Head(replies)
    <2>1. /\ Len(replies') = Len(replies) - 1 /\ Len(replies) \in Nat \ {0} /\ Head(replies) = replies[1]
          /\ \A i \in 1 .. Len(replies') : replies'[i] = replies[i + 1] /\ i + 1 \in 1 .. Len(replies)
          /\ \A j \in 1 .. Len(replies) :
               j = 1 \/ (j - 1 \in 1 .. Len(replies') /\ replies'[j - 1] = replies[j])
      BY <1>1, <1>3, ElementsOfTail
    <2>2. \A i \in 1 .. Len(replies') : replies[1] < replies[i + 1]
      <3> SUFFICES ASSUME NEW i \in 1 .. Len(replies')
                   PROVE  replies[1] < replies[i + 1]
        OBVIOUS
      <3>1. 1 \in 1 .. Len(replies) /\ i + 1 \in 1 .. Len(replies) /\ 1 < i + 1
        BY <2>1
      <3> QED
        BY <3>1 DEF Lists
    <2>3. \A id : id \in Plain' <=> id \in Plain /\ id # Head(replies)
      <3>1. ASSUME NEW id \in Plain'
            PROVE  id \in Plain /\ id # Head(replies)
        <4>1. PICK i \in 1 .. Len(replies') : replies'[i] = id
          BY DEF Plain
        <4>2. id = replies[i + 1] /\ i + 1 \in 1 .. Len(replies) /\ replies[1] < replies[i + 1]
          BY <2>1, <2>2, <4>1
        <4>3. replies[1] \in Nat /\ replies[i + 1] \in Nat
          BY <1>2, <2>1, <4>2
        <4> QED
          BY <2>1, <4>2, <4>3 DEF Plain
      <3>2. ASSUME NEW id \in Plain, id # Head(replies)
            PROVE  id \in Plain'
        <4>1. PICK j \in 1 .. Len(replies) : replies[j] = id
          BY DEF Plain
        <4> QED
          BY <2>1, <3>2, <4>1 DEF Plain
      <3> QED
        BY <3>1, <3>2
    <2>4. \A i \in 1 .. Len(invalid) : invalid[i] # Head(replies)
      <3> SUFFICES ASSUME NEW i \in 1 .. Len(invalid)
                   PROVE  invalid[i] # Head(replies)
        OBVIOUS
      <3>1. 1 \in 1 .. Len(replies) /\ replies[1] < invalid[i]
        BY <2>1 DEF Lists
      <3> QED
        BY <1>2, <2>1, <3>1
    <2> QED
      BY <1>3, <2>3, <2>4 DEF Waiting
  <1>4. ASSUME replies = <<>>, replies' = replies, invalid # <<>>, invalid' = Tail(invalid)
        PROVE  /\ \A id \in Plain' : id \in Plain /\ id # Head(invalid)
               /\ \A id : id \in Waiting' <=> id \in Waiting /\ id # Head(invalid)
    <2>1. /\ Len(invalid') = Len(invalid) - 1 /\ Len(invalid) \in Nat \ {0} /\ Head(invalid) = invalid[1]
          /\ \A i \in 1 .. Len(invalid') : invalid'[i] = invalid[i + 1] /\ i + 1 \in 1 .. Len(invalid)
          /\ \A j \in 1 .. Len(invalid) :
               j = 1 \/ (j - 1 \in 1 .. Len(invalid') /\ invalid'[j - 1] = invalid[j])
      BY <1>1, <1>4, ElementsOfTail
    <2>2. Plain = {} /\ Plain' = {}
      <3>1. Len(replies) = 0 /\ Len(replies') = 0
        BY <1>1, <1>4, EmptySeq
      <3> QED
        BY <3>1 DEF Plain
    <2>3. \A i \in 1 .. Len(invalid') : invalid[1] < invalid[i + 1]
      <3> SUFFICES ASSUME NEW i \in 1 .. Len(invalid')
                   PROVE  invalid[1] < invalid[i + 1]
        OBVIOUS
      <3>1. 1 \in 1 .. Len(invalid) /\ i + 1 \in 1 .. Len(invalid) /\ 1 < i + 1
        BY <2>1
      <3> QED
        BY <3>1 DEF Lists
    <2>4. ASSUME NEW id \in Waiting'
          PROVE  id \in Waiting /\ id # Head(invalid)
      <3>1. PICK i \in 1 .. Len(invalid') : invalid'[i] = id
        BY <2>2 DEF Waiting
      <3>2. id = invalid[i + 1] /\ i + 1 \in 1 .. Len(invalid) /\ invalid[1] < invalid[i + 1]
        BY <2>1, <2>3, <3>1
      <3>3. invalid[1] \in Nat /\ invalid[i + 1] \in Nat
        BY <1>2, <2>1, <3>2
      <3> QED
        BY <2>1, <3>2, <3>3 DEF Waiting
    <2>5. ASSUME NEW id \in Waiting, id # Head(invalid)
          PROVE  id \in Waiting'
      <3>1. PICK j \in 1 .. Len(invalid) : invalid[j] = id
        BY <2>2 DEF Waiting
      <3> QED
        BY <2>1, <2>5, <3>1 DEF Waiting
    <2> QED
      BY <2>2, <2>4, <2>5
  <1> QED
    BY <1>3, <1>4

LEMMA PendingPipeline ==
  ASSUME IInv, ~Has("monitoring"), Pipeline, ProcessPending
  PROVE  Pipeline'
PROOF
  <1>1. /\ pc = "process" /\ rbuf # <<>> /\ replies # <<>>
        /\ replies' = Tail(replies) /\ rbuf' = Tail(rbuf)
        /\ UNCHANGED <<invalid, subs, obuf, toServer, net, wire, served, issued>>
    BY PendingEffect DEF server
  <1>2. QueueType /\ ListType /\ Lists
    BY DEF IInv, Types
  <1>3. IncomingShift /\ Head(rbuf) = Incoming[1] /\ 1 \in 1 .. Len(Incoming)
    BY <1>1, <1>2, ShiftsIncoming
  <1>4. Outgoing' = Outgoing
    BY <1>1 DEF Outgoing
  <1>5. /\ Incoming[1].to = Head(replies) \/ (Rejection(Incoming[1]) /\ net = "closed" /\ Len(Incoming) = 1)
        /\ Incoming[1].kind \in {"reply", "error"}
        /\ "subscribed" \in flags' <=> Has("subscribed")
    BY <1>3, PendingOwn DEF Delivers, Has
  <1>6. CASE Incoming[1].to = Head(replies)
    <2>1. /\ \A id \in Plain' : id \in Plain /\ id # Incoming[1].to
          /\ \A id : id \in Waiting' <=> id \in Waiting /\ id # Incoming[1].to
      BY <1>1, <1>2, <1>6, WorkedOff
    <2>2. Incoming[1].to \in Waiting
      BY <1>1, <1>2, <1>6, WaitingHeads
    <2> QED
      BY <1>1, <1>3, <1>4, <1>5, <2>1, <2>2, PipelineReply
  <1>7. CASE Rejection(Incoming[1]) /\ net = "closed" /\ Len(Incoming) = 1
    <2>1. Len(Incoming') = 0
      BY <1>3, <1>7 DEF IncomingShift
    <2> QED
      BY <1>1, <1>5, <1>7, <2>1, PipelineClosed
  <1> QED
    BY <1>5, <1>6, <1>7

LEMMA OtherPipeline ==
  ASSUME IInv, ~Has("monitoring"), Pipeline, ProcessOther
  PROVE  Pipeline'
PROOF
  <1>1. /\ pc = "process" /\ rbuf # <<>> /\ replies = <<>> /\ rbuf' = Tail(rbuf)
        /\ UNCHANGED <<replies, subs, obuf, toServer, net, wire, served, issued>>
    BY OtherEffect DEF server
  <1>2. QueueType /\ ListType /\ Lists
    BY DEF IInv, Types
  <1>3. IncomingShift /\ Head(rbuf) = Incoming[1] /\ 1 \in 1 .. Len(Incoming)
    BY <1>1, <1>2, ShiftsIncoming
  <1>4. Outgoing' = Outgoing
    BY <1>1 DEF Outgoing
  <1>5. /\ Incoming[1].to = Head(invalid) /\ invalid # <<>> /\ invalid' = Tail(invalid)
        /\ Incoming[1].kind \in {"reply", "error"}
        /\ "subscribed" \in flags' <=> Has("subscribed")
    BY <1>3, OtherOwn DEF Delivers, Has
  <1>6. /\ \A id \in Plain' : id \in Plain /\ id # Incoming[1].to
        /\ \A id : id \in Waiting' <=> id \in Waiting /\ id # Incoming[1].to
        /\ Incoming[1].to \in Waiting
    BY <1>1, <1>2, <1>5, WorkedOff, WaitingHeads
  <1> QED
    BY <1>1, <1>3, <1>4, <1>5, <1>6, PipelineReply

LEMMA MessagePipeline ==
  ASSUME IInv, ~Has("monitoring"), Pipeline, ProcessMessage
  PROVE  Pipeline'
PROOF
  <1>1. /\ rbuf # <<>> /\ rbuf' = Tail(rbuf) /\ Push(Head(rbuf)) /\ Head(rbuf).to = 0
        /\ UNCHANGED <<replies, invalid, obuf, toServer, net, wire, served, issued>>
        /\ Unsub(Head(rbuf)) => invalid = <<>>
        /\ Has("subscribed")
    BY MessageEffect DEF server
  <1>2. PICK n \in Names :
          /\ Head(rbuf).names = {n}
          /\ \/ /\ Unsub(Head(rbuf)) /\ subs' = [subs EXCEPT ![n] = NoCb]
                /\ flags' = (IF Head(rbuf).count = 0 THEN flags \ {"subscribed"} ELSE flags)
                              \cup Mark(n)
             \/ ~Unsub(Head(rbuf)) /\ subs' = subs /\ flags' = flags \cup Mark(n)
    BY MessageEffect
  <1>3. QueueType
    BY DEF IInv, Types
  <1>4. IncomingShift /\ Head(rbuf) = Incoming[1] /\ 1 \in 1 .. Len(Incoming)
    BY <1>1, <1>3, ShiftsIncoming
  <1>5. Outgoing' = Outgoing
    BY <1>1 DEF Outgoing
  <1>6. \/ ~Unsub(Incoming[1]) /\ subs' = subs /\ ("subscribed" \in flags' <=> Has("subscribed"))
        \/ /\ Unsub(Incoming[1]) /\ subs' = [subs EXCEPT ![n] = NoCb]
           /\ "subscribed" \in flags' <=> Has("subscribed") /\ Incoming[1].count # 0
    BY <1>1, <1>2, <1>4 DEF Mark, Has
  <1> QED
    BY <1>1, <1>2, <1>4, <1>5, <1>6, PipelineMessage

LEMMA AnswerPipeline ==
  ASSUME IInv, ~Has("monitoring"), Pipeline, ServerReplies, Types'
  PROVE  Pipeline'
PROOF
  <1> DEFINE c == Head(toServer)
  <1>1. QueueType /\ NetType /\ QueueType'
    BY DEF IInv, Types
  <1>2. /\ net = "up" /\ net' = "up" /\ toServer # <<>> /\ toServer' = Tail(toServer)
        /\ UNCHANGED <<replies, invalid, subs, issued, flags, obuf, rbuf>>
        /\ \/ /\ c.kind = "subscribe" /\ served' = served \cup c.names
              /\ \E msgs \in Seq(Replies) :
                   wire' = wire \o msgs /\ Messages(c.kind, c.names, msgs)
           \/ /\ c.kind = "unsubscribe" /\ served' = served \ c.names
              /\ \E msgs \in Seq(Replies) :
                   /\ wire' = wire \o msgs /\ Messages(c.kind, c.names, msgs)
                   /\ c.names \subseteq served =>
                        \A i \in 1 .. Len(msgs) :
                          msgs[i].count = 0 <=> served = c.names /\ i = Len(msgs)
           \/ /\ c.kind \in {"regular", "monitor"} /\ UNCHANGED served
              /\ \E r \in Replies :
                   /\ wire' = Append(wire, r) /\ r.to = c.id
                   /\ r.kind = "reply" \/ (r.kind = "error" /\ served # {})
    BY <1>1, AnswersEffect DEF app, ctx, loop, history
  <1>3. OutgoingShift /\ c = Outgoing[1] /\ 1 \in 1 .. Len(Outgoing)
    BY <1>1, <1>2, ShiftsOutgoing
  <1>4. Outgoing' \in Seq(Commands)
    <2>1. toServer' \in Seq(Commands) /\ obuf' \in Seq(Commands)
      BY <1>1 DEF QueueType
    <2> QED
      BY <2>1, ConcatProperties DEF Outgoing
  <1>5. c.kind # "monitor"
    BY <1>2, <1>3, FirstServed
  <1> HIDE DEF c
  <1>6. CASE c.kind = "subscribe"
    <2>1. PICK msgs \in Seq(Replies) : wire' = wire \o msgs /\ Messages("subscribe", c.names, msgs)
      BY <1>2, <1>6
    <2>2. IncomingGrows(msgs)
      BY <1>1, <1>2, <2>1, GrowsIncoming
    <2>3. served' = served \cup c.names
      BY <1>2, <1>6
    <2> QED
      BY <1>2, <1>3, <1>6, <2>1, <2>2, <2>3, PipelineSubscribed
  <1>7. CASE c.kind = "unsubscribe"
    <2>1. PICK msgs \in Seq(Replies) :
            /\ wire' = wire \o msgs /\ Messages("unsubscribe", c.names, msgs)
            /\ c.names \subseteq served =>
                 \A i \in 1 .. Len(msgs) : msgs[i].count = 0 <=> served = c.names /\ i = Len(msgs)
      BY <1>2, <1>7
    <2>2. IncomingGrows(msgs)
      BY <1>1, <1>2, <2>1, GrowsIncoming
    <2>3. served' = served \ c.names
      BY <1>2, <1>7
    <2> QED
      BY <1>2, <1>3, <1>4, <1>7, <2>1, <2>2, <2>3, PipelineUnsubscribed
  <1>8. CASE c.kind = "regular"
    <2>1. PICK r \in Replies :
            wire' = Append(wire, r) /\ r.to = c.id /\ r.kind \in {"reply", "error"}
      BY <1>2, <1>8
    <2>2. IncomingAppends(r)
      BY <1>1, <1>2, <2>1, AppendsIncoming
    <2>3. served' = served
      BY <1>2, <1>8
    <2> QED
      BY <1>2, <1>3, <1>8, <2>1, <2>2, <2>3, PipelineAnswer
  <1> QED
    BY <1>2, <1>5, <1>6, <1>7, <1>8

LEMMA TrafficPipeline ==
  ASSUME IInv, ~Has("monitoring"), Pipeline, Traffic
  PROVE  Pipeline'
PROOF
  <1>1. /\ net = "up" /\ UNCHANGED <<net, toServer, served>>
        /\ UNCHANGED <<replies, invalid, subs, issued, flags, obuf, rbuf>>
    BY DEF Traffic, app, ctx, loop, history
  <1>2. QueueType /\ NetType /\ Alone
    BY DEF IInv, Types
  <1>3. ~\E i \in 1 .. Len(issued) : issued[i].kind = "monitor"
    BY <1>2 DEF Alone
  <1>4. PICK n \in served : wire' = Append(wire, Answer("message", 0, {n}, Cardinality(served)))
    BY <1>3 DEF Traffic
  <1> DEFINE r == Answer("message", 0, {n}, Cardinality(served))
  <1>5. r \in Replies /\ r.kind = "message" /\ r.to = 0 /\ r.names = {n}
    <2>1. Cardinality(served) \in 0 .. Cardinality(Names) /\ n \in Names
      BY <1>2, NameCount DEF NetType
    <2> QED
      BY <2>1 DEF Answer, Replies, Pushes
  <1> HIDE DEF r
  <1>6. IncomingAppends(r)
    BY <1>1, <1>2, <1>4, <1>5, AppendsIncoming DEF r
  <1>7. Outgoing' = Outgoing
    BY <1>1 DEF Outgoing
  <1> QED
    BY <1>1, <1>5, <1>6, <1>7, PipelineTraffic

LEMMA EnvironmentPipeline ==
  ASSUME IInv, ~Has("monitoring"), Pipeline, Environment, Types'
  PROVE  Pipeline'
PROOF
  <1>1. CASE ServerAccepts \/ ConnectionLost
    <2>1. /\ UNCHANGED <<replies, invalid, subs, issued, flags, obuf, rbuf, wire, toServer, served>>
          /\ net # "closed" /\ net' # "pending"
      BY <1>1 DEF ServerAccepts, ConnectionLost, app, ctx, loop, history
    <2>2. Incoming' = Incoming /\ Outgoing' = Outgoing
      BY <2>1 DEF Incoming, Outgoing
    <2> QED
      BY <2>1, <2>2, PipelineFrame DEF Has
  <1>2. CASE ServerRejects
    <2> DEFINE r == Answer("error", 0, {}, 0)
    <2>1. /\ UNCHANGED <<replies, invalid, subs, issued, flags, obuf, rbuf, served>>
          /\ net = "pending" /\ net' = "closed" /\ wire' = Append(wire, r)
      BY <1>2 DEF ServerRejects, app, ctx, loop, history
    <2>2. r \in Replies /\ Rejection(r)
      BY NullType DEF Answer, Replies, NullReply, Rejection
    <2>3. QueueType
      BY DEF IInv, Types
    <2> HIDE DEF r
    <2>4. IncomingAppends(r)
      BY <2>1, <2>2, <2>3, AppendsIncoming
    <2> QED
      BY <2>1, <2>2, <2>4, PipelineTurnedAway
  <1> QED
    BY <1>1, <1>2, AnswerPipeline, TrafficPipeline DEF Environment

LEMMA CommandPipeline ==
  ASSUME IInv, ~Has("monitoring"), Pipeline, NEW kind \in Kinds, NEW S \in SUBSET Names,
         DisciplinedCommand(kind, S), kind # "monitor"
  PROVE  Pipeline'
PROOF
  <1> DEFINE id0 == Len(issued) + 1
             c == [id |-> id0, kind |-> kind, names |-> S]
  <1>1. /\ id0 \in Ids /\ ~Unsubscribing /\ obuf' = Append(obuf, c)
        /\ UNCHANGED <<rbuf, net, toServer, wire, served>>
    BY CommandEffect DEF loop, server
  <1>2. QueueType /\ ListType
    BY DEF IInv, Types
  <1>3. c \in Commands /\ c.kind = kind /\ c.names = S /\ c.id = id0
    BY <1>1 DEF Commands
  <1>4. Len(issued') = Len(issued) + 1
    BY NewCommand
  <1>5. \/ /\ kind = "subscribe" /\ S # {} /\ flags' = flags \cup {"subscribed"}
           /\ subs' = [n \in Names |-> IF n \in S THEN id0 ELSE subs[n]]
           /\ UNCHANGED <<replies, invalid>>
        \/ /\ kind = "unsubscribe" /\ S # {} /\ \A n \in S : Subscribed(n)
           /\ UNCHANGED <<flags, subs, replies, invalid>>
        \/ /\ kind = "regular" /\ Has("subscribed")
           /\ invalid' = Append(invalid, id0)
           /\ UNCHANGED <<flags, subs, replies>>
        \/ /\ kind = "regular" /\ ~Has("subscribed")
           /\ replies' = Append(replies, id0)
           /\ UNCHANGED <<flags, subs, invalid>>
    BY CommandEffect
  <1>6. id0 # NoCb /\ id0 \in Ids \cup {NoCb}
    BY <1>1 DEF Ids, NoCb
  <1> HIDE DEF id0, c
  <1>7. OutgoingAppends(c)
    BY <1>1, <1>2, <1>3, AppendsOutgoing
  <1>8. Incoming' = Incoming
    BY <1>1 DEF Incoming
  <1>9. /\ \A i \in 1 .. Len(Incoming) : ~Unsub(Incoming[i])
        /\ \A i \in 1 .. Len(Outgoing) : Outgoing[i].kind # "unsubscribe"
    BY <1>1, <1>2, NoneUnsubscribes
  <1>10. CASE kind = "subscribe" \/ kind = "unsubscribe"
    <2>1. UNCHANGED <<replies, invalid>>
      BY <1>5, <1>10
    <2>2. Plain' = Plain /\ Waiting' = Waiting
      BY <2>1 DEF Plain, Waiting
    <2>3. \A n \in Names : subs'[n] # NoCb <=> Subscribed(n) \/ (kind = "subscribe" /\ n \in S)
      BY <1>5, <1>6, <1>10 DEF Subscribed
    <2>4. /\ S # {} /\ (kind = "unsubscribe" => \A n \in S : Subscribed(n))
          /\ "subscribed" \in flags' <=> Has("subscribed") \/ kind = "subscribe"
      BY <1>5, <1>10 DEF Has
    <2> QED
      BY <1>1, <1>3, <1>4, <1>7, <1>8, <1>9, <1>10, <2>1, <2>2, <2>3, <2>4, PipelineCommand DEF id0
  <1>11. CASE kind = "regular" /\ Has("subscribed")
    <2>1. invalid' = Append(invalid, id0) /\ UNCHANGED <<flags, subs, replies>>
      BY <1>5, <1>11
    <2>2. /\ Len(invalid') = Len(invalid) + 1 /\ Len(invalid) \in Nat /\ invalid'[Len(invalid) + 1] = id0
          /\ \A i \in 1 .. Len(invalid) : invalid'[i] = invalid[i] /\ i \in 1 .. Len(invalid')
          /\ \A i \in 1 .. Len(invalid') : i \in 1 .. Len(invalid) \/ i = Len(invalid) + 1
      <3>1. invalid \in Seq(Ids \cup {NoCb})
        BY <1>2 DEF ListType
      <3> QED
        BY <1>6, <2>1, <3>1, ElementsOfAppend
    <2>3. Plain' = Plain
      BY <2>1 DEF Plain
    <2>4. \A id : id \in Waiting' <=> id \in Waiting \/ id = id0
      <3>1. \A id : id \in {invalid'[i] : i \in 1 .. Len(invalid')} <=>
                      id \in {invalid[i] : i \in 1 .. Len(invalid)} \/ id = id0
        <4>1. Len(invalid) + 1 \in 1 .. Len(invalid')
          BY <2>2
        <4> QED
          BY <2>2, <4>1
      <3> QED
        BY <2>3, <3>1 DEF Waiting
    <2>5. \A n \in Names : subs'[n] # NoCb <=> Subscribed(n)
      BY <2>1 DEF Subscribed
    <2>6. "subscribed" \in flags' <=> Has("subscribed")
      BY <2>1 DEF Has
    <2> QED
      BY <1>1, <1>3, <1>4, <1>7, <1>8, <1>9, <1>11, <2>3, <2>4, <2>5, <2>6, PipelineCommand DEF id0
  <1>12. CASE kind = "regular" /\ ~Has("subscribed")
    <2>1. replies' = Append(replies, id0) /\ UNCHANGED <<flags, subs, invalid>>
      BY <1>5, <1>12
    <2>2. /\ Len(replies') = Len(replies) + 1 /\ Len(replies) \in Nat /\ replies'[Len(replies) + 1] = id0
          /\ \A i \in 1 .. Len(replies) : replies'[i] = replies[i] /\ i \in 1 .. Len(replies')
          /\ \A i \in 1 .. Len(replies') : i \in 1 .. Len(replies) \/ i = Len(replies) + 1
      <3>1. replies \in Seq(Ids \cup {NoCb})
        BY <1>2 DEF ListType
      <3> QED
        BY <1>6, <2>1, <3>1, ElementsOfAppend
    <2>3. \A id : id \in Plain' <=> id \in Plain \/ id = id0
      <3>1. Len(replies) + 1 \in 1 .. Len(replies')
        BY <2>2
      <3> QED
        BY <2>2, <3>1 DEF Plain
    <2>4. \A id : id \in Waiting' <=> id \in Waiting \/ id = id0
      BY <2>1, <2>3 DEF Waiting
    <2>5. \A n \in Names : subs'[n] # NoCb <=> Subscribed(n)
      BY <2>1 DEF Subscribed
    <2>6. ("subscribed" \in flags' <=> Has("subscribed")) /\ invalid' = invalid
      BY <2>1 DEF Has
    <2> QED
      BY <1>1, <1>3, <1>4, <1>7, <1>8, <1>9, <1>12, <2>3, <2>4, <2>5, <2>6, PipelineCommand DEF id0
  <1> QED
    BY <1>10, <1>11, <1>12 DEF Kinds

LEMMA PipelineStep ==
  ASSUME IInv, ~("monitoring" \in flags'), pc' \in {"idle", "process", "callback"}, [DisciplinedNext]_vars
  PROVE  Pipeline'
PROOF
  <1> USE DEF ctx, loop, server, history, app
  <1>0. Live /\ ~Has("monitoring") /\ Pipeline /\ Types'
    <2>1. Live /\ ~Has("monitoring")
      BY PhaseStep, FlagsStay DEF Has
    <2> QED
      BY <2>1, TypesStep DEF IInv
  <1>1. CASE \/ HandleConnectFails \/ HandleWriteFails \/ HandleReadEof
            \/ ProcessRejected \/ ProcessFails
    BY <1>1, <1>0, Breaks DEF Live
  <1>2. CASE Environment
    BY <1>2, <1>0, EnvironmentPipeline
  <1>3. CASE HandleWrite
    <2>1. /\ UNCHANGED <<replies, invalid, subs, served, issued, net>>
          /\ "subscribed" \in flags' <=> Has("subscribed")
      BY <1>3 DEF HandleWrite, Has
    <2>2. Incoming' = Incoming /\ (net # "closed" => Outgoing' = Outgoing)
      BY <1>3, OutgoingWrite DEF IInv, Types
    <2> QED
      BY <1>0, <2>1, <2>2, PipelineFrame
  <1>4. CASE HandleRead
    <2>1. /\ UNCHANGED <<replies, invalid, subs, served, issued, net>>
          /\ "subscribed" \in flags' <=> Has("subscribed")
          /\ rbuf = <<>>
      BY <1>4 DEF HandleRead, Has, IInv, Known
    <2>2. Incoming' = Incoming /\ Outgoing' = Outgoing
      BY <1>4, <2>1, IncomingRead DEF IInv, Types
    <2> QED
      BY <1>0, <2>1, <2>2, PipelineFrame
  <1>5. CASE ProcessPending
    BY <1>5, <1>0, PendingPipeline
  <1>6. CASE ProcessMessage
    BY <1>6, <1>0, MessagePipeline
  <1>7. CASE ProcessOther
    BY <1>7, <1>0, OtherPipeline
  <1>8. CASE ProcessEnd
    <2>1. /\ UNCHANGED <<replies, invalid, subs, served, issued, net, rbuf, wire, toServer, obuf>>
          /\ "subscribed" \in flags' <=> Has("subscribed")
      BY <1>8, <1>0, EndEffect DEF Has
    <2>2. Incoming' = Incoming /\ Outgoing' = Outgoing
      BY <2>1 DEF Incoming, Outgoing
    <2> QED
      BY <1>0, <2>1, <2>2, PipelineFrame
  <1>9. CASE FreeReplies
    BY <1>9, <1>0 DEF FreeReplies, Live
  <1>10. CASE FreeInvalid
    BY <1>10, <1>0 DEF FreeInvalid, Live
  <1>11. CASE FreeSubscriptions
    BY <1>11, <1>0 DEF FreeSubscriptions, Live
  <1>12. CASE FreeContext
    BY <1>12, <1>0 DEF FreeContext, Live
  <1>13. CASE CallbackReturns
    <2>1. /\ UNCHANGED <<replies, invalid, subs, served, issued, net, rbuf, wire, toServer, obuf>>
          /\ "subscribed" \in flags' <=> Has("subscribed")
      BY <1>13, <1>0 DEF CallbackReturns, Has
    <2>2. Incoming' = Incoming /\ Outgoing' = Outgoing
      BY <2>1 DEF Incoming, Outgoing
    <2> QED
      BY <1>0, <2>1, <2>2, PipelineFrame
  <1>14. CASE FreeCallbackReturns
    BY <1>14, <1>0 DEF FreeCallbackReturns, Live
  <1>15. ASSUME NEW kind \in Kinds, NEW S \in SUBSET Names, DisciplinedCommand(kind, S)
         PROVE  Pipeline'
    <2>1. kind # "monitor"
      BY <1>15, CommandEffect
    <2> HIDE DEF ctx, loop, server, history, app
    <2> QED
      BY <1>15, <1>0, <2>1, CommandPipeline
  <1>16. CASE AsyncDisconnect
    <2>1. /\ UNCHANGED <<replies, invalid, subs, served, issued, net, rbuf, wire, toServer, obuf>>
          /\ "subscribed" \in flags' <=> Has("subscribed")
      BY <1>16, <1>0 DEF AsyncDisconnect, Has
    <2>2. Incoming' = Incoming /\ Outgoing' = Outgoing
      BY <2>1 DEF Incoming, Outgoing
    <2> QED
      BY <1>0, <2>1, <2>2, PipelineFrame
  <1>17. CASE AsyncFree
    <2>1. /\ UNCHANGED <<replies, invalid, subs, served, issued, net, rbuf, wire, toServer, obuf>>
          /\ "subscribed" \in flags' <=> Has("subscribed")
      BY <1>17, <1>0 DEF AsyncFree, Has
    <2>2. Incoming' = Incoming /\ Outgoing' = Outgoing
      BY <2>1 DEF Incoming, Outgoing
    <2> QED
      BY <1>0, <2>1, <2>2, PipelineFrame
  <1>18. CASE UNCHANGED vars
    <2>1. /\ UNCHANGED <<replies, invalid, subs, served, issued, net, rbuf, wire, toServer, obuf>>
          /\ "subscribed" \in flags' <=> Has("subscribed")
      BY <1>18, <1>0 DEF vars, Has
    <2>2. Incoming' = Incoming /\ Outgoing' = Outgoing
      BY <2>1 DEF Incoming, Outgoing
    <2> QED
      BY <1>0, <2>1, <2>2, PipelineFrame
  <1> QED
    BY <1>1, <1>2, <1>3, <1>4, <1>5, <1>6, <1>7, <1>8, <1>9, <1>10, <1>11, <1>12,
       <1>13, <1>14, <1>15, <1>16, <1>17, <1>18 DEF DisciplinedNext, Handlers, Process, Freeing,
       Returns, DisciplinedUser

-----------------------------------------------------------------------------
(* The theorems.                                                             *)

LEMMA InitIInv == Init => IInv
PROOF
  <1> SUFFICES ASSUME Init
               PROVE  IInv
    OBVIOUS
  <1> USE DEF Init
  <1>1. Len(replies) = 0 /\ Len(invalid) = 0 /\ Len(issued) = 0 /\ Len(got) = 0
    BY EmptySeq
  <1>2. \A S : <<>> \in Seq(S)
    BY EmptySeq
  <1>3. QueueType
    BY <1>2 DEF QueueType
  <1>4. Incoming = <<>> /\ Outgoing = <<>> /\ Len(Incoming) = 0 /\ Len(Outgoing) = 0
    <2>1. Len(Incoming) = 0 /\ Len(Outgoing) = 0
      <3>1. Len(rbuf) = 0 /\ Len(wire) = 0 /\ Len(toServer) = 0 /\ Len(obuf) = 0
        BY EmptySeq
      <3> QED
        BY <1>3, <3>1, StreamType
    <2>2. Incoming \in Seq(Replies) /\ Outgoing \in Seq(Commands)
      BY <1>3, StreamType
    <2> QED
      BY <2>1, <2>2, EmptySeq
  <1>5. Plain = {} /\ Waiting = {}
    BY <1>1 DEF Plain, Waiting
  <1>6. \A n \in Names : ~Subscribed(n)
    BY DEF Subscribed
  <1>7. Types
    <2>1. NullReply \in Replies /\ MaxCommands \in Nat /\ MaxTraffic \in Nat
      BY NullType, AsyncAssumption
    <2>2. FlagType /\ ListType /\ CallbackType
      BY <1>2, <2>1 DEF FlagType, ListType, CallbackType, Labels, Flags
    <2>3. NetType /\ HistoryType
      BY <1>1, <1>2, <2>1 DEF NetType, HistoryType
    <2> QED
      BY <1>3, <2>2, <2>3 DEF Types
  <1>8. NoAssertion /\ Alone /\ Known
    BY <1>1, <1>5, <1>6 DEF NoAssertion, Alone, Known, Has
  <1>9. OwnReplyOnce /\ Answers
    BY <1>1 DEF OwnReplyOnce, Answers, Live, Has
  <1>10. Lists
    BY <1>1, <1>5 DEF Lists
  <1>11. Pipeline
    <2>1. Contents /\ Ordered /\ Flight
      BY <1>4, <1>5 DEF Contents, Ordered, Flight
    <2>2. MessagesLater /\ Unsubscribes
      BY <1>4 DEF MessagesLater, Unsubscribes
    <2>3. Subscriptions
      BY <1>4, <1>6 DEF Subscriptions
    <2> QED
      BY <2>1, <2>2, <2>3 DEF Pipeline
  <1> QED
    BY <1>7, <1>8, <1>9, <1>10, <1>11 DEF IInv

LEMMA IInvStep == IInv /\ [DisciplinedNext]_vars => IInv'
PROOF
  <1> SUFFICES ASSUME IInv, [DisciplinedNext]_vars
               PROVE  IInv'
    OBVIOUS
  <1>1. Types' /\ NoAssertion' /\ Alone' /\ Known'
    BY TypesStep, NoAssertionStep, AloneStep, KnownStep
  <1>2. OwnReplyOnce' /\ Answers'
    BY OwnReplyOnceStep, AnswersStep
  <1>3. ~("monitoring" \in flags') => Lists'
    BY ListsStep
  <1>4. ~("monitoring" \in flags') /\ pc' \in {"idle", "process", "callback"} => Pipeline'
    BY PipelineStep
  <1> QED
    BY <1>1, <1>2, <1>3, <1>4 DEF IInv, Has, Live

LEMMA AsyncInvariant == DisciplinedSpec => []IInv
PROOF
  <1> QED
    BY InitIInv, IInvStep, PTL DEF DisciplinedSpec

\* Of a user that keeps to MayIssue: the callback of a command runs at most once,
\* and is given the reply to that command, the error of a server that turned the
\* client away, or a null reply.
THEOREM RepliesReachTheirCallbacks == DisciplinedSpec => []OwnReplyOnce
PROOF
  <1>1. IInv => OwnReplyOnce
    BY DEF IInv
  <1> QED
    BY <1>1, AsyncInvariant, PTL

\* Of a user that unsubscribes only names that are subscribed, and keeps to the
\* rest of MayIssue: until the context is being freed, the callback of a
\* subscription is given messages for names it was registered for.  A user that
\* does not can reach the stale cb at async.c:468, which gives it another's.
THEOREM MessagesReachTheirCallbacks == DisciplinedSpec => []MessageToSubscriber
PROOF
  <1>1. IInv => MessageToSubscriber
    BY DEF IInv, Known, MessageToSubscriber
  <1> QED
    BY <1>1, AsyncInvariant, PTL

\* Types and, of a user that issues nothing while an UNSUBSCRIBE is under way and
\* keeps to the rest of MayIssue, the two assertions of async.c: a clean disconnect
\* leaves no callback waiting (339), and a reply that no command waits for is a
\* message (463).  A command during an UNSUBSCRIBE makes the second one fail.
THEOREM NoAssertionFails == DisciplinedSpec => []AssertionsHold
PROOF
  <1>1. IInv => AssertionsHold
    <2> SUFFICES ASSUME IInv
                 PROVE  AssertionsHold
      OBVIOUS
    <2>1. /\ FlagType /\ ListType /\ QueueType /\ CallbackType /\ NetType /\ HistoryType
          /\ NoAssertion
      BY DEF IInv, Types
    <2>2. \A list \in {replies, invalid} :
            \A i \in 1 .. Len(list) : list[i] \in Ids \cup {NoCb}
      <3>1. \A list \in Seq(Ids \cup {NoCb}) : \A i \in 1 .. Len(list) : list[i] \in Ids \cup {NoCb}
        BY ElementOfSeq
      <3> QED
        BY <2>1, <3>1 DEF ListType
    <2>3. /\ \A q \in {obuf, toServer} : \A i \in 1 .. Len(q) : q[i] \in Commands
          /\ \A q \in {rbuf, wire} : \A i \in 1 .. Len(q) : q[i] \in Replies
      <3>1. /\ \A q \in Seq(Commands) : \A i \in 1 .. Len(q) : q[i] \in Commands
            /\ \A q \in Seq(Replies) : \A i \in 1 .. Len(q) : q[i] \in Replies
        BY ElementOfSeq
      <3> QED
        BY <2>1, <3>1 DEF QueueType
    <2>4. TypeOK
      BY <2>1, <2>2, <2>3 DEF TypeOK, FlagType, ListType, CallbackType, NetType, HistoryType, Has
    <2> QED
      BY <2>1, <2>4 DEF AssertionsHold, NoAssertion
  <1> QED
    BY <1>1, AsyncInvariant, PTL

\* Of a user that keeps to MayIssue: a context that was freed without an error and
\* not by redisAsyncFree has answered every command that has a callback and was
\* issued before the context was subscribed.
THEOREM DisconnectWaitsForReplies == DisciplinedSpec => []CleanMeansAnswered
PROOF
  <1>1. IInv => CleanMeansAnswered
    BY DEF IInv, Answers, Live, CleanMeansAnswered
  <1> QED
    BY <1>1, AsyncInvariant, PTL
=============================================================================
