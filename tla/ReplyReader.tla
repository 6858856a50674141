----------------------------- MODULE ReplyReader -----------------------------
(* hiredis/read.c and the reply objects of hiredis.c: the incremental parser *)
(* of replies.  It is fed what a read from the socket happened to return and *)
(* keeps a stack of the arrays it is in the middle of; the objects it builds *)
(* hang below r->reply until a whole reply is handed to the user.            *)
(*                                                                           *)
(* Any allocation may fail.  A reply object is known by its address, a       *)
(* number; an address is not used again, so that what is never freed and     *)
(* what is freed twice shows.                                                *)
EXTENDS WireFormat

CONSTANTS
  Streams,      \* what the servers send: sequences of replies
  Formats,      \* formats, whose commands are sent to a reader as well
  MaxDepth,     \* 8 in the code: rstack has MaxDepth + 1 entries
  DiscardAt,    \* bytes consumed before the buffer is cut (1024), in tokens
  MaxObjects,   \* bound: objects created
  OutOfMemory   \* BOOLEAN: allocations may fail

\* The command that a format means, as the server reads it.
Meant(f) == LET args == ArgsOf(f) IN Array([j \in DOMAIN args |-> Text(args[j])])

ASSUME ReaderAssumption ==
  /\ MaxDepth \in Nat \ {0} /\ DiscardAt \in Nat \ {0}
  /\ MaxObjects \in Nat /\ OutOfMemory \in BOOLEAN
  /\ \A rs \in Streams : rs \in Seq(Replies)
  /\ \A f \in Formats : f \in Seq(FormatElements)
  /\ \A f \in Formats : FormatArgs(f).err = 0 => Meant(f) \in Replies

VARIABLES
  pc,         \* "idle": at the user; "parse" and "emit": in redisReaderGetReply
  err,        \* r->err
  buf, pos,   \* r->buf as tokens, and how many of them are consumed
  rstack,     \* the tasks r->rstack[0 .. r->ridx]
  root,       \* r->reply
  objs,       \* object -> its content
  live,       \* the objects that are allocated
  handed,     \* the replies the user holds and has not freed
  stream,     \* tokens the user has not fed yet
  out,        \* history: the replies handed out
  sent,       \* history: the replies the stream stands for
  room,       \* history: the bytes allocated for the command that is sent
  asked       \* history: redisReaderGetReply has found nothing since the last feed

reader == <<err, buf, pos, rstack, root>>
heap == <<objs, live, handed>>
vars == <<pc, reader, heap, stream, out, sent, room, asked>>

None == 0
NoType == "none"
Objects == 1 .. MaxObjects
Task(type, idx, obj) == [type |-> type, elements |-> -1, idx |-> idx, obj |-> obj]

Types == {"string", "array", "integer", "nil", "status", "error"}
TypeOf(c) ==
  CASE c = "-" -> "error" [] c = "+" -> "status" [] c = ":" -> "integer"
    [] c = "$" -> "string" [] c = "*" -> "array" [] OTHER -> NoType

TypeOK ==
  /\ pc \in {"idle", "parse", "emit", "freed"}
  /\ err \in {"none", "protocol", "oom"}
  /\ pos \in 0 .. Len(buf)
  /\ Len(rstack) <= MaxDepth + 1
  /\ \A i \in DOMAIN rstack :
       /\ rstack[i].type \in Types \cup {NoType}
       /\ i < Len(rstack) => rstack[i].type = "array"
  /\ root \in Objects \cup {None}
  /\ live \subseteq DOMAIN objs /\ DOMAIN objs \subseteq Objects
  /\ handed \subseteq Objects
  /\ asked \in BOOLEAN

\* The reply as the reader hands it out.
Plain[r \in Replies] ==
  Reply(IF r.type = "nilarray" THEN "nil" ELSE r.type, r.s,
        [i \in DOMAIN r.elems |-> Plain[r.elems[i]]])
\* How many arrays may still be entered where the reader accepts the reply: an
\* array of whatever length takes one.
Fits[r \in Replies] ==
  {n \in 0 .. MaxDepth :
     /\ r.type # "garbage"
     /\ r.type \in {"array", "nilarray"} => n > 0
     /\ \A i \in DOMAIN r.elems : n - 1 \in Fits[r.elems[i]]}
Refused(r) == MaxDepth \notin Fits[r]
\* The replies before the first that the reader refuses, by the reference.
Expected ==
  LET bad == {i \in DOMAIN sent : Refused(sent[i])}
      n == IF bad = {} THEN Len(sent) ELSE Min(bad) - 1
  IN [i \in 1 .. n |-> Plain[sent[i]]]

\* A reader of the replies of a server, or of a command a client has formatted.
Init ==
  /\ pc = "idle" /\ err = "none" /\ buf = <<>> /\ pos = 0 /\ rstack = <<>>
  /\ root = None /\ objs = <<>> /\ live = {} /\ handed = {}
  /\ out = <<>> /\ asked = FALSE
  /\ \/ /\ sent \in Streams
        /\ stream = FlattenSeq([i \in DOMAIN sent |-> Wire[sent[i]]])
        /\ room = 0
     \/ \E f \in Formats :
          LET args == FormatArgs(f) IN
          /\ args.err = 0 /\ sent = <<Meant(f)>>
          /\ stream = Command(args.argv) /\ room = Totlen(args.argv)

-----------------------------------------------------------------------------
(* The objects.                                                              *)

\* Every object at or below o, which is older than its elements.
Below(os, o) ==
  LET below[x \in DOMAIN os] ==
        {x} \cup UNION {below[e] : e \in Range(os[x].elems) \ {None}}
  IN IF o = None THEN {} ELSE below[o]

\* The reply that the object o is.
Value(os, o) ==
  LET value[x \in DOMAIN os] ==
        Reply(os[x].type, os[x].s,
              [i \in DOMAIN os[x].elems |->
                 IF os[x].elems[i] = None THEN None ELSE value[os[x].elems[i]]])
  IN value[o]

cur == rstack[Len(rstack)]
ridx == Len(rstack) - 1

\* createStringObject and the like: a new object, hung up in its parent.
New == Len(objs) + 1
Created(type, s, n) ==
  LET o == [type |-> type, s |-> s, elems |-> [i \in 1 .. n |-> None]]
      more == Append(objs, o)
  IN IF ridx = 0 THEN more
     ELSE [more EXCEPT ![rstack[ridx].obj].elems[cur.idx + 1] = New]

Create(type, s, n) ==
  /\ New \in Objects
  /\ objs' = Created(type, s, n) /\ live' = live \cup {New}
  /\ root' = IF ridx = 0 THEN New ELSE root
  /\ UNCHANGED handed

\* __redisReaderSetError: frees what was being built, clears buffer and stack.
SetError(type) ==
  /\ err' = type /\ buf' = <<>> /\ pos' = 0 /\ rstack' = <<>>
  /\ live' = live \ Below(objs, root) /\ root' = None
  /\ UNCHANGED <<objs, handed>>

-----------------------------------------------------------------------------
(* Parsing: one turn of the loop of redisReaderGetReply a step.              *)

\* Fault: only the innermost array is left.
MovedOnce(stack) ==
  LET n == Len(stack) IN
  CASE n <= 1 -> <<>>
    [] stack[n].idx = stack[n - 1].elements - 1 -> Front(stack)
    [] OTHER -> Append(Front(stack), Task(NoType, stack[n].idx + 1, None))

\* moveToNextTask: leave every array whose last element this was.
Moved(stack) ==
  LET unfinished == {i \in 2 .. Len(stack) : stack[i].idx # stack[i - 1].elements - 1}
      n == Max(unfinished)
  IN IF unfinished = {} THEN <<>>
     ELSE Append(SubSeq(stack, 1, n - 1), Task(NoType, stack[n].idx + 1, None))

Avail == Len(buf) - pos
Tok(i) == buf[pos + i]
Consume(n) == pos' = pos + n /\ UNCHANGED <<err, buf>>

\* The rest of an item: the object is made and the stack moved, or it is not.
Finish(type, s, n, stack) ==
  \/ /\ Create(type, s, 0) /\ rstack' = stack /\ Consume(n)
  \/ /\ OutOfMemory /\ SetError("oom")

user == <<stream, out, sent, room>>

\* processItem, the type byte, which an earlier call may have consumed.
ReadType ==
  /\ pc = "parse" /\ rstack # <<>> /\ cur.type = NoType /\ Avail >= 1
  /\ LET type == TypeOf(Tok(1).c[1]) IN
     IF type = NoType
     THEN SetError("protocol")
     ELSE /\ rstack' = [rstack EXCEPT ![Len(rstack)].type = type]
          /\ Consume(1) /\ UNCHANGED <<root, heap>>
  /\ UNCHANGED <<pc, user, asked>>

\* processLineItem.
ProcessLineItem ==
  /\ pc = "parse" /\ rstack # <<>>
  /\ cur.type \in {"error", "status", "integer"} /\ Avail >= 1
  /\ Finish(cur.type, Tok(1).c, 1, Moved(rstack))
  /\ UNCHANGED <<pc, user, asked>>

\* The tokens of a bulk item: the header alone is not consumed.
BulkReady == Avail >= 1 /\ (Tok(1).n < 0 \/ Avail >= 2)

\* processBulkItem.
ProcessBulkItem ==
  /\ pc = "parse" /\ rstack # <<>> /\ cur.type = "string" /\ BulkReady
  /\ IF Tok(1).n < 0
     THEN Finish("nil", <<>>, 1, Moved(rstack))
     ELSE Finish("string", IF Avail >= 2 THEN Tok(2).c ELSE <<>>,
                 IF Avail >= 2 THEN 2 ELSE 1, Moved(rstack))
  /\ UNCHANGED <<pc, user, asked>>

\* Fault: one level of nesting less than there is room for.
TooDeepEarly == ridx = MaxDepth - 1

\* "No support for nested multi bulk replies with depth > 7".
TooDeep == ridx = MaxDepth

\* processMultiBulkItem; the array that is entered is given to its task.
ProcessMultiBulkItem ==
  /\ pc = "parse" /\ rstack # <<>> /\ cur.type = "array"
  /\ TooDeep \/ Avail >= 1
  /\ IF TooDeep THEN SetError("protocol")
     ELSE LET n == Tok(1).n IN
          CASE n = -1 -> Finish("nil", <<>>, 1, Moved(rstack))
            [] n = 0  -> Finish("array", <<>>, 1, Moved(rstack))
            [] OTHER  ->
                 \/ /\ Create("array", <<>>, n) /\ Consume(1)
                    /\ rstack' = Append(
                         [rstack EXCEPT ![Len(rstack)].elements = n,
                                        ![Len(rstack)].obj = New],
                         Task(NoType, 0, None))
                 \/ OutOfMemory /\ SetError("oom")
  /\ UNCHANGED <<pc, user, asked>>

\* The loop ends: a reply is complete, the buffer is used up, or an error.
ParseEnds ==
  /\ pc = "parse"
  /\ \/ rstack = <<>>
     \/ /\ rstack # <<>>
        /\ Avail = 0 \/ (cur.type = "string" /\ ~BulkReady)
        /\ ~(cur.type = "array" /\ TooDeep)
  /\ pc' = "emit"
  /\ UNCHANGED <<reader, heap, user, asked>>

-----------------------------------------------------------------------------
(* The interface.                                                            *)

\* redisReaderFeed: any part of what is left to read; an out-of-memory sdscat.
Feed ==
  /\ pc = "idle" /\ err = "none" /\ stream # <<>>
  /\ \/ /\ \E k \in 1 .. Len(stream) :
             buf' = buf \o SubSeq(stream, 1, k)
             /\ stream' = SubSeq(stream, k + 1, Len(stream))
        /\ UNCHANGED <<err, pos, rstack, root, heap>>
     \/ OutOfMemory /\ SetError("oom") /\ UNCHANGED stream
  /\ asked' = FALSE
  /\ UNCHANGED <<pc, out, sent, room>>

\* redisReaderGetReply; with an empty buffer it returns at once.
GetReply ==
  /\ pc = "idle" /\ err = "none" /\ ~asked
  /\ IF buf = <<>>
     THEN asked' = TRUE /\ UNCHANGED <<pc, rstack>>
     ELSE /\ pc' = "parse" /\ UNCHANGED asked
          /\ rstack' = IF rstack = <<>> THEN <<Task(NoType, -1, None)>> ELSE rstack
  /\ UNCHANGED <<err, buf, pos, root, heap, user>>

\* Fault: the reader keeps the reply it has handed out.
EmitKeeps ==
  /\ pc = "emit" /\ pc' = "idle"
  /\ UNCHANGED <<buf, pos>>
  /\ IF err = "none" /\ rstack = <<>>
     THEN /\ out' = Append(out, Value(objs, root))
          /\ handed' = handed \cup {root} /\ UNCHANGED <<root, asked>>
     ELSE asked' = TRUE /\ UNCHANGED <<out, handed, root>>
  /\ UNCHANGED <<err, rstack, objs, live, stream, sent, room>>

\* Its end: cut the buffer, hand the reply out when the stack is empty.
Emit ==
  /\ pc = "emit" /\ pc' = "idle"
  /\ IF err = "none" /\ pos >= DiscardAt
     THEN buf' = SubSeq(buf, pos + 1, Len(buf)) /\ pos' = 0
     ELSE UNCHANGED <<buf, pos>>
  /\ IF err = "none" /\ rstack = <<>>
     THEN /\ out' = Append(out, Value(objs, root))
          /\ handed' = handed \cup {root} /\ root' = None
          /\ UNCHANGED asked
     ELSE asked' = TRUE /\ UNCHANGED <<out, handed, root>>
  /\ UNCHANGED <<err, rstack, objs, live, stream, sent, room>>

\* freeReplyObject, called by the user for a reply he was given.
FreeReplyObject ==
  /\ pc \in {"idle", "freed"}
  /\ \E o \in handed : handed' = handed \ {o} /\ live' = live \ Below(objs, o)
  /\ UNCHANGED <<pc, reader, objs, user, asked>>

\* redisReaderFree, which frees a reply that is not complete.
ReaderFree ==
  /\ pc = "idle" /\ pc' = "freed"
  /\ live' = live \ Below(objs, root) /\ root' = None
  /\ buf' = <<>> /\ pos' = 0 /\ rstack' = <<>>
  /\ UNCHANGED <<err, objs, handed, user, asked>>

Next ==
  \/ ReadType \/ ProcessLineItem \/ ProcessBulkItem \/ ProcessMultiBulkItem
  \/ ParseEnds
  \/ Feed \/ GetReply \/ Emit \/ FreeReplyObject \/ ReaderFree

Spec == Init /\ [][Next]_vars

-----------------------------------------------------------------------------
(* What the reader promises.                                                 *)

\* However the stream is cut into reads, the replies handed out are those that
\* were sent, in their order and with their structure, and when everything has
\* been fed and asked for none is missing.  For a command this is the round
\* trip from a format to the arguments a server reads.
RepliesAreSent ==
  /\ IsPrefix(out, Expected)
  /\ asked /\ stream = <<>> /\ err = "none" => Len(out) = Len(Expected)

\* An error of the protocol is found exactly where the reference finds one.
ErrorIsReal ==
  err = "protocol" => out = Expected /\ Len(out) < Len(sent)

\* Every object is below the reply that is being built or below one the user
\* holds, and below one of them only: none is lost on an error in the middle
\* of a reply, and none is freed twice.  (With the types.)
ObjectsOwned ==
  LET owners == handed \cup ({root} \ {None}) IN
  /\ TypeOK
  /\ live = UNION {Below(objs, o) : o \in owners}
  /\ \A o, p \in owners : o # p => Below(objs, o) \cap Below(objs, p) = {}
  /\ root # None => root \notin handed

\* The buffer of a command is exactly as long as what is written into it
\* (assert(pos == totlen)).
LengthExact == room > 0 => Written(Wire[sent[1]]) = room
=============================================================================
