----------------------------- MODULE WireFormat -----------------------------
(* The two encodings of hiredis, as pure operators: a format and its         *)
(* arguments to a command (hiredis.c), and values to what travels.           *)
(*                                                                           *)
(* A string is a sequence of pieces, each of so many bytes (Width).  What    *)
(* travels is a sequence of tokens, the units the reader consumes as a       *)
(* whole: the type byte, a line up to its newline, the body of a bulk with   *)
(* its newline.  A part of a token is to the reader as if nothing had come.  *)
EXTENDS Integers, Sequences, SequencesExt

CONSTANTS
  Width,      \* piece -> its number of bytes
  Replies,    \* what servers may send, with the elements of the arrays
  Height      \* reply -> a number that is less for its elements: a finite tree

Pieces == DOMAIN Width

\* A reply as a value; the null reply travels as a bulk or as an array of -1.
Reply(type, s, elems) == [type |-> type, s |-> s, elems |-> elems]
Text(s) == Reply("string", s, <<>>)
Array(elems) == Reply("array", <<>>, elems)

ReplyTypes ==
  {"status", "error", "integer", "string", "nil", "nilarray", "garbage", "array"}

ASSUME WireAssumption ==
  /\ Width \in [Pieces -> Nat]
  /\ Height \in [Replies -> Nat]
  /\ \A r \in Replies :
       /\ r = Reply(r.type, r.s, r.elems)
       /\ r.type \in ReplyTypes /\ r.s \in Seq(Pieces) /\ r.elems \in Seq(Replies)
       /\ \A i \in DOMAIN r.elems : Height[r.elems[i]] < Height[r]
       /\ r.type # "array" => r.elems = <<>>
       /\ r.type \in {"array", "nil", "nilarray"} => r.s = <<>>

Size(s) ==
  LET size[i \in 0 .. Len(s)] == IF i = 0 THEN 0 ELSE size[i - 1] + Width[s[i]]
  IN size[Len(s)]

TypeByte(c) == [t |-> "type", c |-> <<c>>, n |-> 0]
Line(s) == [t |-> "line", c |-> s, n |-> 0]
Number(n) == [t |-> "line", c |-> <<>>, n |-> n]
Body(s) == [t |-> "body", c |-> s, n |-> Size(s)]

-----------------------------------------------------------------------------
(* From a format to arguments: redisvFormatCommand.                          *)
(*                                                                           *)
(* A format is a sequence of elements: [k |-> "char", s |-> a piece], the    *)
(* directives "s" and "b" with the argument the caller passes for them in    *)
(* s, "percent" for %%, "int" for a printf conversion with the text it gives *)
(* in s, "wide" for a conversion of more than 13 characters, whose text in s *)
(* is taken for a literal, "bad" for what no conversion begins with, and     *)
(* "space".  A conversion that the end of the format cuts off, such as "%5", *)
(* is none of them: strchr finds the zero byte among the conversions         *)
(* (hiredis.c:301) and the loop goes on behind the end of the format, which  *)
(* is undefined.  Formats are literals of the program that calls.            *)

FormatElements ==
  [k : {"char", "s", "b", "percent", "int", "wide", "bad", "space"}, s : Seq(Pieces)]

ScanInit == [argv |-> <<>>, cur |-> <<>>, touched |-> FALSE, err |-> 0]

\* Put the argument that is being collected into curargv.
PushArg(st) ==
  IF st.touched
  THEN [st EXCEPT !.argv = Append(@, st.cur), !.cur = <<>>, !.touched = FALSE]
  ELSE st

\* One turn of the loop over the format.  An empty %s touches the argument.
ScanElement(st, e) ==
  IF st.err # 0 THEN st ELSE
  CASE e.k = "space"    -> PushArg(st)
    [] e.k = "bad"      -> [st EXCEPT !.err = -2]
    [] e.k = "percent"  -> [st EXCEPT !.cur = Append(@, "%"), !.touched = TRUE]
    [] OTHER            -> [st EXCEPT !.cur = @ \o e.s, !.touched = TRUE]

\* The arguments, or the error that redisFormatCommand turns into -1.
FormatArgs(format) ==
  LET scan[i \in 0 .. Len(format)] ==
        IF i = 0 THEN ScanInit ELSE ScanElement(scan[i - 1], format[i])
      st == scan[Len(format)]
  IN [err |-> st.err, argv |-> IF st.err = 0 THEN PushArg(st).argv ELSE <<>>]

-----------------------------------------------------------------------------
(* From arguments to the protocol: redisFormatCommandArgv and its twins.     *)

\* Fault: a power of ten is taken to have a digit less.
CountDigitsShort(v) ==
  IF v <= 10 THEN 1 ELSE IF v <= 100 THEN 2 ELSE IF v <= 1000 THEN 3 ELSE 4

\* countDigits: four digits a turn.
CountDigits(v) ==
  LET turns == CHOOSE k \in 0 .. 4 :
                 /\ v < 10000 ^ (k + 1)
                 /\ \A j \in 0 .. k - 1 : v >= 10000 ^ (j + 1)
      rest == v \div 10000 ^ turns
  IN 4 * turns + (IF rest < 10 THEN 1 ELSE IF rest < 100 THEN 2
                  ELSE IF rest < 1000 THEN 3 ELSE 4)

Bulklen(len) == 1 + CountDigits(len) + 2 + len + 2

\* The length that is allocated before the command is written.
Totlen(argv) ==
  FoldLeft(LAMBDA n, a : n + Bulklen(Size(a)), 1 + CountDigits(Len(argv)) + 2, argv)

\* The command as it is written.
Command(argv) ==
  <<TypeByte("*"), Number(Len(argv))>> \o
  FlattenSeq([j \in 1 .. Len(argv) |->
                <<TypeByte("$"), Number(Size(argv[j])), Body(argv[j])>>])

\* The bytes sprintf and memcpy put out for a token: a number has as many
\* digits as it takes, a line and a body end in a newline of two bytes.
Digits(n) == CHOOSE d \in 1 .. 19 : n < 10 ^ d /\ (d > 1 => n >= 10 ^ (d - 1))
Bytes(tok) ==
  CASE tok.t = "type" -> 1
    [] tok.t = "line" -> Digits(tok.n) + 2
    [] OTHER          -> tok.n + 2
Written(toks) == FoldLeft(LAMBDA n, tok : n + Bytes(tok), 0, toks)

-----------------------------------------------------------------------------
(* What a server sends (external).                                           *)

Wire[r \in Replies] ==
  CASE r.type = "status"  -> <<TypeByte("+"), Line(r.s)>>
    [] r.type = "error"   -> <<TypeByte("-"), Line(r.s)>>
    [] r.type = "integer" -> <<TypeByte(":"), Line(r.s)>>
    [] r.type = "string"  -> <<TypeByte("$"), Number(Size(r.s)), Body(r.s)>>
    [] r.type = "nil"     -> <<TypeByte("$"), Number(-1)>>
    [] r.type = "nilarray" -> <<TypeByte("*"), Number(-1)>>
    [] r.type = "garbage" -> <<TypeByte("?")>>
    [] OTHER -> <<TypeByte("*"), Number(Len(r.elems))>> \o
                FlattenSeq([i \in DOMAIN r.elems |-> Wire[r.elems[i]]])

-----------------------------------------------------------------------------
(* Reference definition.                                                     *)

\* What a format means, read from its end: the words before the last space,
\* and what follows it, unless that is the end.  A directive with an empty text
\* is a word.
Meaning(e) == IF e.k = "percent" THEN <<"%">> ELSE e.s
ArgsOf(format) ==
  LET spaces(i) == {0} \cup {j \in 1 .. i : format[j].k = "space"}
      word(j, i) == FlattenSeq([m \in 1 .. i - j |-> Meaning(format[j + m])])
      words[i \in 0 .. Len(format)] ==
        LET j == Max(spaces(i)) IN
        CASE i = 0           -> <<>>
          [] i > 0 /\ i = j -> words[i - 1]
          [] OTHER           -> Append(words[j], word(j, i))
  IN words[Len(format)]
=============================================================================
