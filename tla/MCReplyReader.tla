---------------------------- MODULE MCReplyReader ----------------------------
(* ReplyReader on small instances, for TLC.                                 *)
EXTENDS ReplyReader, TLC

\* Pieces whose lengths reach the boundaries of countDigits: 10, 100, 1000,
\* 10000 bytes.
PieceWidth ==
  "a" :> 1 @@ "%" :> 1 @@ "9" :> 9 @@ "99" :> 99 @@ "999" :> 999 @@ "9999" :> 9999

Ok == Reply("status", <<"a">>, <<>>)
Err == Reply("error", <<"a">>, <<>>)
One == Reply("integer", <<"9">>, <<>>)
Nil == Reply("nil", <<>>, <<>>)
NilArray == Reply("nilarray", <<>>, <<>>)
Garbage == Reply("garbage", <<>>, <<>>)
Str == Text(<<"a", "9">>)

SomeStreams ==
  { <<Ok, Array(<<One, Str>>)>>,
    <<Array(<<Array(<<Nil, One>>), Array(<<>>), Str>>), Err>>,
    <<Array(<<NilArray, Array(<<Str>>)>>), Garbage, Ok>>,
    <<One, Array(<<Str, Array(<<Ok, Garbage>>)>>)>>,
    <<Array(<<Array(<<Nil>>), NilArray>>), Array(<<Array(<<NilArray>>)>>)>>,
    <<Array(<<Array(<<Ok>>)>>), Array(<<Str, Array(<<Array(<<One>>)>>)>>), Ok>> }

El(k, s) == [k |-> k, s |-> s]
Elements ==
  { El("char", <<"a">>), El("char", <<"9">>), El("space", <<>>),
    El("s", <<>>), El("b", <<"99">>), El("int", <<"9999">>),
    El("percent", <<>>), El("bad", <<>>) }

\* All formats of up to three elements, and longer arguments.
SomeFormats ==
  UNION {[1 .. n -> Elements] : n \in 0 .. 3} \cup
  { <<El("b", <<"9999">>), El("char", <<"a">>), El("space", <<>>), El("wide", <<"9", "a">>)>>,
    <<El("b", <<"999">>), El("char", <<"a">>)>>, <<El("b", <<"99">>), El("char", <<"a">>)>> }

\* Every reply above with its elements, and the commands.
RECURSIVE WithElements(_), HeightOf(_)
WithElements(S) ==
  IF S = {} THEN {} ELSE S \cup WithElements(UNION {Range(r.elems) : r \in S})
HeightOf(r) ==
  IF r.elems = <<>> THEN 0 ELSE 1 + Max({HeightOf(r.elems[i]) : i \in DOMAIN r.elems})

SomeReplies ==
  WithElements(UNION {Range(rs) : rs \in SomeStreams} \cup
               {LET args == ArgsOf(f) IN Array([j \in DOMAIN args |-> Text(args[j])]) :
                  f \in SomeFormats})
SomeHeights == [r \in SomeReplies |-> HeightOf(r)]
=============================================================================
