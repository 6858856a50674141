--------------------------- MODULE MCAsyncContext ---------------------------
(* AsyncContext on small instances, for TLC.                                *)
EXTENDS AsyncContext

CONSTANTS c1, c2, p1

OneChannel == {c1}
TwoChannels == {c1, c2}
OnePattern == {p1}
NoPattern == {}

\* The second of three commands has no callback.
SecondSilent == {2}
NoneSilent == {}
=============================================================================
