------------------------------- MODULE MCDict -------------------------------
(* Dict on a small instance, for TLC.                                       *)
EXTENDS Dict, TLC

CONSTANTS k1, k2, k3, k4, a, b

FourKeys == {k1, k2, k3, k4}
TwoCallbacks == {a, b}

\* With two slots k1, k2 and k3 share one; with four k1 leaves it.
SomeHash == k1 :> 0 @@ k2 :> 2 @@ k3 :> 6 @@ k4 :> 5
=============================================================================
