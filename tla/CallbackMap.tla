----------------------------- MODULE CallbackMap -----------------------------
(* What async.c wants of a dictionary: a map from the names of channels to   *)
(* the callbacks subscribed to them.                                         *)
CONSTANTS Keys, Callbacks, NoCallback

VARIABLES
  map,      \* the callback of each name, or NoCallback
  result    \* what the last operation returned

vars == <<map, result>>

None == [k \in Keys |-> NoCallback]

Init == map = None /\ result = NoCallback

\* Subscribe: the newest callback counts, and the answer tells a new name.
Replace(k, cb) ==
  /\ result' = (map[k] = NoCallback)
  /\ map' = [map EXCEPT ![k] = cb]

Find(k) == result' = map[k] /\ UNCHANGED map

Delete(k) ==
  /\ result' = (map[k] # NoCallback)
  /\ map' = [map EXCEPT ![k] = NoCallback]

Clear == result' = NoCallback /\ map' = None

\* Going through the map answers one name after the other.
Visit ==
  /\ \/ \E k \in Keys : map[k] # NoCallback /\ result' = k
     \/ result' = NoCallback
  /\ UNCHANGED map

Next ==
  \/ \E k \in Keys :
       Find(k) \/ Delete(k) \/ \E cb \in Callbacks : Replace(k, cb)
  \/ Clear \/ Visit

Spec == Init /\ [][Next]_vars
=============================================================================
