----------------------------- MODULE SocketLease -----------------------------
(***************************************************************************)
(* What a caller of hiredispool.h may rely on, without list, locks or      *)
(* clock: while the pool is open a connected socket can be leased by one   *)
(* thread at a time, and its connection fails only in the hands of the     *)
(* holder.  RedisPool implements it.                                       *)
(***************************************************************************)
CONSTANTS Threads, Socks, NoProc

VARIABLES
  open,       \* the pool has been created and not yet destroyed
  up,         \* the sockets that have a connection
  holder      \* socket -> the thread that leases it

vars == <<open, up, holder>>

Init ==
  /\ open = FALSE /\ up = {}
  /\ holder = [s \in Socks |-> NoProc]

Open == ~open /\ open' = TRUE /\ UNCHANGED <<up, holder>>

\* redis_get_socket returns s.
Acquire(t, s) ==
  /\ open /\ s \in up /\ holder[s] = NoProc
  /\ holder' = [holder EXCEPT ![s] = t]
  /\ UNCHANGED <<open, up>>

\* redis_release_socket.
Release(s) ==
  /\ open /\ holder[s] # NoProc
  /\ holder' = [holder EXCEPT ![s] = NoProc]
  /\ UNCHANGED <<open, up>>

\* redis_command cannot reconnect the socket it was given.
Lose(s) ==
  /\ open /\ holder[s] # NoProc
  /\ up' = up \ {s}
  /\ UNCHANGED <<open, holder>>

\* redis_pool_create, or redis_get_socket on its way, connects a free socket.
Connect(s) ==
  /\ s \notin up /\ holder[s] = NoProc
  /\ up' = up \cup {s}
  /\ UNCHANGED <<open, holder>>

Close ==
  /\ open /\ \A s \in Socks : holder[s] = NoProc
  /\ open' = FALSE
  /\ UNCHANGED <<up, holder>>

\* redis_pool_destroy frees the sockets one by one, after Close.
Drop(s) ==
  /\ ~open /\ s \in up
  /\ up' = up \ {s}
  /\ UNCHANGED <<open, holder>>

Next ==
  \/ Open \/ Close
  \/ \E s \in Socks :
       \/ \E t \in Threads : Acquire(t, s)
       \/ Release(s) \/ Lose(s) \/ Connect(s) \/ Drop(s)

\* A lease does not last for ever.
LeasesEnd ==
  \A t \in Threads, s \in Socks : holder[s] = t ~> holder[s] # t

Safety == Init /\ [][Next]_vars
Spec == Safety /\ LeasesEnd
=============================================================================
