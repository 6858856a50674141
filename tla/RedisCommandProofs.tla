------------------------- MODULE RedisCommandProofs -------------------------
(***************************************************************************)
(* Theorems about commands on the wire, for every number of threads,       *)
(* sockets, commands and connections: whoever waits for a reply gets the   *)
(* one to its own command, and no command is executed more than twice.     *)
(*                                                                         *)
(* The invariants are layers, each inductive with the help of those before *)
(* it: the types, who leases what, what is under way on each connection,   *)
(* and how many copies of a command are.                                   *)
(***************************************************************************)
EXTENDS RedisCommand, FiniteSetTheorems, TLAPS

\* How the size of a finite set changes when one element comes or goes.
Bit(b) == IF b THEN 1 ELSE 0

LEMMA CountChange ==
  ASSUME NEW D, IsFiniteSet(D), NEW A \in SUBSET D, NEW B \in SUBSET D, NEW d,
         \A e \in D : e # d => (e \in A <=> e \in B)
  PROVE  /\ Cardinality(A) \in Nat /\ Cardinality(B) \in Nat
         /\ Cardinality(B) = Cardinality(A) + Bit(d \in B) - Bit(d \in A)
PROOF
  <1>1. IsFiniteSet(A) /\ IsFiniteSet(B)
    BY FS_Subset
  <1>2. Cardinality(A) \in Nat /\ Cardinality(B) \in Nat
    BY <1>1, FS_CardinalityType
  <1>3. CASE d \in A <=> d \in B
    <2>1. A = B
      BY <1>3
    <2> QED
      BY <1>2, <1>3, <2>1 DEF Bit
  <1>4. CASE d \notin A /\ d \in B
    <2>1. B = A \cup {d}
      BY <1>4
    <2>2. Cardinality(B) = Cardinality(A) + 1
      BY <1>1, <1>4, <2>1, FS_AddElement
    <2> QED
      BY <1>2, <1>4, <2>2 DEF Bit
  <1>5. CASE d \in A /\ d \notin B
    <2>1. B = A \ {d}
      BY <1>5
    <2>2. Cardinality(B) = Cardinality(A) - 1
      BY <1>1, <1>5, <2>1, FS_RemoveElement
    <2> QED
      BY <1>2, <1>5, <2>2 DEF Bit
  <1> QED
    BY <1>3, <1>4, <1>5

LEMMA NoneCounted ==
  ASSUME NEW D, IsFiniteSet(D), NEW A \in SUBSET D
  PROVE  /\ Cardinality(A) \in Nat
         /\ Cardinality(A) = 0 <=> A = {}
PROOF
  <1>1. IsFiniteSet(A)
    BY FS_Subset
  <1> QED
    BY <1>1, FS_CardinalityType, FS_EmptySet

\* The labels of a thread inside redis_vcommand.
Trying == {"first", "wait1", "connect", "retry", "wait2"}
Cmds == Threads \X Calls

\* A thread that is not idle leases its socket, and a leased socket has a
\* thread that is not idle.
LeaseInv ==
  /\ \A t \in Threads : pc[t] # "idle" => sock[t] \in Socks /\ holder[sock[t]] = t
  /\ \A s \in Socks : holder[s] # NoProc => pc[holder[s]] # "idle" /\ sock[holder[s]] = s
  /\ \A t \in Threads : pc[t] \in Trying => sock[t] \in up
  /\ \A t \in Threads : pc[t] # "idle" => call[t] \in Calls

\* A socket has the context of a connection of its own, or it is not connected;
\* the context of a command that failed has an error.
OwnConn ==
  /\ \A s \in Socks : conn[s] # NoConn <=> s \in up
  /\ \A s \in Socks : conn[s] <= made
  /\ \A r, s \in Socks : conn[r] = conn[s] /\ conn[r] # NoConn => r = s
  /\ \A t \in Threads : pc[t] = "connect" => Ctx(t) \in err

\* A connection that has not been made yet has no history.
FreshConn ==
  \A k \in Conns :
    k > made => k \notin err /\ k \notin cut /\ sent[k] = <<>> /\ got[k] = <<>>

TypeInv == TypeOK /\ LeaseInv /\ OwnConn /\ FreshConn

LEMMA InitTypeInv == Init => TypeInv
PROOF
  <1> SUFFICES ASSUME Init PROVE TypeInv
    OBVIOUS
  <1> USE CommandAssumption DEF Init, Lease!Init, Conns, Calls, NoConn, NoReply
  <1>1. PoolType
    <2>1. made \in 0 .. MaxConns /\ \A s \in up : conn[s] \in 1 .. made
      OBVIOUS
    <2> QED
      BY <2>1 DEF PoolType
  <1>2. WireType
    BY DEF WireType
  <1>3. ThreadType
    BY DEF ThreadType
  <1>4. HistoryType
    BY DEF HistoryType
  <1>5. LeaseInv
    BY DEF LeaseInv, Trying
  <1>6. OwnConn /\ FreshConn
    BY DEF OwnConn, FreshConn
  <1> QED
    BY <1>1, <1>2, <1>3, <1>4, <1>5, <1>6 DEF TypeInv, TypeOK

\* A thread inside redis_vcommand has a socket of its own with a context.
LEMMA OwnContext ==
  ASSUME TypeInv, NEW t \in Threads, pc[t] \in Trying
  PROVE  /\ sock[t] \in up /\ sock[t] \in Socks /\ holder[sock[t]] = t
         /\ Ctx(t) \in 1 .. made /\ Ctx(t) \in Conns
         /\ Cmd(t) \in Cmds
PROOF
  BY CommandAssumption DEF TypeInv, TypeOK, LeaseInv, PoolType, Trying, Ctx, Conns,
     Cmd, Cmds

\* A new context is on a connection that has not been used before.
LEMMA NewContext ==
  ASSUME TypeInv, NEW s \in Socks, NewConn(s)
  PROVE  /\ made' = made + 1 /\ made \in Nat /\ made' \in Conns /\ made' \in 0 .. MaxConns
         /\ conn' = [conn EXCEPT ![s] = made'] /\ \A r \in Socks : conn[r] # made'
         /\ err' \in SUBSET Conns /\ err' \subseteq err \cup {made'} /\ err \subseteq err'
         /\ made' \notin err \cup cut /\ sent[made'] = <<>> /\ got[made'] = <<>>
PROOF
  <1>1. made' = made + 1 /\ made \in Nat /\ made' \in Conns /\ made' \in 0 .. MaxConns
    BY CommandAssumption DEF TypeInv, TypeOK, NewConn, PoolType, Conns
  <1>2. conn' = [conn EXCEPT ![s] = made'] /\ \A r \in Socks : conn[r] # made'
    BY <1>1 DEF TypeInv, TypeOK, OwnConn, PoolType, NewConn, Conns, NoConn
  <1>3. err' \in SUBSET Conns /\ err' \subseteq err \cup {made'} /\ err \subseteq err'
    BY <1>1 DEF TypeInv, TypeOK, WireType, NewConn
  <1>4. made' \notin err \cup cut /\ sent[made'] = <<>> /\ got[made'] = <<>>
    BY <1>1 DEF TypeInv, FreshConn
  <1> QED
    BY <1>1, <1>2, <1>3, <1>4

LEMMA TypeInvStep == TypeInv /\ [Next]_vars => TypeInv'
PROOF
  <1> SUFFICES ASSUME TypeInv, [Next]_vars PROVE TypeInv'
    OBVIOUS
  <1> USE CommandAssumption DEF TypeInv, TypeOK, leaseVars, wireVars, Goto
  <1>1. ASSUME Create PROVE TypeInv'
    <2>1. PoolType'
      BY <1>1 DEF Create, Lease!Open, PoolType, Conns, NoConn
    <2>2. WireType' /\ ThreadType' /\ HistoryType'
      BY <1>1 DEF Create, Lease!Open, WireType, ThreadType, HistoryType
    <2>3. LeaseInv'
      BY <1>1 DEF Create, Lease!Open, PoolType, ThreadType, LeaseInv, Trying, Calls
    <2>4. OwnConn'
      BY <1>1 DEF Create, Lease!Open, PoolType, WireType, ThreadType, LeaseInv,
         OwnConn, Trying, NoConn, Ctx
    <2>5. FreshConn'
      BY <1>1 DEF Create, Lease!Open, PoolType, WireType, FreshConn
    <2> QED
      BY <2>1, <2>2, <2>3, <2>4, <2>5
  <1>2. ASSUME NEW s \in Socks, ConnectFree(s) PROVE TypeInv'
    <2>1. PoolType'
      BY <1>2 DEF ConnectFree, Lease!Connect, NewConn, PoolType, Conns, NoConn
    <2>2. WireType'
      BY <1>2 DEF ConnectFree, Lease!Connect, NewConn, WireType, Cmds, Conns,
         PoolType
    <2>3. ThreadType' /\ HistoryType'
      BY <1>2 DEF ConnectFree, Lease!Connect, NewConn, ThreadType, HistoryType
    <2>4. LeaseInv'
      BY <1>2 DEF ConnectFree, Lease!Connect, NewConn, PoolType, ThreadType,
         LeaseInv, Trying, Calls
    <2>5. OwnConn'
      BY <1>2 DEF ConnectFree, Lease!Connect, NewConn, PoolType, WireType,
         ThreadType, LeaseInv, OwnConn, Trying, NoConn, Ctx
    <2>6. FreshConn'
      BY <1>2, NewContext DEF ConnectFree, PoolType, FreshConn, Conns
    <2> QED
      BY <2>1, <2>2, <2>3, <2>4, <2>5, <2>6
  <1>3. ASSUME NEW t \in Threads, NEW s \in Socks, GetSocket(t, s) PROVE TypeInv'
    <2>1. PoolType'
      BY <1>3 DEF GetSocket, Lease!Acquire, PoolType, Conns, NoConn
    <2>2. ThreadType'
      BY <1>3 DEF GetSocket, Lease!Acquire, ThreadType, NoReply, Calls
    <2>3. WireType' /\ HistoryType'
      BY <1>3 DEF GetSocket, Lease!Acquire, WireType, HistoryType
    <2>4. LeaseInv'
      BY <1>3 DEF GetSocket, Lease!Acquire, PoolType, ThreadType, LeaseInv, Trying,
         Calls
    <2>5. OwnConn'
      BY <1>3 DEF GetSocket, Lease!Acquire, PoolType, WireType, ThreadType,
         LeaseInv, OwnConn, Trying, NoConn, Ctx
    <2>6. FreshConn'
      BY <1>3 DEF GetSocket, Lease!Acquire, PoolType, WireType, FreshConn
    <2> QED
      BY <2>1, <2>2, <2>3, <2>4, <2>5, <2>6
  <1>4. ASSUME NEW t \in Threads, NoSocket(t) PROVE TypeInv'
    <2>1. ThreadType'
      BY <1>4 DEF NoSocket, ThreadType, NoReply, Calls
    <2>2. PoolType' /\ WireType' /\ HistoryType'
      BY <1>4 DEF NoSocket, PoolType, WireType, HistoryType
    <2>3. LeaseInv'
      BY <1>4 DEF NoSocket, PoolType, ThreadType, LeaseInv, Trying, Calls
    <2>4. OwnConn'
      BY <1>4 DEF NoSocket, PoolType, WireType, ThreadType, LeaseInv, OwnConn,
         Trying, NoConn, Ctx
    <2>5. FreshConn'
      BY <1>4 DEF NoSocket, PoolType, WireType, FreshConn
    <2> QED
      BY <2>1, <2>2, <2>3, <2>4, <2>5
  <1>5. ASSUME NEW t \in Threads, Send(t) PROVE TypeInv'
    <2>1. /\ sock[t] \in up /\ sock[t] \in Socks /\ holder[sock[t]] = t
          /\ Ctx(t) \in 1 .. made /\ Ctx(t) \in Conns /\ Cmd(t) \in Cmds
      BY OwnContext, <1>5 DEF Send, Trying
    <2>2. WireType'
      BY <1>5, <2>1 DEF Send, Waiting, WireType, Cmds
    <2>3. ThreadType'
      BY <1>5, <2>1 DEF Send, Waiting, ThreadType, NoReply, Calls
    <2>4. PoolType' /\ HistoryType'
      BY <1>5 DEF Send, Waiting, PoolType, HistoryType
    <2>5. LeaseInv'
      BY <1>5, <2>1 DEF Send, Waiting, PoolType, ThreadType, LeaseInv, Trying, Calls
    <2>6. OwnConn'
      BY <1>5, <2>1 DEF Send, Waiting, PoolType, WireType, ThreadType, LeaseInv,
         OwnConn, Trying, NoConn, Ctx
    <2>7. FreshConn'
      BY <1>5, <2>1 DEF Send, Waiting, PoolType, WireType, FreshConn
    <2> QED
      BY <2>2, <2>3, <2>4, <2>5, <2>6, <2>7
  <1>6. ASSUME NEW t \in Threads, Receive(t) PROVE TypeInv'
    <2>1. /\ sock[t] \in up /\ sock[t] \in Socks /\ holder[sock[t]] = t
          /\ Ctx(t) \in 1 .. made /\ Ctx(t) \in Conns /\ Cmd(t) \in Cmds
      BY OwnContext, <1>6 DEF Receive, Trying
    <2>2. WireType'
      BY <1>6, <2>1, SMTT(30) DEF Receive, WireType, Cmds, Conns
    <2>3. ThreadType'
      BY <1>6, <2>1 DEF Receive, ThreadType, NoReply, Calls, WireType
    <2>4. HistoryType'
      BY <1>6, <2>1 DEF Receive, HistoryType, WireType
    <2>5. PoolType'
      BY <1>6 DEF Receive, PoolType
    <2>6. LeaseInv'
      BY <1>6, <2>1 DEF Receive, PoolType, ThreadType, LeaseInv, Trying, Calls
    <2>7. OwnConn'
      BY <1>6, <2>1 DEF Receive, PoolType, WireType, ThreadType, LeaseInv, OwnConn,
         Trying, NoConn, Ctx
    <2>8. FreshConn'
      BY <1>6, <2>1 DEF Receive, PoolType, WireType, FreshConn
    <2> QED
      BY <2>2, <2>3, <2>4, <2>5, <2>6, <2>7, <2>8
  <1>7. ASSUME NEW t \in Threads, FirstFails(t) PROVE TypeInv'
    <2>1. /\ sock[t] \in up /\ sock[t] \in Socks /\ holder[sock[t]] = t
          /\ Ctx(t) \in 1 .. made /\ Ctx(t) \in Conns /\ Cmd(t) \in Cmds
      BY OwnContext, <1>7 DEF FirstFails, Trying
    <2>2. WireType'
      BY <1>7, <2>1 DEF FirstFails, WireType, Cmds
    <2>3. ThreadType'
      BY <1>7, <2>1 DEF FirstFails, ThreadType, NoReply, Calls
    <2>4. PoolType' /\ HistoryType'
      BY <1>7 DEF FirstFails, PoolType, HistoryType
    <2>5. LeaseInv'
      BY <1>7, <2>1 DEF FirstFails, PoolType, ThreadType, LeaseInv, Trying, Calls
    <2>6. OwnConn'
      BY <1>7, <2>1 DEF FirstFails, PoolType, WireType, ThreadType, LeaseInv,
         OwnConn, Trying, NoConn, Ctx
    <2>7. FreshConn'
      BY <1>7, <2>1 DEF FirstFails, PoolType, WireType, FreshConn
    <2> QED
      BY <2>2, <2>3, <2>4, <2>5, <2>6, <2>7
  <1>8. ASSUME NEW t \in Threads, Reconnect(t) PROVE TypeInv'
    <2>1. /\ sock[t] \in up /\ sock[t] \in Socks /\ holder[sock[t]] = t
          /\ Ctx(t) \in 1 .. made /\ Ctx(t) \in Conns /\ Cmd(t) \in Cmds
      BY OwnContext, <1>8 DEF Reconnect, Trying
    <2>2. PoolType'
      BY <1>8, <2>1 DEF Reconnect, NewConn, PoolType, Conns, NoConn
    <2>3. WireType'
      BY <1>8, <2>1, NewContext DEF Reconnect, WireType
    <2>4. ThreadType'
      BY <1>8, <2>1 DEF Reconnect, NewConn, ThreadType, NoReply, Calls
    <2>5. HistoryType'
      BY <1>8 DEF Reconnect, NewConn, HistoryType
    <2>6. LeaseInv'
      BY <1>8, <2>1 DEF Reconnect, NewConn, PoolType, ThreadType, LeaseInv, Trying,
         Calls
    <2>7. OwnConn'
      <3>1. /\ made' = made + 1 /\ made \in Nat /\ err \subseteq err' /\ up' = up
            /\ conn' = [conn EXCEPT ![sock[t]] = made'] /\ \A r \in Socks : conn[r] # made'
        BY <1>8, <2>1, NewContext DEF Reconnect
      <3>2. \A s \in Socks : conn'[s] # NoConn <=> s \in up'
        BY <2>1, <3>1 DEF PoolType, OwnConn, NoConn
      <3>3. \A s \in Socks : conn'[s] <= made'
        BY <2>1, <3>1 DEF PoolType, OwnConn, Conns, NoConn
      <3>4. \A r, s \in Socks : conn'[r] = conn'[s] /\ conn'[r] # NoConn => r = s
        BY <2>1, <3>1 DEF PoolType, OwnConn
      <3>5. \A u \in Threads : pc'[u] = "connect" => Ctx(u)' \in err'
        BY <1>8, <2>1, <3>1 DEF Reconnect, PoolType, ThreadType, OwnConn, LeaseInv,
           Ctx
      <3> QED
        BY <3>2, <3>3, <3>4, <3>5 DEF OwnConn
    <2>8. FreshConn'
      BY <1>8, <2>1, NewContext DEF Reconnect, PoolType, FreshConn, Conns
    <2> QED
      BY <2>2, <2>3, <2>4, <2>5, <2>6, <2>7, <2>8
  <1>9. ASSUME NEW t \in Threads, ReconnectFails(t) PROVE TypeInv'
    <2>1. /\ sock[t] \in up /\ sock[t] \in Socks /\ holder[sock[t]] = t
          /\ Ctx(t) \in 1 .. made /\ Ctx(t) \in Conns /\ Cmd(t) \in Cmds
      BY OwnContext, <1>9 DEF ReconnectFails, Trying
    <2>2. PoolType'
      BY <1>9, <2>1 DEF ReconnectFails, Lease!Lose, PoolType, Conns, NoConn
    <2>3. ThreadType'
      BY <1>9, <2>1 DEF ReconnectFails, Lease!Lose, ThreadType, NoReply, Calls
    <2>4. WireType' /\ HistoryType'
      BY <1>9 DEF ReconnectFails, Lease!Lose, WireType, HistoryType
    <2>5. LeaseInv'
      BY <1>9, <2>1 DEF ReconnectFails, Lease!Lose, PoolType, ThreadType, LeaseInv,
         Trying, Calls
    <2>6. OwnConn'
      BY <1>9, <2>1 DEF ReconnectFails, Lease!Lose, PoolType, WireType, ThreadType,
         LeaseInv, OwnConn, Trying, NoConn, Ctx
    <2>7. FreshConn'
      BY <1>9, <2>1 DEF ReconnectFails, Lease!Lose, PoolType, WireType, FreshConn
    <2> QED
      BY <2>2, <2>3, <2>4, <2>5, <2>6, <2>7
  <1>10. ASSUME NEW t \in Threads, RetryFails(t) PROVE TypeInv'
    <2>1. /\ sock[t] \in up /\ sock[t] \in Socks /\ holder[sock[t]] = t
          /\ Ctx(t) \in 1 .. made /\ Ctx(t) \in Conns /\ Cmd(t) \in Cmds
      BY OwnContext, <1>10 DEF RetryFails, Trying
    <2>2. WireType'
      BY <1>10, <2>1 DEF RetryFails, WireType, Cmds, Conns
    <2>3. ThreadType'
      BY <1>10, <2>1 DEF RetryFails, ThreadType, NoReply, Calls
    <2>4. PoolType' /\ HistoryType'
      BY <1>10 DEF RetryFails, PoolType, HistoryType
    <2>5. LeaseInv'
      BY <1>10, <2>1 DEF RetryFails, PoolType, ThreadType, LeaseInv, Trying, Calls
    <2>6. OwnConn'
      BY <1>10, <2>1 DEF RetryFails, PoolType, WireType, ThreadType, LeaseInv,
         OwnConn, Trying, NoConn, Ctx
    <2>7. FreshConn'
      BY <1>10, <2>1 DEF RetryFails, PoolType, WireType, FreshConn
    <2> QED
      BY <2>2, <2>3, <2>4, <2>5, <2>6, <2>7
  <1>11. ASSUME NEW t \in Threads, ReleaseSocket(t) PROVE TypeInv'
    <2>1. PoolType'
      BY <1>11 DEF ReleaseSocket, Lease!Release, PoolType, Conns, NoConn
    <2>2. ThreadType'
      BY <1>11 DEF ReleaseSocket, Lease!Release, ThreadType, NoReply, Calls
    <2>3. WireType' /\ HistoryType'
      BY <1>11 DEF ReleaseSocket, Lease!Release, WireType, HistoryType
    <2>4. LeaseInv'
      BY <1>11 DEF ReleaseSocket, Lease!Release, PoolType, ThreadType, LeaseInv,
         Trying, Calls
    <2>5. OwnConn'
      BY <1>11 DEF ReleaseSocket, Lease!Release, PoolType, WireType, ThreadType,
         LeaseInv, OwnConn, Trying, NoConn, Ctx
    <2>6. FreshConn'
      BY <1>11 DEF ReleaseSocket, Lease!Release, PoolType, WireType, FreshConn
    <2> QED
      BY <2>1, <2>2, <2>3, <2>4, <2>5, <2>6
  <1>12. ASSUME NEW k \in Conns, Execute(k) PROVE TypeInv'
    <2>1. WireType'
      BY <1>12 DEF Execute, WireType
    <2>2. HistoryType'
      BY <1>12 DEF Execute, HistoryType, WireType
    <2>3. PoolType' /\ ThreadType'
      BY <1>12 DEF Execute, PoolType, ThreadType
    <2>4. LeaseInv'
      BY <1>12 DEF Execute, PoolType, ThreadType, LeaseInv, Trying, Calls
    <2>5. OwnConn'
      BY <1>12 DEF Execute, PoolType, WireType, ThreadType, LeaseInv, OwnConn,
         Trying, NoConn, Ctx
    <2>6. FreshConn'
      BY <1>12 DEF Execute, PoolType, WireType, FreshConn
    <2> QED
      BY <2>1, <2>2, <2>3, <2>4, <2>5, <2>6
  <1>13. ASSUME NEW k \in Conns, Break(k) PROVE TypeInv'
    <2>1. WireType'
      BY <1>13 DEF Break, WireType, Cmds, Conns
    <2>2. PoolType' /\ ThreadType' /\ HistoryType'
      BY <1>13 DEF Break, PoolType, ThreadType, HistoryType
    <2>3. LeaseInv'
      BY <1>13 DEF Break, PoolType, ThreadType, LeaseInv, Trying, Calls
    <2>4. OwnConn'
      BY <1>13 DEF Break, PoolType, WireType, ThreadType, LeaseInv, OwnConn, Trying,
         NoConn, Ctx
    <2>5. FreshConn'
      BY <1>13 DEF Break, PoolType, WireType, FreshConn, Conns
    <2> QED
      BY <2>1, <2>2, <2>3, <2>4, <2>5
  <1>14. CASE UNCHANGED vars
    BY <1>14 DEF vars, PoolType, WireType, ThreadType, HistoryType, LeaseInv,
       OwnConn,
       FreshConn, Ctx
  <1> QED
    BY <1>1, <1>2, <1>3, <1>4, <1>5, <1>6, <1>7, <1>8, <1>9, <1>10, <1>11, <1>12,
       <1>13, <1>14 DEF Next, Step, Finished

-----------------------------------------------------------------------------
(* What is under way on a connection.                                       *)

Quiet(k) == sent[k] = <<>> /\ got[k] = <<>>

\* The command c is under way, or its reply is.
Under(k, c) ==
  \/ sent[k] = <<c>> /\ got[k] = <<>>
  \/ sent[k] = <<>> /\ got[k] = <<c>>

\* As in WireIsClean.
CleanSock(s) ==
  \/ conn[s] \in err \cup cut
  \/ Quiet(conn[s])
  \/ /\ holder[s] # NoProc /\ pc[holder[s]] \in {"wait1", "wait2"}
     /\ Under(conn[s], Cmd(holder[s]))

\* Nothing arrives from a connection that was closed, and no connection ever
\* carries two commands.
OneUnderWay ==
  /\ \A k \in cut : got[k] = <<>>
  /\ \A k \in Conns : Quiet(k) \/ \E c \in Cmds : Under(k, c)

WireInv == OneUnderWay /\ \A s \in Socks : conn[s] # NoConn => CleanSock(s)

LEMMA OneElement ==
  \A c : /\ Append(<<>>, c) = <<c>> /\ <<c>> # <<>>
         /\ Head(<<c>>) = c /\ Tail(<<c>>) = <<>>
PROOF
  OBVIOUS

LEMMA InitWireInv == Init => WireInv /\ ReplyIsOwn
PROOF
  BY DEF Init, WireInv, OneUnderWay, Quiet, ReplyIsOwn

LEMMA WireInvStep == TypeInv /\ WireInv /\ [Next]_vars => WireInv'
PROOF
  <1> SUFFICES ASSUME TypeInv, WireInv, [Next]_vars PROVE WireInv'
    OBVIOUS
  <1> USE CommandAssumption DEF leaseVars, wireVars, Goto
  <1>1. ASSUME Create PROVE WireInv'
    <2>1. OneUnderWay'
      BY <1>1 DEF Create, Lease!Open, WireInv, OneUnderWay, Quiet, Under, TypeInv,
         TypeOK, WireType
    <2>2. ASSUME NEW r \in Socks, conn'[r] # NoConn PROVE CleanSock(r)'
      BY <1>1, <2>2 DEF Create, Lease!Open, WireInv, OneUnderWay, CleanSock, Quiet,
         Under, Cmd, Ctx,
         TypeInv, TypeOK, PoolType, WireType, ThreadType, LeaseInv, OwnConn, Trying
    <2> QED
      BY <2>1, <2>2 DEF WireInv
  <1>2. ASSUME NEW s \in Socks, ConnectFree(s) PROVE WireInv'
    <2>1. OneUnderWay'
      BY <1>2, NewContext DEF ConnectFree, Lease!Connect, WireInv, OneUnderWay,
         Quiet, Under, TypeInv, TypeOK, WireType
    <2>2. ASSUME NEW r \in Socks, conn'[r] # NoConn PROVE CleanSock(r)'
      <3>1. /\ conn' = [conn EXCEPT ![s] = made'] /\ err \subseteq err'
            /\ sent[made'] = <<>> /\ got[made'] = <<>>
        BY <1>2, NewContext DEF ConnectFree
      <3>2. UNCHANGED <<cut, sent, got, pc, call, holder>>
        BY <1>2 DEF ConnectFree, Lease!Connect
      <3>3. CASE r = s
        BY <3>1, <3>2, <3>3 DEF CleanSock, Quiet, TypeInv, TypeOK, PoolType
      <3>4. CASE r # s
        BY <2>2, <3>1, <3>2, <3>4 DEF WireInv, CleanSock, Quiet, Under, Cmd,
           TypeInv, TypeOK, PoolType
      <3> QED
        BY <3>3, <3>4
    <2> QED
      BY <2>1, <2>2 DEF WireInv
  <1>3. ASSUME NEW t \in Threads, NEW s \in Socks, GetSocket(t, s) PROVE WireInv'
    <2>1. OneUnderWay'
      BY <1>3 DEF GetSocket, Lease!Acquire, WireInv, OneUnderWay, Quiet, Under,
         TypeInv, TypeOK, WireType
    <2>2. ASSUME NEW r \in Socks, conn'[r] # NoConn PROVE CleanSock(r)'
      BY <1>3, <2>2, SMTT(30) DEF GetSocket, Lease!Acquire, WireInv, OneUnderWay, CleanSock,
         Quiet, Under, Cmd, Ctx,
         TypeInv, TypeOK, PoolType, WireType, ThreadType, LeaseInv, OwnConn, Trying
    <2> QED
      BY <2>1, <2>2 DEF WireInv
  <1>4. ASSUME NEW t \in Threads, NoSocket(t) PROVE WireInv'
    <2>1. OneUnderWay'
      BY <1>4 DEF NoSocket, WireInv, OneUnderWay, Quiet, Under, TypeInv, TypeOK,
         WireType
    <2>2. ASSUME NEW r \in Socks, conn'[r] # NoConn PROVE CleanSock(r)'
      BY <1>4, <2>2 DEF NoSocket, WireInv, OneUnderWay, CleanSock, Quiet, Under,
         Cmd, Ctx,
         TypeInv, TypeOK, PoolType, WireType, ThreadType, LeaseInv, OwnConn, Trying
    <2> QED
      BY <2>1, <2>2 DEF WireInv
  <1>5. ASSUME NEW t \in Threads, Send(t) PROVE WireInv'
    <2>1. /\ sock[t] \in up /\ sock[t] \in Socks /\ holder[sock[t]] = t
          /\ Ctx(t) \in 1 .. made /\ Ctx(t) \in Conns /\ Cmd(t) \in Cmds
      BY OwnContext, <1>5 DEF Send, Trying
    <2>2. Quiet(Ctx(t)) /\ sent[Ctx(t)] = <<>> /\ got[Ctx(t)] = <<>>
      <3>1. CleanSock(sock[t])
        BY <2>1 DEF WireInv, TypeInv, OwnConn
      <3> QED
        BY <1>5, <2>1, <3>1 DEF Send, CleanSock, Quiet, Ctx
    <2>3. /\ sent' = [sent EXCEPT ![Ctx(t)] = <<Cmd(t)>>] /\ got' = got
          /\ pc' = [pc EXCEPT ![t] = Waiting[pc[t]]]
          /\ UNCHANGED <<err, cut, conn, call, holder>>
      BY <1>5, <2>2, OneElement DEF Send
    <2>4. OneUnderWay'
      BY <2>1, <2>2, <2>3 DEF WireInv, OneUnderWay, Quiet, Under, TypeInv, TypeOK,
         WireType
    <2>5. ASSUME NEW r \in Socks, conn'[r] # NoConn PROVE CleanSock(r)'
      <3>1. CASE r = sock[t]
        <4>1. Waiting[pc[t]] \in {"wait1", "wait2"}
          BY <1>5 DEF Send, Waiting
        <4>2. sent'[Ctx(t)] = <<Cmd(t)>> /\ got'[Ctx(t)] = <<>> /\ Cmd(t)' = Cmd(t)
          BY <2>1, <2>2, <2>3 DEF TypeInv, TypeOK, WireType, Cmd
        <4>3. pc'[t] \in {"wait1", "wait2"} /\ holder'[r] = t /\ conn'[r] = Ctx(t)
          BY <2>1, <2>3, <3>1, <4>1 DEF TypeInv, TypeOK, ThreadType, Ctx
        <4> QED
          BY <4>2, <4>3 DEF CleanSock, Under, Cmd
      <3>2. CASE r # sock[t]
        <4>1. conn[r] # Ctx(t) /\ holder[r] # t
          BY <2>1, <2>3, <2>5, <3>2 DEF TypeInv, OwnConn, LeaseInv, Ctx
        <4> QED
          BY <2>3, <2>5, <4>1 DEF WireInv, CleanSock, Quiet, Under, Cmd, TypeInv,
             TypeOK, PoolType, WireType, ThreadType
      <3> QED
        BY <3>1, <3>2
    <2> QED
      BY <2>4, <2>5 DEF WireInv
  <1>6. ASSUME NEW t \in Threads, Receive(t) PROVE WireInv'
    <2>1. /\ sock[t] \in up /\ sock[t] \in Socks /\ holder[sock[t]] = t
          /\ Ctx(t) \in 1 .. made /\ Ctx(t) \in Conns /\ Cmd(t) \in Cmds
      BY OwnContext, <1>6 DEF Receive, Trying
    <2>2. sent[Ctx(t)] = <<>> /\ Tail(got[Ctx(t)]) = <<>>
      BY <1>6, <2>1, OneElement DEF Receive, WireInv, OneUnderWay, Quiet, Under
    <2>3. /\ got' = [got EXCEPT ![Ctx(t)] = <<>>] /\ sent' = sent
          /\ pc' = [pc EXCEPT ![t] = "done"]
          /\ UNCHANGED <<err, cut, conn, call, holder>>
      BY <1>6, <2>2 DEF Receive
    <2>4. OneUnderWay'
      BY <2>1, <2>2, <2>3 DEF WireInv, OneUnderWay, Quiet, Under, TypeInv, TypeOK,
         WireType
    <2>5. ASSUME NEW r \in Socks, conn'[r] # NoConn PROVE CleanSock(r)'
      <3>1. CASE r = sock[t]
        BY <2>1, <2>2, <2>3, <3>1 DEF CleanSock, Quiet, Ctx, TypeInv, TypeOK,
           WireType
      <3>2. CASE r # sock[t]
        <4>1. conn[r] # Ctx(t) /\ holder[r] # t
          BY <2>1, <2>3, <2>5, <3>2 DEF TypeInv, OwnConn, LeaseInv, Ctx
        <4> QED
          BY <2>3, <2>5, <4>1 DEF WireInv, CleanSock, Quiet, Under, Cmd, TypeInv,
             TypeOK, PoolType, WireType, ThreadType
      <3> QED
        BY <3>1, <3>2
    <2> QED
      BY <2>4, <2>5 DEF WireInv
  <1>7. ASSUME NEW t \in Threads, FirstFails(t) PROVE WireInv'
    <2>1. /\ sock[t] \in up /\ sock[t] \in Socks /\ holder[sock[t]] = t
          /\ Ctx(t) \in 1 .. made /\ Ctx(t) \in Conns /\ Cmd(t) \in Cmds
      BY OwnContext, <1>7 DEF FirstFails, Trying
    <2>2. OneUnderWay'
      BY <1>7, <2>1, OneElement DEF FirstFails, WireInv, OneUnderWay, Quiet, Under,
         TypeInv, TypeOK, WireType
    <2>3. ASSUME NEW r \in Socks, conn'[r] # NoConn PROVE CleanSock(r)'
      BY <1>7, <2>3, <2>1, OneElement DEF FirstFails, WireInv, OneUnderWay,
         CleanSock, Quiet, Under, Cmd, Ctx,
         TypeInv, TypeOK, PoolType, WireType, ThreadType, LeaseInv, OwnConn, Trying
    <2> QED
      BY <2>2, <2>3 DEF WireInv
  <1>8. ASSUME NEW t \in Threads, Reconnect(t) PROVE WireInv'
    <2>1. /\ sock[t] \in up /\ sock[t] \in Socks /\ holder[sock[t]] = t
          /\ Ctx(t) \in 1 .. made /\ Ctx(t) \in Conns /\ Cmd(t) \in Cmds
      BY OwnContext, <1>8 DEF Reconnect, Trying
    <2>2. OneUnderWay'
      BY <1>8, <2>1, NewContext DEF Reconnect, WireInv, OneUnderWay, Quiet, Under,
         TypeInv, TypeOK, WireType
    <2>3. ASSUME NEW r \in Socks, conn'[r] # NoConn PROVE CleanSock(r)'
      <3>1. /\ conn' = [conn EXCEPT ![sock[t]] = made'] /\ err \subseteq err'
            /\ sent[made'] = <<>> /\ got[made'] = <<>>
        BY <1>8, <2>1, NewContext DEF Reconnect
      <3>2. UNCHANGED <<cut, sent, got, call, holder>> /\ pc' = [pc EXCEPT ![t] = "retry"]
        BY <1>8 DEF Reconnect
      <3>3. CASE r = sock[t]
        BY <2>1, <3>1, <3>2, <3>3 DEF CleanSock, Quiet, TypeInv, TypeOK, PoolType
      <3>4. CASE r # sock[t]
        <4>1. holder[r] # t
          BY <3>4 DEF TypeInv, LeaseInv
        <4> QED
          BY <2>1, <2>3, <3>1, <3>2, <3>4, <4>1 DEF WireInv, CleanSock, Quiet,
             Under, Cmd, TypeInv, TypeOK, PoolType, ThreadType
      <3> QED
        BY <3>3, <3>4
    <2> QED
      BY <2>2, <2>3 DEF WireInv
  <1>9. ASSUME NEW t \in Threads, ReconnectFails(t) PROVE WireInv'
    <2>1. /\ sock[t] \in up /\ sock[t] \in Socks /\ holder[sock[t]] = t
          /\ Ctx(t) \in 1 .. made /\ Ctx(t) \in Conns /\ Cmd(t) \in Cmds
      BY OwnContext, <1>9 DEF ReconnectFails, Trying
    <2>2. OneUnderWay'
      BY <1>9, <2>1 DEF ReconnectFails, Lease!Lose, WireInv, OneUnderWay, Quiet,
         Under, TypeInv, TypeOK, WireType
    <2>3. ASSUME NEW r \in Socks, conn'[r] # NoConn PROVE CleanSock(r)'
      BY <1>9, <2>3, <2>1 DEF ReconnectFails, Lease!Lose, WireInv, OneUnderWay,
         CleanSock, Quiet, Under, Cmd, Ctx,
         TypeInv, TypeOK, PoolType, WireType, ThreadType, LeaseInv, OwnConn, Trying
    <2> QED
      BY <2>2, <2>3 DEF WireInv
  <1>10. ASSUME NEW t \in Threads, RetryFails(t) PROVE WireInv'
    <2>1. /\ sock[t] \in up /\ sock[t] \in Socks /\ holder[sock[t]] = t
          /\ Ctx(t) \in 1 .. made /\ Ctx(t) \in Conns /\ Cmd(t) \in Cmds
      BY OwnContext, <1>10 DEF RetryFails, Trying
    <2>2. OneUnderWay'
      BY <1>10, <2>1 DEF RetryFails, WireInv, OneUnderWay, Quiet, Under, TypeInv,
         TypeOK, WireType
    <2>3. ASSUME NEW r \in Socks, conn'[r] # NoConn PROVE CleanSock(r)'
      BY <1>10, <2>3, <2>1 DEF RetryFails, WireInv, OneUnderWay, CleanSock, Quiet,
         Under, Cmd, Ctx,
         TypeInv, TypeOK, PoolType, WireType, ThreadType, LeaseInv, OwnConn, Trying
    <2> QED
      BY <2>2, <2>3 DEF WireInv
  <1>11. ASSUME NEW t \in Threads, ReleaseSocket(t) PROVE WireInv'
    <2>1. OneUnderWay'
      BY <1>11 DEF ReleaseSocket, Lease!Release, WireInv, OneUnderWay, Quiet, Under,
         TypeInv, TypeOK, WireType
    <2>2. ASSUME NEW r \in Socks, conn'[r] # NoConn PROVE CleanSock(r)'
      BY <1>11, <2>2 DEF ReleaseSocket, Lease!Release, WireInv, OneUnderWay,
         CleanSock, Quiet, Under, Cmd, Ctx,
         TypeInv, TypeOK, PoolType, WireType, ThreadType, LeaseInv, OwnConn, Trying
    <2> QED
      BY <2>1, <2>2 DEF WireInv
  <1>12. ASSUME NEW k \in Conns, Execute(k) PROVE WireInv'
    <2>1. OneUnderWay'
      BY <1>12, OneElement DEF Execute, WireInv, OneUnderWay, Quiet, Under, TypeInv,
         TypeOK, WireType
    <2>2. ASSUME NEW r \in Socks, conn'[r] # NoConn PROVE CleanSock(r)'
      <3>1. UNCHANGED <<err, cut, conn, pc, call, holder>>
        BY <1>12 DEF Execute
      <3>2. CASE conn[r] # k
        BY <1>12, <2>2, <3>1, <3>2 DEF Execute, WireInv, CleanSock, Quiet, Under, Cmd,
           TypeInv, TypeOK, PoolType, WireType
      <3>3. CASE conn[r] = k /\ k \notin err \cup cut
        <4>1. /\ holder[r] # NoProc /\ pc[holder[r]] \in {"wait1", "wait2"}
              /\ sent[k] = <<Cmd(holder[r])>> /\ got[k] = <<>>
          BY <1>12, <2>2, <3>1, <3>3 DEF Execute, WireInv, CleanSock, Quiet, Under
        <4>2. sent'[k] = <<>> /\ got'[k] = <<Cmd(holder[r])>>
          BY <1>12, <3>3, <4>1, OneElement DEF Execute, TypeInv, TypeOK, WireType
        <4> QED
          BY <3>1, <3>3, <4>1, <4>2 DEF CleanSock, Under, Cmd
      <3>4. CASE conn[r] = k /\ k \in err \cup cut
        BY <3>1, <3>4 DEF CleanSock
      <3> QED
        BY <3>2, <3>3, <3>4
    <2> QED
      BY <2>1, <2>2 DEF WireInv
  <1>13. ASSUME NEW k \in Conns, Break(k) PROVE WireInv'
    <2>1. OneUnderWay'
      BY <1>13, OneElement DEF Break, WireInv, OneUnderWay, Quiet, Under, TypeInv,
         TypeOK, WireType
    <2>2. ASSUME NEW r \in Socks, conn'[r] # NoConn PROVE CleanSock(r)'
      BY <1>13, <2>2, OneElement DEF Break, WireInv, OneUnderWay, CleanSock, Quiet,
         Under, Cmd, Ctx,
         TypeInv, TypeOK, PoolType, WireType, ThreadType, LeaseInv, OwnConn, Trying
    <2> QED
      BY <2>1, <2>2 DEF WireInv
  <1>14. CASE UNCHANGED vars
    BY <1>14 DEF vars, WireInv, OneUnderWay, CleanSock, Quiet, Under, Cmd
  <1> QED
    BY <1>1, <1>2, <1>3, <1>4, <1>5, <1>6, <1>7, <1>8, <1>9, <1>10, <1>11, <1>12,
       <1>13, <1>14 DEF Next, Step, Finished

\* A reply that is read is on a clean connection, so it is the caller's own.
LEMMA ReplyIsOwnStep == TypeInv /\ WireInv /\ ReplyIsOwn /\ [Next]_vars => ReplyIsOwn'
PROOF
  <1> SUFFICES ASSUME TypeInv, WireInv, ReplyIsOwn, [Next]_vars,
                      NEW u \in Threads, pc'[u] = "done", reply'[u] # NoReply
               PROVE  reply'[u] = Cmd(u)'
    BY DEF ReplyIsOwn
  <1> USE DEF Goto, ReplyIsOwn, Cmd
  <1>1. /\ pc \in [Threads -> {"idle", "first", "wait1", "connect", "retry", "wait2", "done"}]
        /\ reply \in [Threads -> Cmds \cup {NoReply}] /\ DOMAIN call = Threads
    BY DEF TypeInv, TypeOK, ThreadType, Cmds
  <1>2. ASSUME NEW t \in Threads, Receive(t) PROVE reply'[u] = Cmd(u)'
    <2>1. Ctx(t) \in Conns /\ sock[t] \in Socks /\ sock[t] \in up /\ holder[sock[t]] = t
      BY <1>2, OwnContext DEF Receive, Trying
    <2>2. CleanSock(sock[t])
      BY <2>1 DEF WireInv, TypeInv, OwnConn
    <2>3. got[Ctx(t)] = <<Cmd(t)>>
      BY <1>2, <2>1, <2>2 DEF Receive, WireInv, OneUnderWay, CleanSock, Quiet, Under,
         Ctx
    <2>4. reply' = [reply EXCEPT ![t] = Cmd(t)] /\ call' = call
      BY <1>2, <2>3, OneElement DEF Receive
    <2>5. CASE u = t
      BY <1>1, <2>4, <2>5
    <2>6. CASE u # t
      BY <1>1, <1>2, <2>4, <2>6 DEF Receive
    <2> QED
      BY <2>5, <2>6
  <1>3. ASSUME NEW t \in Threads, \/ NoSocket(t) \/ Send(t) \/ FirstFails(t) \/ Reconnect(t)
                                \/ ReconnectFails(t) \/ RetryFails(t) \/ ReleaseSocket(t)
        PROVE  reply'[u] = Cmd(u)'
    BY <1>1, <1>3 DEF NoSocket, Send, Waiting, FirstFails, Reconnect, ReconnectFails,
       RetryFails, ReleaseSocket
  <1>4. ASSUME NEW t \in Threads, NEW s \in Socks, GetSocket(t, s) PROVE reply'[u] = Cmd(u)'
    BY <1>1, <1>4 DEF GetSocket
  <1>5. CASE UNCHANGED <<pc, reply, call>>
    BY <1>5
  <1> QED
    BY <1>2, <1>3, <1>4, <1>5 DEF Next, Step, Finished, vars, Create, ConnectFree, Execute,
       Break

-----------------------------------------------------------------------------
(* How often a command is executed.                                         *)

\* How often the command c has been sent.
Sends(c) ==
  IF c[2] < call[c[1]] THEN 2
  ELSE IF c[2] > call[c[1]] \/ pc[c[1]] = "first" THEN 0
  ELSE IF pc[c[1]] \in {"wait1", "connect", "retry"} THEN 1
  ELSE 2

\* How many copies of it wait to be executed.
Copies(c) == Cardinality({k \in Conns : sent[k] = <<c>>})

\* What is executed was sent, and what is answered was executed.
CountInv ==
  /\ \A c \in Cmds : executed[c] + Copies(c) <= Sends(c)
  /\ \A k \in Conns, c \in Cmds : got[k] = <<c>> => executed[c] >= 1
  /\ \A c \in replied : executed[c] >= 1

IInv == TypeInv /\ WireInv /\ ReplyIsOwn /\ CountInv

LEMMA ConnsFinite == IsFiniteSet(Conns)
PROOF
  <1>1. 1 \in Int /\ MaxConns \in Int
    BY CommandAssumption
  <1> QED
    BY <1>1, FS_Interval DEF Conns

\* The copies of a command when the queue of one connection changes.
LEMMA CopiesChange ==
  ASSUME NEW k \in Conns, NEW c,
         \A j \in Conns : j # k => sent'[j] = sent[j]
  PROVE  /\ Copies(c) \in Nat /\ Copies(c)' \in Nat
         /\ (sent[k] = <<c>> <=> sent'[k] = <<c>>) => Copies(c)' = Copies(c)
         /\ sent[k] # <<c>> /\ sent'[k] = <<c>> => Copies(c)' = Copies(c) + 1
         /\ sent[k] = <<c>> /\ sent'[k] # <<c>> => Copies(c)' = Copies(c) - 1
PROOF
  <1> DEFINE S == {j \in Conns : sent[j] = <<c>>}
             T == {j \in Conns : sent'[j] = <<c>>}
  <1>1. IsFiniteSet(Conns)
    BY ConnsFinite
  <1>2. /\ S \in SUBSET Conns /\ T \in SUBSET Conns
        /\ \A j \in Conns : j # k => (j \in S <=> j \in T)
    OBVIOUS
  <1>3. (k \in S <=> sent[k] = <<c>>) /\ (k \in T <=> sent'[k] = <<c>>)
    OBVIOUS
  <1>4. Copies(c) = Cardinality(S) /\ Copies(c)' = Cardinality(T)
    BY DEF Copies, Conns
  <1> HIDE DEF S, T
  <1>5. /\ Cardinality(S) \in Nat /\ Cardinality(T) \in Nat
        /\ Cardinality(T) = Cardinality(S) + Bit(k \in T) - Bit(k \in S)
    BY <1>1, <1>2, CountChange
  <1> QED
    BY <1>3, <1>4, <1>5 DEF Bit

LEMMA CopiesType ==
  ASSUME NEW c
  PROVE  Copies(c) \in Nat
PROOF
  <1>1. IsFiniteSet(Conns)
    BY ConnsFinite
  <1> QED
    BY <1>1, NoneCounted DEF Copies

LEMMA InitCountInv == Init => CountInv
PROOF
  <1> SUFFICES ASSUME Init PROVE CountInv
    OBVIOUS
  <1> USE CommandAssumption DEF Cmds
  <1>1. ASSUME NEW c \in Cmds PROVE executed[c] + Copies(c) <= Sends(c)
    <2>1. {k \in Conns : sent[k] = <<c>>} = {}
      BY OneElement DEF Init
    <2>2. Copies(c) = 0
      BY <2>1, FS_EmptySet DEF Copies
    <2>3. executed[c] = 0 /\ Sends(c) = 0
      BY DEF Init, Sends, Calls
    <2> QED
      BY <2>2, <2>3
  <1>2. ASSUME NEW k \in Conns, NEW c \in Cmds, got[k] = <<c>> PROVE FALSE
    BY <1>2, OneElement DEF Init
  <1>3. replied = {}
    BY DEF Init
  <1> QED
    BY <1>1, <1>2, <1>3 DEF CountInv

\* A step that sends nothing and executes nothing keeps the count.
LEMMA CountFrame ==
  ASSUME CountInv, TypeOK, UNCHANGED <<sent, executed, replied>>,
         \A c \in Cmds : Sends(c) \in Nat /\ Sends(c)' \in Nat /\ Sends(c) <= Sends(c)',
         \A k \in Conns : got'[k] = got[k] \/ got'[k] = <<>>
  PROVE  CountInv'
PROOF
  <1>1. ASSUME NEW c \in Cmds PROVE (executed[c] + Copies(c) <= Sends(c))'
    <2>1. Copies(c)' = Copies(c) /\ Copies(c) \in Nat /\ executed[c] \in Nat
      BY <1>1, CommandAssumption, CopiesType DEF Copies, TypeOK, HistoryType, Cmds, Conns
    <2> QED
      BY <1>1, <2>1 DEF CountInv
  <1>2. \A k \in Conns, c \in Cmds : got'[k] = <<c>> => got[k] = <<c>>
    BY OneElement
  <1> QED
    BY <1>1, <1>2 DEF CountInv, Conns, Cmds, Calls

\* What a call in progress has sent never shrinks.
LEMMA SendsGrow ==
  ASSUME TypeInv, UNCHANGED call, NEW t \in Threads, NEW l, pc' = [pc EXCEPT ![t] = l],
         \/ l = "connect" /\ pc[t] \in {"first", "wait1"}
         \/ l = "retry" /\ pc[t] = "connect"
         \/ l = "done" /\ pc[t] \in Trying
         \/ l = "idle" /\ pc[t] = "done"
  PROVE  \A c \in Cmds : Sends(c) \in Nat /\ Sends(c)' \in Nat /\ Sends(c) <= Sends(c)'
PROOF
  <1> SUFFICES ASSUME NEW c \in Cmds
               PROVE  Sends(c) \in Nat /\ Sends(c)' \in Nat /\ Sends(c) <= Sends(c)'
    OBVIOUS
  <1>1. c[1] \in Threads /\ c[2] \in Nat /\ call[c[1]] \in Nat
    BY CommandAssumption DEF Cmds, Calls, TypeInv, TypeOK, ThreadType
  <1> QED
    BY <1>1 DEF Sends, Trying, TypeInv, TypeOK, ThreadType

LEMMA CountInvStep == TypeInv /\ WireInv /\ CountInv /\ [Next]_vars => CountInv'
PROOF
  <1> SUFFICES ASSUME TypeInv, WireInv, CountInv, [Next]_vars PROVE CountInv'
    OBVIOUS
  <1> USE CommandAssumption DEF leaseVars, wireVars, Goto
  <1>1. /\ TypeOK /\ executed \in [Cmds -> Nat] /\ sent \in [Conns -> Seq(Cmds)]
        /\ got \in [Conns -> Seq(Cmds)] /\ call \in [Threads -> 0 .. MaxCalls]
        /\ pc \in [Threads -> {"idle", "first", "wait1", "connect", "retry", "wait2", "done"}]
    BY DEF TypeInv, TypeOK, HistoryType, WireType, ThreadType, Cmds
  <1>2. \A c \in Cmds : /\ c[1] \in Threads /\ c[2] \in Nat /\ call[c[1]] \in Nat
                        /\ Sends(c) \in Nat
    BY <1>1 DEF Cmds, Calls, Sends
  <1>3. ASSUME NEW t \in Threads, NEW s \in Socks, GetSocket(t, s) PROVE CountInv'
    <2>1. \A c \in Cmds : Sends(c)' = Sends(c)
      BY <1>1, <1>2, <1>3 DEF GetSocket, Sends
    <2> QED
      BY <1>1, <1>2, <1>3, <2>1, CountFrame DEF GetSocket
  <1>4. ASSUME NEW t \in Threads, NoSocket(t) PROVE CountInv'
    <2>1. \A c \in Cmds : Sends(c)' \in Nat /\ Sends(c) <= Sends(c)'
      BY <1>1, <1>2, <1>4 DEF NoSocket, Sends
    <2> QED
      BY <1>1, <1>2, <1>4, <2>1, CountFrame DEF NoSocket
  <1>5. ASSUME NEW t \in Threads, Send(t) PROVE CountInv'
    <2>1. Ctx(t) \in Conns /\ sock[t] \in Socks /\ sock[t] \in up /\ holder[sock[t]] = t
          /\ Cmd(t) \in Cmds
      BY <1>5, OwnContext DEF Send, Trying
    <2>2. sent[Ctx(t)] = <<>> /\ sent' = [sent EXCEPT ![Ctx(t)] = <<Cmd(t)>>]
      <3>1. CleanSock(sock[t])
        BY <2>1 DEF WireInv, TypeInv, OwnConn
      <3> QED
        BY <1>5, <2>1, <3>1, OneElement DEF Send, CleanSock, Quiet, Ctx
    <2>3. ASSUME NEW c \in Cmds PROVE (executed[c] + Copies(c) <= Sends(c))'
      <3>1. executed' = executed /\ executed[c] \in Nat /\ executed[c] + Copies(c) <= Sends(c)
        BY <1>1, <1>5 DEF Send, CountInv
      <3>2. /\ Copies(c) \in Nat /\ Copies(c)' \in Nat
            /\ c # Cmd(t) => Copies(c)' = Copies(c)
            /\ c = Cmd(t) => Copies(c)' = Copies(c) + 1
        BY <1>1, <2>1, <2>2, CopiesChange, OneElement
      <3>3. c # Cmd(t) => Sends(c)' = Sends(c)
        BY <1>1, <1>2, <1>5 DEF Send, Waiting, Sends, Cmd, Cmds
      <3>4. c = Cmd(t) => Sends(c)' = Sends(c) + 1
        BY <1>1, <1>2, <1>5 DEF Send, Waiting, Sends, Cmd
      <3>5. Sends(c) \in Nat
        BY <1>2
      <3> QED
        BY <3>1, <3>2, <3>3, <3>4, <3>5
    <2> QED
      BY <1>5, <2>3 DEF Send, CountInv
  <1>6. ASSUME NEW t \in Threads, Receive(t) PROVE CountInv'
    <2>1. Ctx(t) \in Conns
      BY <1>6, OwnContext DEF Receive, Trying
    <2>2. PICK c \in Cmds : got[Ctx(t)] = <<c>>
      BY <1>6, <2>1 DEF Receive, WireInv, OneUnderWay, Quiet, Under
    <2>3. got' = [got EXCEPT ![Ctx(t)] = <<>>] /\ replied' = replied \cup {c}
      BY <1>6, <2>2, OneElement DEF Receive
    <2>4. \A d \in Cmds : Sends(d)' \in Nat /\ Sends(d) <= Sends(d)'
      BY <1>6, SendsGrow DEF Receive, Trying
    <2>5. ASSUME NEW d \in Cmds PROVE (executed[d] + Copies(d) <= Sends(d))'
      <3>1. Copies(d)' = Copies(d) /\ Copies(d) \in Nat /\ executed'[d] = executed[d]
        BY <1>6, CopiesType DEF Receive, Copies
      <3> QED
        BY <1>1, <1>2, <2>4, <3>1 DEF CountInv
    <2>6. executed[c] >= 1
      BY <2>1, <2>2 DEF CountInv
    <2>7. \A k \in Conns, d \in Cmds : got'[k] = <<d>> => got[k] = <<d>>
      BY <1>1, <2>1, <2>3, OneElement
    <2> QED
      BY <1>6, <2>3, <2>5, <2>6, <2>7 DEF CountInv, Receive
  <1>7. ASSUME NEW t \in Threads, \/ FirstFails(t) \/ Reconnect(t) \/ ReconnectFails(t)
                                  \/ RetryFails(t) \/ ReleaseSocket(t)
        PROVE  CountInv'
    <2>1. \A d \in Cmds : Sends(d) \in Nat /\ Sends(d)' \in Nat /\ Sends(d) <= Sends(d)'
      BY <1>7, SendsGrow DEF FirstFails, Reconnect, ReconnectFails, RetryFails,
         ReleaseSocket, Trying
    <2>2. \A k \in Conns : got'[k] = got[k] \/ got'[k] = <<>>
      BY <1>1, <1>7 DEF FirstFails, Reconnect, ReconnectFails, RetryFails, ReleaseSocket
    <2> QED
      BY <1>1, <1>7, <2>1, <2>2, CountFrame DEF FirstFails, Reconnect, ReconnectFails,
         RetryFails, ReleaseSocket
  <1>8. ASSUME NEW k \in Conns, Execute(k) PROVE CountInv'
    <2>1. PICK c \in Cmds : sent[k] = <<c>> /\ got[k] = <<>>
      BY <1>8 DEF Execute, WireInv, OneUnderWay, Quiet, Under
    <2>2. /\ sent' = [sent EXCEPT ![k] = <<>>]
          /\ executed' = [executed EXCEPT ![c] = @ + 1]
          /\ got' = got \/ got' = [got EXCEPT ![k] = <<c>>]
      BY <1>1, <1>8, <2>1, OneElement DEF Execute
    <2>3. ASSUME NEW d \in Cmds PROVE (executed[d] + Copies(d) <= Sends(d))'
      <3>1. executed[d] \in Nat /\ executed[d] + Copies(d) <= Sends(d)
        BY <1>1 DEF CountInv
      <3>2. /\ Copies(d) \in Nat /\ Copies(d)' \in Nat
            /\ d # c => Copies(d)' = Copies(d)
            /\ d = c => Copies(d)' = Copies(d) - 1
        <4>1. /\ \A j \in Conns : j # k => sent'[j] = sent[j]
              /\ sent'[k] # <<d>> /\ (sent[k] = <<d>> <=> d = c)
          BY <1>1, <2>1, <2>2, OneElement
        <4> QED
          BY <4>1, CopiesChange
      <3>3. Sends(d)' = Sends(d) /\ Sends(d) \in Nat
        BY <1>2, <1>8 DEF Execute, Sends
      <3>4. executed'[d] = IF d = c THEN executed[d] + 1 ELSE executed[d]
        BY <1>1, <2>2
      <3> QED
        BY <3>1, <3>2, <3>3, <3>4
    <2>4. /\ \A d \in Cmds : /\ executed[d] \in Nat /\ executed'[d] \in Nat
                             /\ executed'[d] >= executed[d]
          /\ executed'[c] >= 1
      BY <1>1, <2>2
    <2>5. ASSUME NEW j \in Conns, NEW d \in Cmds, got'[j] = <<d>> PROVE executed'[d] >= 1
      <3>1. CASE got'[j] = got[j]
        BY <2>4, <2>5, <3>1 DEF CountInv
      <3>2. CASE got'[j] = <<c>>
        BY <2>4, <2>5, <3>2, OneElement
      <3> QED
        BY <1>1, <2>2, <3>1, <3>2
    <2>6. \A d \in replied : executed[d] >= 1 /\ d \in Cmds
      BY DEF CountInv, TypeInv, TypeOK, HistoryType, Cmds
    <2> QED
      BY <1>1, <1>8, <2>2, <2>3, <2>4, <2>5, <2>6 DEF CountInv, Execute
  <1>9. ASSUME NEW k \in Conns, Break(k) PROVE CountInv'
    <2>1. sent' = [sent EXCEPT ![k] = <<>>] /\ got' = [got EXCEPT ![k] = <<>>]
      BY <1>9 DEF Break
    <2>2. ASSUME NEW d \in Cmds PROVE (executed[d] + Copies(d) <= Sends(d))'
      <3>1. executed[d] \in Nat /\ executed[d] + Copies(d) <= Sends(d)
        BY <1>1 DEF CountInv
      <3>2. /\ Copies(d) \in Nat /\ Copies(d)' \in Nat
            /\ Copies(d)' = Copies(d) \/ Copies(d)' = Copies(d) - 1
        BY <1>1, <2>1, CopiesChange, OneElement
      <3>3. Sends(d)' = Sends(d) /\ Sends(d) \in Nat /\ executed' = executed
        BY <1>2, <1>9 DEF Break, Sends
      <3> QED
        BY <3>1, <3>2, <3>3
    <2>3. \A j \in Conns, d \in Cmds : got'[j] = <<d>> => got[j] = <<d>>
      BY <1>1, <2>1, OneElement
    <2> QED
      BY <1>9, <2>2, <2>3 DEF CountInv, Break
  <1>10. CASE UNCHANGED <<sent, got, executed, replied, pc, call>>
    <2>1. \A c \in Cmds : Sends(c)' = Sends(c)
      BY <1>10 DEF Sends
    <2> QED
      BY <1>1, <1>2, <1>10, <2>1, CountFrame
  <1> QED
    BY <1>3, <1>4, <1>5, <1>6, <1>7, <1>8, <1>9, <1>10
       DEF Next, Step, Finished, vars, Create, ConnectFree

-----------------------------------------------------------------------------
(* The theorems.                                                            *)

LEMMA Invariance == Spec => []IInv
PROOF
  <1>1. Init => IInv
    BY InitTypeInv, InitWireInv, InitCountInv DEF IInv
  <1>2. IInv /\ [Next]_vars => IInv'
    BY TypeInvStep, WireInvStep, ReplyIsOwnStep, CountInvStep DEF IInv
  <1> QED
    BY <1>1, <1>2, PTL DEF Spec

\* A caller that gets a reply gets the one to the command it has just sent:
\* whatever the order of timeouts, broken connections and late replies,
\* redis_vcommand never reads the reply to another command from its socket.
THEOREM OwnReply == Spec => []ReplyIsOwn
PROOF
  <1>1. IInv => ReplyIsOwn
    BY DEF IInv
  <1> QED
    BY <1>1, Invariance, PTL

\* The variables have their types, and the context a socket will be used with
\* has nothing under way that its holder is not waiting for: redis_vcommand
\* closes the connection of a failed attempt, or leaves an error on it.
THEOREM CleanWire == Spec => []WireIsClean
PROOF
  <1>1. IInv => WireIsClean
    <2> SUFFICES ASSUME IInv, NEW s \in Socks, conn[s] # NoConn
                 PROVE  \/ conn[s] \in err \cup cut
                        \/ sent[conn[s]] = <<>> /\ got[conn[s]] = <<>>
                        \/ /\ holder[s] # NoProc /\ pc[holder[s]] \in {"wait1", "wait2"}
                           /\ \/ sent[conn[s]] = <<Cmd(holder[s])>> /\ got[conn[s]] = <<>>
                              \/ sent[conn[s]] = <<>> /\ got[conn[s]] = <<Cmd(holder[s])>>
      BY DEF IInv, TypeInv, WireIsClean
    <2> QED
      BY DEF IInv, WireInv, CleanSock, Quiet, Under
  <1> QED
    BY <1>1, Invariance, PTL

\* However often connections break, the server executes a command at most
\* twice, once per attempt of redis_vcommand, and at least once if the caller
\* got a reply to it.
THEOREM TwoAttempts == Spec => []AtMostTwice
PROOF
  <1>1. IInv => AtMostTwice
    <2> SUFFICES ASSUME IInv, NEW c \in Threads \X Calls
                 PROVE  executed[c] <= 2 /\ (c \in replied => executed[c] >= 1)
      BY DEF AtMostTwice
    <2>1. executed[c] + Copies(c) <= Sends(c) /\ executed[c] \in Nat /\ Copies(c) \in Nat
      BY CopiesType, CommandAssumption DEF IInv, CountInv, TypeInv, TypeOK, HistoryType,
         Cmds
    <2>2. Sends(c) \in 0 .. 2
      BY DEF Sends
    <2> QED
      BY <2>1, <2>2 DEF IInv, CountInv
  <1> QED
    BY <1>1, Invariance, PTL

=============================================================================
