-------------------------- MODULE RedisPoolProofs --------------------------
(***************************************************************************)
(* Theorems about the connection pool, for every number of threads,        *)
(* sockets, endpoints and contexts, every delay and every clock.           *)
(*                                                                         *)
(* The inductive invariants are layers: each is proved with the help of    *)
(* those before it.  Control says where threads can be, LockDiscipline who *)
(* has which mutex, SocketStates what state each socket is in at each      *)
(* point of the code; the properties of RedisPool follow.                  *)
(***************************************************************************)
EXTENDS RedisPool, TLAPS

\* Labels at which the main thread is still building the list.
Building == {"init", "connect", "stamp", "link"}

\* The labels of a search that has a current socket.
Searching(t) ==
  \/ pc[t] \in {"scan", "locked", "skip", "grab"}
  \/ pc[t] \in {"connect", "stamp"} /\ ret[t] = "get"

\* Where the threads can be, and what their "cur" and "start" then are.
MainControl ==
  /\ pc[Main] \in Building =>
       /\ cur[Main] \in 0 .. NumSocks
       /\ redis_pool = cur[Main] - 1
       /\ pc[Main] # "init" => cur[Main] # NumSocks
  /\ pc[Main] = "serving" => redis_pool = NumSocks - 1
  /\ pc[Main] = "free" => cur[Main] \in Linked \cup {NULL}
  /\ pc[Main] \in {"connect", "stamp"} => ret[Main] = "init"
  /\ last_used \in Linked \cup {NULL}

ThreadControl ==
  \A t \in Threads :
    /\ pc[t] # "idle" => pc[Main] = "serving"
    /\ pc[t] = "scan" \/ Locked(t) => cur[t] \in Linked
    /\ pc[t] \in {"connect", "stamp"} => ret[t] \in {"get", "cmd"}
    /\ start[t] \in Linked \cup {NULL}
    /\ Searching(t) => start[t] # NULL
    /\ start[t] # NULL => Searching(t) \/ (pc[t] = "none" /\ cur[t] = start[t])

TypeInv == TypeOK /\ MainControl /\ ThreadControl

LEMMA InitTypeInv == Init => TypeInv
PROOF
  <1> SUFFICES ASSUME Init PROVE TypeInv
    OBVIOUS
  <1> USE PoolAssumption DEF Init
  <1>1. TypeOK
    BY DEF TypeOK, InstType, SockType, HeapType, CallType, ConnType, Procs, Socks,
       Endpoints, NULL, CallLabels, MainLabels
  <1>2. MainControl
    BY DEF MainControl, Building, Linked, Procs, Socks, NULL
  <1>3. ThreadControl
    BY DEF ThreadControl, Linked, Locked, Searching, Procs, Socks, NULL
  <1> QED
    BY <1>1, <1>2, <1>3 DEF TypeInv

LEMMA InRange == \A b \in Nat : b % NumEndpoints \in Endpoints
PROOF
  BY PoolAssumption DEF Endpoints

LEMMA BackupInRange ==
  ASSUME SockType, NEW s \in Socks, NEW h \in Nat
  PROVE  (backup[s] + h) % NumEndpoints \in Endpoints
PROOF
  <1>1. backup[s] + h \in Nat
    BY PoolAssumption DEF SockType, Endpoints
  <1> QED
    BY <1>1, InRange

LEMMA AdvanceControl ==
  ASSUME TypeInv, NEW t \in Threads, Advance(t), pc[t] \in {"scan", "locked", "skip"}
  PROVE  /\ cur' \in [Procs -> Socks \cup {NULL, NumSocks}]
         /\ pc' \in [Procs -> CallLabels \cup MainLabels]
         /\ skipped' \in [Threads -> SUBSET Socks]
         /\ start' = start
         /\ cur'[t] \in Linked
         /\ (pc'[t] = "none" /\ cur'[t] = start[t]) \/ pc'[t] = "scan"
         /\ \A p \in Procs \ {t} : pc'[p] = pc[p] /\ cur'[p] = cur[p]
PROOF
  BY PoolAssumption DEF Advance, next, Goto, TypeInv, TypeOK, InstType, CallType,
     ThreadControl, Linked, Locked, Searching, Procs, Socks, NULL, CallLabels

LEMMA TypeInvStep == TypeInv /\ [Next]_vars => TypeInv'
PROOF
  <1> SUFFICES ASSUME TypeInv, [Next]_vars PROVE TypeInv'
    OBVIOUS
  <1> USE PoolAssumption DEF TypeInv, TypeOK, Procs, Socks, NULL, Goto, Unlock, vars,
     instVars, sockVars, heapVars, callVars, connVars
  <1>1. ASSUME NEW t \in Threads, GetStart(t) PROVE TypeInv'
    <2>1. InstType' /\ SockType' /\ HeapType' /\ ConnType'
      BY <1>1 DEF GetStart, InstType, SockType, HeapType, ConnType
    <2>2. CallType'
      BY <1>1 DEF GetStart, CallType, CallLabels, MainLabels, MainControl, Linked,
         InstType
    <2>3. MainControl'
      BY <1>1 DEF GetStart, MainControl, ThreadControl, Locked, Linked, Building,
         CallType, InstType, CallLabels, MainLabels
    <2>4. ThreadControl'
      BY <1>1 DEF GetStart, ThreadControl, MainControl, Locked, Linked, Building,
         Searching, CallType, InstType, ConnType, CallLabels, MainLabels
    <2> QED
      BY <2>1, <2>2, <2>3, <2>4
  <1>2. ASSUME NEW t \in Threads, TrylockBusy(t) PROVE TypeInv'
    <2>1. InstType' /\ SockType' /\ HeapType' /\ ConnType'
      BY <1>2 DEF TrylockBusy, InstType, SockType, HeapType, ConnType
    <2>2. CallType'
      BY AdvanceControl, <1>2 DEF TrylockBusy, CallType, CallLabels, MainLabels
    <2>3. MainControl'
      BY AdvanceControl, <1>2 DEF TrylockBusy, MainControl, ThreadControl, Locked,
         Linked, Building, CallType, InstType, CallLabels, MainLabels
    <2>4. ThreadControl'
      BY AdvanceControl, <1>2 DEF TrylockBusy, ThreadControl, MainControl, Locked,
         Linked, Building, Searching, CallType, InstType, ConnType, CallLabels,
         MainLabels
    <2> QED
      BY <2>1, <2>2, <2>3, <2>4
  <1>3. ASSUME NEW t \in Threads, TrylockOk(t) PROVE TypeInv'
    <2>1. cur[t] \in Socks
      BY <1>3 DEF TrylockOk, ThreadControl, Locked, Linked
    <2>2. InstType' /\ HeapType' /\ ConnType'
      BY <1>3 DEF TrylockOk, InstType, HeapType, ConnType
    <2>3. SockType'
      BY <1>3, <2>1 DEF TrylockOk, SockType
    <2>4. CallType'
      BY <1>3, <2>1 DEF TrylockOk, CallType, CallLabels, MainLabels
    <2>5. MainControl'
      BY <1>3, <2>1 DEF TrylockOk, MainControl, ThreadControl, Locked, Linked,
         Building, CallType, InstType, CallLabels, MainLabels
    <2>6. ThreadControl'
      BY <1>3, <2>1 DEF TrylockOk, ThreadControl, MainControl, Locked, Linked,
         Building, Searching, CallType, InstType, ConnType, CallLabels, MainLabels
    <2> QED
      BY <2>2, <2>3, <2>4, <2>5, <2>6
  <1>4. ASSUME NEW t \in Threads, Examine(t) PROVE TypeInv'
    <2>1. cur[t] \in Socks
      BY <1>4 DEF Examine, ThreadControl, Locked, Linked
    <2>2. InstType' /\ HeapType'
      BY <1>4 DEF Examine, InstType, HeapType
    <2>3. SockType'
      BY <1>4, <2>1 DEF Examine, SockType
    <2>4. CallType'
      BY AdvanceControl, <1>4, <2>1 DEF Examine, CallType, CallLabels, MainLabels,
         CallConnect
    <2>5. ConnType'
      BY <1>4, <2>1 DEF Examine, ConnType, CallConnect
    <2>6. MainControl'
      BY AdvanceControl, <1>4, <2>1 DEF Examine, MainControl, ThreadControl, Locked,
         Linked, Building, CallType, InstType, CallLabels, MainLabels, CallConnect
    <2>7. ThreadControl'
      BY AdvanceControl, <1>4, <2>1 DEF Examine, ThreadControl, MainControl, Locked,
         Linked, Building, Searching, CallType, InstType, ConnType, CallLabels,
         MainLabels, CallConnect
    <2> QED
      BY <2>2, <2>3, <2>4, <2>5, <2>6, <2>7
  <1>5. ASSUME NEW t \in Threads, SkipUnconnected(t) PROVE TypeInv'
    <2>1. cur[t] \in Socks
      BY <1>5 DEF SkipUnconnected, ThreadControl, Locked, Linked
    <2>2. InstType' /\ HeapType' /\ ConnType'
      BY <1>5 DEF SkipUnconnected, InstType, HeapType, ConnType
    <2>3. SockType'
      BY <1>5, <2>1 DEF SkipUnconnected, SockType
    <2>4. CallType'
      BY AdvanceControl, <1>5, <2>1 DEF SkipUnconnected, CallType, CallLabels,
         MainLabels
    <2>5. MainControl'
      BY AdvanceControl, <1>5, <2>1 DEF SkipUnconnected, MainControl, ThreadControl,
         Locked, Linked, Building, CallType, InstType, CallLabels, MainLabels
    <2>6. ThreadControl'
      BY AdvanceControl, <1>5, <2>1 DEF SkipUnconnected, ThreadControl, MainControl,
         Locked, Linked, Building, Searching, CallType, InstType, ConnType,
         CallLabels,
         MainLabels
    <2> QED
      BY <2>2, <2>3, <2>4, <2>5, <2>6
  <1>6. ASSUME NEW t \in Threads, Grab(t) PROVE TypeInv'
    <2>1. cur[t] \in Socks
      BY <1>6 DEF Grab, ThreadControl, Locked, Linked
    <2>2. SockType' /\ HeapType' /\ ConnType'
      BY <1>6 DEF Grab, SockType, HeapType, ConnType
    <2>3. InstType'
      BY <1>6, <2>1 DEF Grab, InstType, next, InstType, CallType
    <2>4. CallType'
      BY <1>6, <2>1 DEF Grab, CallType, CallLabels, MainLabels
    <2>5. MainControl'
      BY <1>6, <2>1 DEF Grab, MainControl, ThreadControl, Locked, Linked, Building,
         CallType, InstType, CallLabels, MainLabels, next
    <2>6. ThreadControl'
      BY <1>6, <2>1 DEF Grab, ThreadControl, MainControl, Locked, Linked, Building,
         Searching, CallType, InstType, ConnType, CallLabels, MainLabels
    <2> QED
      BY <2>2, <2>3, <2>4, <2>5, <2>6
  <1>7. ASSUME NEW t \in Threads, ReturnNull(t) PROVE TypeInv'
    <2>1. InstType' /\ SockType' /\ HeapType' /\ ConnType'
      BY <1>7 DEF ReturnNull, InstType, SockType, HeapType, ConnType
    <2>2. CallType'
      BY <1>7 DEF ReturnNull, CallType, CallLabels, MainLabels
    <2>3. MainControl'
      BY <1>7 DEF ReturnNull, MainControl, ThreadControl, Locked, Linked, Building,
         CallType, InstType, CallLabels, MainLabels
    <2>4. ThreadControl'
      BY <1>7 DEF ReturnNull, ThreadControl, MainControl, Locked, Linked, Building,
         Searching, CallType, InstType, ConnType, CallLabels, MainLabels
    <2> QED
      BY <2>1, <2>2, <2>3, <2>4
  <1>8. ASSUME NEW t \in Threads, CommandReply(t) PROVE TypeInv'
    <2>1. InstType' /\ SockType' /\ HeapType' /\ ConnType'
      BY <1>8 DEF CommandReply, InstType, SockType, HeapType, ConnType
    <2>2. CallType'
      BY <1>8 DEF CommandReply, CallType, CallLabels, MainLabels
    <2>3. MainControl'
      BY <1>8 DEF CommandReply, MainControl, ThreadControl, Locked, Linked, Building,
         CallType, InstType, CallLabels, MainLabels
    <2>4. ThreadControl'
      BY <1>8 DEF CommandReply, ThreadControl, MainControl, Locked, Linked, Building,
         Searching, CallType, InstType, ConnType, CallLabels, MainLabels
    <2> QED
      BY <2>1, <2>2, <2>3, <2>4
  <1>9. ASSUME NEW t \in Threads, CommandFails(t) PROVE TypeInv'
    <2>1. InstType' /\ SockType'
      BY <1>9 DEF CommandFails, CallConnect, InstType, SockType
    <2>2. HeapType'
      BY <1>9 DEF CommandFails, CallConnect, HeapType
    <2>3. CallType'
      BY <1>9 DEF CommandFails, CallConnect, CallType, CallLabels, MainLabels
    <2>4. ConnType'
      BY <1>9 DEF CommandFails, CallConnect, ConnType
    <2>5. MainControl'
      BY <1>9 DEF CommandFails, CallConnect, MainControl, ThreadControl, Locked,
         Linked, Building, CallType, InstType, CallLabels, MainLabels
    <2>6. ThreadControl'
      BY <1>9 DEF CommandFails, CallConnect, ThreadControl, MainControl, Locked,
         Linked, Building, Searching, CallType, InstType, ConnType, CallLabels,
         MainLabels
    <2> QED
      BY <2>1, <2>2, <2>3, <2>4, <2>5, <2>6
  <1>10. ASSUME NEW t \in Threads, RetryReply(t) PROVE TypeInv'
    <2>1. InstType' /\ SockType' /\ HeapType' /\ ConnType'
      BY <1>10 DEF RetryReply, InstType, SockType, HeapType, ConnType
    <2>2. CallType'
      BY <1>10 DEF RetryReply, CallType, CallLabels, MainLabels
    <2>3. MainControl'
      BY <1>10 DEF RetryReply, MainControl, ThreadControl, Locked, Linked, Building,
         CallType, InstType, CallLabels, MainLabels
    <2>4. ThreadControl'
      BY <1>10 DEF RetryReply, ThreadControl, MainControl, Locked, Linked, Building,
         Searching, CallType, InstType, ConnType, CallLabels, MainLabels
    <2> QED
      BY <2>1, <2>2, <2>3, <2>4
  <1>11. ASSUME NEW t \in Threads, RetryFails(t) PROVE TypeInv'
    <2>1. cur[t] \in Socks
      BY <1>11 DEF RetryFails, ThreadControl, Locked, Linked
    <2>2. InstType' /\ SockType' /\ ConnType'
      BY <1>11 DEF RetryFails, InstType, SockType, ConnType
    <2>3. HeapType'
      BY <1>11, <2>1 DEF RetryFails, HeapType, SockType
    <2>4. CallType'
      BY <1>11, <2>1 DEF RetryFails, CallType, CallLabels, MainLabels
    <2>5. MainControl'
      BY <1>11, <2>1 DEF RetryFails, MainControl, ThreadControl, Locked, Linked,
         Building, CallType, InstType, CallLabels, MainLabels
    <2>6. ThreadControl'
      BY <1>11, <2>1 DEF RetryFails, ThreadControl, MainControl, Locked, Linked,
         Building, Searching, CallType, InstType, ConnType, CallLabels, MainLabels
    <2> QED
      BY <2>2, <2>3, <2>4, <2>5, <2>6
  <1>12. ASSUME NEW t \in Threads, Release(t) PROVE TypeInv'
    <2>1. cur[t] \in Socks
      BY <1>12 DEF Release, ThreadControl, Locked, Linked
    <2>2. InstType' /\ HeapType' /\ ConnType'
      BY <1>12 DEF Release, InstType, HeapType, ConnType
    <2>3. SockType'
      BY <1>12, <2>1 DEF Release, SockType
    <2>4. CallType'
      BY <1>12, <2>1 DEF Release, CallType, CallLabels, MainLabels
    <2>5. MainControl'
      BY <1>12, <2>1 DEF Release, MainControl, ThreadControl, Locked, Linked,
         Building,
         CallType, InstType, CallLabels, MainLabels
    <2>6. ThreadControl'
      BY <1>12, <2>1 DEF Release, ThreadControl, MainControl, Locked, Linked,
         Building,
         Searching, CallType, InstType, ConnType, CallLabels, MainLabels
    <2> QED
      BY <2>2, <2>3, <2>4, <2>5, <2>6
  <1>13. ASSUME NEW p \in Procs, ConnectUp(p) PROVE TypeInv'
    <2>1. cur[p] \in Socks
      BY <1>13 DEF ConnectUp, ThreadControl, MainControl, Locked, Linked, Building,
         CallType, MainLabels, CallLabels
    <2>2. p = Main => ret[p] = "init"
      BY <1>13 DEF ConnectUp, MainControl
    <2>3. p \in Threads => ret[p] \in {"get", "cmd"}
      BY <1>13 DEF ConnectUp, ThreadControl
    <2>4. \A h \in Nat : (backup[cur[p]] + h) % NumEndpoints \in Endpoints
      BY <2>1, BackupInRange
    <2>5. PICK c \in Contexts, hop \in Hops :
             /\ live' = live \cup {c} /\ broken' \in {broken, broken \cup {c}}
             /\ peer' = [peer EXCEPT ![c] = backup[cur[p]]]
             /\ conn' = [conn EXCEPT ![cur[p]] = c]
             /\ backup' = [backup EXCEPT ![cur[p]] = (backup[cur[p]] + hop) % NumEndpoints]
      BY <1>13 DEF ConnectUp
    <2>6. InstType'
      BY <1>13 DEF ConnectUp, InstType
    <2>7. SockType'
      <3>1. hop \in Nat
        BY DEF Hops
      <3> QED
        BY <1>13, <2>1, <2>4, <2>5, <3>1 DEF ConnectUp, SockType
    <2>8. HeapType'
      BY <1>13, <2>1, <2>2, <2>3, <2>4, <2>5 DEF ConnectUp, HeapType, SockType
    <2>9. CallType'
      BY <1>13, <2>1, <2>2, <2>3, <2>4, <2>5 DEF ConnectUp, CallType, CallLabels,
         MainLabels, OnConnected
    <2>10. ConnType'
      BY <1>13, <2>1, <2>2, <2>3, <2>4, <2>5 DEF ConnectUp, ConnType, Endpoints
    <2>11. MainControl'
      BY <1>13, <2>1, <2>2, <2>3, <2>4, <2>5 DEF ConnectUp, MainControl,
         ThreadControl,
         Locked, Linked, Building, CallType, InstType, CallLabels, MainLabels,
         OnConnected
    <2>12. ThreadControl'
      BY <1>13, <2>1, <2>2, <2>3, <2>4, <2>5 DEF ConnectUp, ThreadControl,
         MainControl,
         Locked, Linked, Building, Searching, CallType, InstType, ConnType,
         CallLabels,
         MainLabels, OnConnected
    <2> QED
      BY <2>6, <2>7, <2>8, <2>9, <2>10, <2>11, <2>12
  <1>14. ASSUME NEW p \in Procs, ConnectNext(p) PROVE TypeInv'
    <2>1. cur[p] \in Socks
      BY <1>14 DEF ConnectNext, ThreadControl, MainControl, Locked, Linked, Building,
         CallType, MainLabels, CallLabels
    <2>2. p = Main => ret[p] = "init"
      BY <1>14 DEF ConnectNext, MainControl
    <2>3. p \in Threads => ret[p] \in {"get", "cmd"}
      BY <1>14 DEF ConnectNext, ThreadControl
    <2>4. \A h \in Nat : (backup[cur[p]] + h) % NumEndpoints \in Endpoints
      BY <2>1, BackupInRange
    <2>5. tries[p] + 1 \in Endpoints
      BY <1>14 DEF ConnectNext, ConnType, LastTry, Endpoints
    <2>6. InstType' /\ HeapType' /\ CallType'
      BY <1>14 DEF ConnectNext, InstType, HeapType, CallType
    <2>7. SockType'
      BY <1>14, <2>1, <2>2, <2>3, <2>4, <2>5 DEF ConnectNext, SockType, NextBackup
    <2>8. ConnType'
      BY <1>14, <2>1, <2>2, <2>3, <2>4, <2>5 DEF ConnectNext, ConnType
    <2>9. MainControl'
      BY <1>14, <2>1, <2>2, <2>3, <2>4, <2>5 DEF ConnectNext, MainControl,
         ThreadControl, Locked, Linked, Building, CallType, InstType, CallLabels,
         MainLabels
    <2>10. ThreadControl'
      BY <1>14, <2>1, <2>2, <2>3, <2>4, <2>5 DEF ConnectNext, ThreadControl,
         MainControl, Locked, Linked, Building, Searching, CallType, InstType,
         ConnType, CallLabels, MainLabels
    <2> QED
      BY <2>6, <2>7, <2>8, <2>9, <2>10
  <1>15. ASSUME NEW p \in Procs, ConnectDown(p) PROVE TypeInv'
    <2>1. cur[p] \in Socks
      BY <1>15 DEF ConnectDown, ThreadControl, MainControl, Locked, Linked, Building,
         CallType, MainLabels, CallLabels
    <2>2. p = Main => ret[p] = "init"
      BY <1>15 DEF ConnectDown, MainControl
    <2>3. p \in Threads => ret[p] \in {"get", "cmd"}
      BY <1>15 DEF ConnectDown, ThreadControl
    <2>4. \A h \in Nat : (backup[cur[p]] + h) % NumEndpoints \in Endpoints
      BY <2>1, BackupInRange
    <2>5. InstType' /\ HeapType'
      BY <1>15 DEF ConnectDown, InstType, HeapType
    <2>6. SockType'
      BY <1>15, <2>1, <2>2, <2>3, <2>4 DEF ConnectDown, SockType, NextBackup
    <2>7. CallType'
      BY <1>15, <2>1, <2>2, <2>3, <2>4 DEF ConnectDown, CallType, CallLabels,
         MainLabels
    <2>8. ConnType'
      BY <1>15, <2>1, <2>2, <2>3, <2>4 DEF ConnectDown, ConnType, Endpoints, InstType,
         RetryDelay
    <2>9. MainControl'
      BY <1>15, <2>1, <2>2, <2>3, <2>4 DEF ConnectDown, MainControl, ThreadControl,
         Locked, Linked, Building, CallType, InstType, CallLabels, MainLabels
    <2>10. ThreadControl'
      BY <1>15, <2>1, <2>2, <2>3, <2>4 DEF ConnectDown, ThreadControl, MainControl,
         Locked, Linked, Building, Searching, CallType, InstType, ConnType,
         CallLabels,
         MainLabels
    <2> QED
      BY <2>5, <2>6, <2>7, <2>8, <2>9, <2>10
  <1>16. ASSUME NEW p \in Procs, StampGrace(p) PROVE TypeInv'
    <2>1. cur[p] \in Socks
      BY <1>16 DEF StampGrace, ThreadControl, MainControl, Locked, Linked, Building,
         CallType, MainLabels, CallLabels
    <2>2. p = Main => ret[p] = "init"
      BY <1>16 DEF StampGrace, MainControl
    <2>3. p \in Threads => ret[p] \in {"get", "cmd"}
      BY <1>16 DEF StampGrace, ThreadControl
    <2>4. SockType' /\ HeapType'
      BY <1>16 DEF StampGrace, SockType, HeapType
    <2>5. InstType'
      BY <1>16, <2>1, <2>2, <2>3 DEF StampGrace, InstType, ConnType
    <2>6. CallType'
      BY <1>16, <2>1, <2>2, <2>3 DEF StampGrace, CallType, CallLabels, MainLabels,
         OnRefused
    <2>7. ConnType'
      BY <1>16, <2>1, <2>2, <2>3 DEF StampGrace, ConnType
    <2>8. MainControl'
      BY <1>16, <2>1, <2>2, <2>3 DEF StampGrace, MainControl, ThreadControl, Locked,
         Linked, Building, CallType, InstType, CallLabels, MainLabels, OnRefused
    <2>9. ThreadControl'
      BY <1>16, <2>1, <2>2, <2>3 DEF StampGrace, ThreadControl, MainControl, Locked,
         Linked, Building, Searching, CallType, InstType, ConnType, CallLabels,
         MainLabels, OnRefused
    <2> QED
      BY <2>4, <2>5, <2>6, <2>7, <2>8, <2>9
  <1>17. CASE InitSocket
    <2>1. cur[Main] \in Socks
      BY <1>17 DEF InitSocket, MainControl, Building
    <2>2. cur[Main] % NumEndpoints \in Endpoints
      BY <1>17, <2>1, InRange
    <2>3. CallConnect(Main, "init") \/ (Goto(Main, "link") /\ UNCHANGED connVars)
      BY <1>17 DEF InitSocket
    <2>4. cur' = cur /\ redis_pool' = redis_pool /\ last_used' = last_used
      BY <1>17 DEF InitSocket
    <2>5. InstType' /\ HeapType'
      BY <1>17 DEF InitSocket, InstType, HeapType
    <2>6. SockType'
      BY InRange, <1>17, <2>1, <2>2, <2>3, <2>4 DEF InitSocket, SockType
    <2>7. CallType'
      BY <1>17, <2>1, <2>2, <2>3, <2>4 DEF InitSocket, CallType, CallLabels,
         MainLabels, CallConnect
    <2>8. ConnType'
      BY <1>17, <2>1, <2>2, <2>3, <2>4 DEF InitSocket, ConnType, CallConnect
    <2>9. MainControl'
      <3>1. pc[Main] \in Building /\ pc'[Main] \in {"connect", "link"}
        BY <1>17, <2>3 DEF InitSocket, CallConnect, Building, CallType
      <3>2. pc'[Main] = "connect" => ret'[Main] = "init"
        BY <1>17, <2>3 DEF CallConnect, CallType, ConnType
      <3> QED
        BY <2>1, <2>4, <3>1, <3>2 DEF MainControl, Building, Linked
    <2>10. ThreadControl'
      BY <1>17, <2>1, <2>2, <2>3, <2>4 DEF InitSocket, ThreadControl, MainControl,
         Locked, Linked, Building, Searching, CallType, InstType, ConnType,
         CallLabels,
         MainLabels, CallConnect
    <2> QED
      BY <2>5, <2>6, <2>7, <2>8, <2>9, <2>10
  <1>18. CASE InitFails
    <2>1. InstType' /\ SockType' /\ HeapType' /\ ConnType'
      BY <1>18 DEF InitFails, InstType, SockType, HeapType, ConnType
    <2>2. CallType'
      BY <1>18 DEF InitFails, CallType, CallLabels, MainLabels, InstType
    <2>3. MainControl'
      BY <1>18 DEF InitFails, MainControl, ThreadControl, Locked, Linked, Building,
         CallType, InstType, CallLabels, MainLabels
    <2>4. ThreadControl'
      BY <1>18 DEF InitFails, ThreadControl, MainControl, Locked, Linked, Building,
         Searching, CallType, InstType, ConnType, CallLabels, MainLabels
    <2> QED
      BY <2>1, <2>2, <2>3, <2>4
  <1>19. CASE LinkSocket
    <2>1. cur[Main] \in Socks
      BY <1>19 DEF LinkSocket, MainControl, Building
    <2>2. SockType' /\ HeapType' /\ ConnType'
      BY <1>19 DEF LinkSocket, SockType, HeapType, ConnType
    <2>3. InstType'
      BY <1>19, <2>1 DEF LinkSocket, InstType
    <2>4. CallType'
      BY <1>19, <2>1 DEF LinkSocket, CallType, CallLabels, MainLabels
    <2>5. MainControl'
      BY <1>19, <2>1 DEF LinkSocket, MainControl, ThreadControl, Locked, Linked,
         Building, CallType, InstType, CallLabels, MainLabels
    <2>6. ThreadControl'
      BY <1>19, <2>1 DEF LinkSocket, ThreadControl, MainControl, Locked, Linked,
         Building, Searching, CallType, InstType, ConnType, CallLabels, MainLabels
    <2> QED
      BY <2>2, <2>3, <2>4, <2>5, <2>6
  <1>20. CASE InitDone
    <2>1. SockType' /\ HeapType' /\ ConnType'
      BY <1>20 DEF InitDone, SockType, HeapType, ConnType
    <2>2. InstType'
      BY <1>20 DEF InitDone, InstType
    <2>3. CallType'
      BY <1>20 DEF InitDone, CallType, CallLabels, MainLabels
    <2>4. MainControl'
      BY <1>20 DEF InitDone, MainControl, ThreadControl, Locked, Linked, Building,
         CallType, InstType, CallLabels, MainLabels
    <2>5. ThreadControl'
      BY <1>20 DEF InitDone, ThreadControl, MainControl, Locked, Linked, Building,
         Searching, CallType, InstType, ConnType, CallLabels, MainLabels
    <2> QED
      BY <2>1, <2>2, <2>3, <2>4, <2>5
  <1>21. CASE Destroy
    <2>1. InstType' /\ SockType' /\ HeapType' /\ ConnType'
      BY <1>21 DEF Destroy, InstType, SockType, HeapType, ConnType
    <2>2. CallType'
      BY <1>21 DEF Destroy, CallType, CallLabels, MainLabels, InstType
    <2>3. MainControl'
      BY <1>21 DEF Destroy, MainControl, ThreadControl, Locked, Linked, Building,
         CallType, InstType, CallLabels, MainLabels
    <2>4. ThreadControl'
      BY <1>21 DEF Destroy, ThreadControl, MainControl, Locked, Linked, Building,
         Searching, CallType, InstType, ConnType, CallLabels, MainLabels
    <2> QED
      BY <2>1, <2>2, <2>3, <2>4
  <1>22. CASE CloseSocket
    <2>1. cur[Main] \in Socks
      BY <1>22 DEF CloseSocket, MainControl, Linked
    <2>2. InstType' /\ ConnType'
      BY <1>22 DEF CloseSocket, InstType, ConnType
    <2>3. SockType'
      BY <1>22, <2>1 DEF CloseSocket, SockType
    <2>4. HeapType'
      BY <1>22, <2>1 DEF CloseSocket, HeapType
    <2>5. CallType'
      BY <1>22, <2>1 DEF CloseSocket, CallType, CallLabels, MainLabels, next
    <2>6. MainControl'
      BY <1>22, <2>1 DEF CloseSocket, MainControl, ThreadControl, Locked, Linked,
         Building, CallType, InstType, CallLabels, MainLabels, next
    <2>7. ThreadControl'
      BY <1>22, <2>1 DEF CloseSocket, ThreadControl, MainControl, Locked, Linked,
         Building, Searching, CallType, InstType, ConnType, CallLabels, MainLabels
    <2> QED
      BY <2>2, <2>3, <2>4, <2>5, <2>6, <2>7
  <1>23. CASE PoolFreed
    <2>1. SockType' /\ HeapType' /\ ConnType'
      BY <1>23 DEF PoolFreed, SockType, HeapType, ConnType
    <2>2. InstType'
      BY <1>23 DEF PoolFreed, InstType
    <2>3. CallType'
      BY <1>23 DEF PoolFreed, CallType, CallLabels, MainLabels
    <2>4. MainControl'
      BY <1>23 DEF PoolFreed, MainControl, ThreadControl, Locked, Linked, Building,
         CallType, InstType, CallLabels, MainLabels
    <2>5. ThreadControl'
      BY <1>23 DEF PoolFreed, ThreadControl, MainControl, Locked, Linked, Building,
         Searching, CallType, InstType, ConnType, CallLabels, MainLabels
    <2> QED
      BY <2>1, <2>2, <2>3, <2>4, <2>5
  <1>24. CASE Tick
    <2>1. SockType' /\ HeapType' /\ CallType' /\ ConnType'
      BY <1>24 DEF Tick, SockType, HeapType, CallType, ConnType
    <2>2. InstType'
      BY <1>24 DEF Tick, InstType
    <2>3. MainControl'
      BY <1>24 DEF Tick, MainControl, ThreadControl, Locked, Linked, Building,
         CallType, InstType, CallLabels, MainLabels
    <2>4. ThreadControl'
      BY <1>24 DEF Tick, ThreadControl, MainControl, Locked, Linked, Building,
         Searching, CallType, InstType, ConnType, CallLabels, MainLabels
    <2> QED
      BY <2>1, <2>2, <2>3, <2>4
  <1>25. CASE Gone
    <2>1. InstType' /\ SockType' /\ HeapType' /\ CallType' /\ ConnType'
      BY <1>25 DEF Gone, InstType, SockType, HeapType, CallType, ConnType
    <2>2. MainControl'
      BY <1>25 DEF Gone, MainControl, ThreadControl, Locked, Linked, Building,
         CallType, InstType, CallLabels, MainLabels
    <2>3. ThreadControl'
      BY <1>25 DEF Gone, ThreadControl, MainControl, Locked, Linked, Building,
         Searching, CallType, InstType, ConnType, CallLabels, MainLabels
    <2> QED
      BY <2>1, <2>2, <2>3
  <1>26. CASE UNCHANGED vars
    <2>1. InstType' /\ SockType' /\ HeapType' /\ CallType' /\ ConnType'
      BY <1>26 DEF InstType, SockType, HeapType, CallType, ConnType
    <2>2. MainControl'
      BY <1>26 DEF MainControl, ThreadControl, Locked, Linked, Building, CallType,
         InstType, CallLabels, MainLabels
    <2>3. ThreadControl'
      BY <1>26 DEF ThreadControl, MainControl, Locked, Linked, Building, Searching,
         CallType, InstType, ConnType, CallLabels, MainLabels
    <2> QED
      BY <2>1, <2>2, <2>3
  <1> QED
    BY <1>1, <1>2, <1>3, <1>4, <1>5, <1>6, <1>7, <1>8, <1>9, <1>10, <1>11, <1>12,
       <1>13, <1>14, <1>15, <1>16, <1>17, <1>18, <1>19, <1>20, <1>21, <1>22, <1>23,
             <1>24, <1>25, <1>26 DEF Next, CallStep, GetSocket, Connect, Command,
             MainStep, Procs
-----------------------------------------------------------------------------
\* Threads are where the code can have them, with cursors on the list.
THEOREM Typing == Spec => []TypeInv
PROOF
  BY InitTypeInv, TypeInvStep, PTL DEF Spec

\* The types hold in every state, for every number of threads and sockets.
THEOREM TypeCorrect == Spec => []TypeOK
PROOF
  <1>1. TypeInv => TypeOK
    BY DEF TypeInv
  <1> QED
    BY <1>1, Typing, PTL
-----------------------------------------------------------------------------
LEMMA LockStep ==
  TypeInv /\ TypeInv' /\ LockDiscipline /\ [Next]_vars => LockDiscipline'
PROOF
  <1> SUFFICES ASSUME TypeInv, TypeInv', LockDiscipline, [Next]_vars
               PROVE  LockDiscipline'
    OBVIOUS
  <1> USE PoolAssumption DEF TypeInv, TypeOK, SockType, CallType, LockDiscipline,
          Locked, Procs, Goto, Unlock, vars, instVars, sockVars, heapVars,
          callVars, connVars
  <1>1. ASSUME NEW t \in Threads, GetStart(t) PROVE LockDiscipline'
    BY <1>1 DEF GetStart, ThreadControl, Linked
  <1>2. ASSUME NEW t \in Threads, TrylockBusy(t) PROVE LockDiscipline'
    BY <1>2 DEF TrylockBusy, Advance, ThreadControl, Linked
  <1>3. ASSUME NEW t \in Threads, TrylockOk(t) PROVE LockDiscipline'
    BY <1>3 DEF TrylockOk, ThreadControl, Linked
  <1>4. ASSUME NEW t \in Threads, Examine(t) PROVE LockDiscipline'
    BY <1>4 DEF Examine, Advance, CallConnect, ThreadControl, Linked
  <1>5. ASSUME NEW t \in Threads, SkipUnconnected(t) PROVE LockDiscipline'
    BY <1>5 DEF SkipUnconnected, Advance, ThreadControl, Linked
  <1>6. ASSUME NEW t \in Threads, Grab(t) PROVE LockDiscipline'
    BY <1>6 DEF Grab, ThreadControl, Linked
  <1>7. ASSUME NEW t \in Threads, ReturnNull(t) PROVE LockDiscipline'
    BY <1>7 DEF ReturnNull, ThreadControl, Linked
  <1>8. ASSUME NEW t \in Threads, CommandReply(t) PROVE LockDiscipline'
    BY <1>8 DEF CommandReply, ThreadControl, Linked
  <1>9. ASSUME NEW t \in Threads, CommandFails(t) PROVE LockDiscipline'
    BY <1>9 DEF CommandFails, CallConnect, ThreadControl, Linked
  <1>10. ASSUME NEW t \in Threads, RetryReply(t) PROVE LockDiscipline'
    BY <1>10 DEF RetryReply, ThreadControl, Linked
  <1>11. ASSUME NEW t \in Threads, RetryFails(t) PROVE LockDiscipline'
    BY <1>11 DEF RetryFails, ThreadControl, Linked
  <1>12. ASSUME NEW t \in Threads, Release(t) PROVE LockDiscipline'
    BY <1>12 DEF Release, ThreadControl, Linked
  <1>13. ASSUME NEW p \in Procs, ConnectUp(p) PROVE LockDiscipline'
    BY <1>13 DEF ConnectUp, OnConnected, ThreadControl, Linked
  <1>14. ASSUME NEW p \in Procs, ConnectNext(p) PROVE LockDiscipline'
    BY <1>14 DEF ConnectNext, ThreadControl, Linked
  <1>15. ASSUME NEW p \in Procs, ConnectDown(p) PROVE LockDiscipline'
    BY <1>15 DEF ConnectDown, ThreadControl, Linked
  <1>16. ASSUME NEW p \in Procs, StampGrace(p) PROVE LockDiscipline'
    BY <1>16 DEF StampGrace, OnRefused, ThreadControl, Linked
  <1>17. CASE InitSocket
    BY <1>17 DEF InitSocket, CallConnect, ThreadControl, MainControl, Linked, Building
  <1>18. CASE InitFails
    BY <1>18 DEF InitFails, ThreadControl, MainControl, Linked, Building
  <1>19. CASE LinkSocket
    BY <1>19 DEF LinkSocket, ThreadControl, MainControl, Linked, Building
  <1>20. CASE InitDone
    BY <1>20 DEF InitDone, ThreadControl, MainControl, Linked, Building
  <1>21. CASE Destroy
    BY <1>21 DEF Destroy, ThreadControl, MainControl, Linked, Building
  <1>22. CASE CloseSocket
    BY <1>22 DEF CloseSocket, ThreadControl, MainControl, Linked, Building
  <1>23. CASE PoolFreed
    BY <1>23 DEF PoolFreed, ThreadControl, MainControl, Linked, Building
  <1>24. CASE Tick
    BY <1>24 DEF Tick, ThreadControl, MainControl, Linked, Building
  <1>25. CASE Gone
    BY <1>25 DEF Gone, ThreadControl, MainControl, Linked, Building
  <1>26. CASE UNCHANGED vars
    BY <1>26
  <1> QED
    BY <1>1, <1>2, <1>3, <1>4, <1>5, <1>6, <1>7, <1>8, <1>9, <1>10, <1>11, <1>12,
       <1>13, <1>14, <1>15, <1>16, <1>17, <1>18, <1>19, <1>20, <1>21, <1>22, <1>23,
       <1>24, <1>25, <1>26
       DEF Next, CallStep, GetSocket, Connect, Command, MainStep

\* No two threads ever have the same socket, and no lock is kept.
THEOREM LocksKept == Spec => []LockDiscipline
PROOF
  <1>1. Init => LockDiscipline
    BY PoolAssumption DEF Init, LockDiscipline, Locked, Procs
  <1> QED
    BY <1>1, LockStep, Typing, PTL DEF Spec
-----------------------------------------------------------------------------
\* The state of a socket at each point of the code that handles it.  Sockets
\* outside the list, and a socket about to be linked but for its connection,
\* are unconnected.
SocketStates ==
  /\ \A p \in Procs : pc[p] = "connect" =>
       state[cur[p]] = IF ret[p] = "cmd" THEN "sockconnected" ELSE "sockunconnected"
  /\ \A p \in Procs : pc[p] = "stamp" => state[cur[p]] = "sockunconnected"
  /\ \A t \in Threads :
       /\ pc[t] \in {"grab", "held", "retry"} => state[cur[t]] = "sockconnected"
       /\ pc[t] = "skip" => state[cur[t]] = "sockunconnected"
  /\ \A s \in Socks :
       /\ state[s] = "sockconnected" =>
            \/ s \in Linked /\ (pc[Main] = "free" => s <= cur[Main])
            \/ pc[Main] = "link" /\ s = cur[Main]
       /\ state[s] = "sockconnected" <=> conn[s] # NoCtx

StateInv == TypeInv /\ LockDiscipline

\* A thread that moves on in its search leaves the states as they are.
LEMMA StatesQuiet ==
  ASSUME SocketStates, NEW t \in Threads,
         UNCHANGED <<state, conn, redis_pool, ret>>,
         pc'[t] \in {"none", "scan"},
         \A p \in Procs \ {t} : pc'[p] = pc[p] /\ cur'[p] = cur[p]
  PROVE  SocketStates'
PROOF
  BY PoolAssumption DEF SocketStates, Linked, Procs

\* Nobody else works on the socket that a process connects.
LEMMA ConnectAlone ==
  ASSUME StateInv, NEW p \in Procs, pc[p] \in {"connect", "stamp"},
         NEW q \in Procs \ {p},
         pc[q] \in {"connect", "stamp", "skip", "grab", "held", "retry"}
  PROVE  p \in Threads /\ q \in Threads /\ cur[q] # cur[p]
PROOF
  <1>1. p \in Threads /\ q \in Threads
    BY PoolAssumption DEF StateInv, TypeInv, MainControl, ThreadControl, Building,
       Procs, TypeOK, CallType, MainLabels
  <1>2. cur[p] \in Socks
    BY <1>1 DEF StateInv, TypeInv, ThreadControl, Locked, Linked
  <1> QED
    BY <1>1, <1>2 DEF StateInv, LockDiscipline, Locked

LEMMA SocketStatesStep ==
  StateInv /\ StateInv' /\ SocketStates /\ [Next]_vars => SocketStates'
PROOF
  <1> SUFFICES ASSUME StateInv, StateInv', SocketStates, [Next]_vars
               PROVE  SocketStates'
    OBVIOUS
  <1> USE PoolAssumption DEF StateInv, TypeInv, TypeOK, SockType, CallType,
        ConnType, LockDiscipline,
          SocketStates, Locked, Linked, Procs, Socks, Goto, Unlock, vars, instVars,
          sockVars, heapVars, callVars, connVars
  <1>1. ASSUME NEW t \in Threads, GetStart(t) PROVE SocketStates'
    <2>1. /\ pc'[t] \in {"none", "scan"}
          /\ \A p \in Procs \ {t} : pc'[p] = pc[p] /\ cur'[p] = cur[p]
      BY <1>1 DEF GetStart
    <2>2. UNCHANGED <<state, conn, redis_pool, ret>>
      BY <1>1 DEF GetStart
    <2> HIDE DEF StateInv, SocketStates
    <2> QED
      BY <2>1, <2>2, StatesQuiet
  <1>2. ASSUME NEW t \in Threads, TrylockBusy(t) PROVE SocketStates'
    <2>1. /\ pc'[t] \in {"none", "scan"}
          /\ \A p \in Procs \ {t} : pc'[p] = pc[p] /\ cur'[p] = cur[p]
      BY <1>2 DEF TrylockBusy, Advance
    <2>2. UNCHANGED <<state, conn, redis_pool, ret>>
      BY <1>2 DEF TrylockBusy
    <2> HIDE DEF StateInv, SocketStates
    <2> QED
      BY <2>1, <2>2, StatesQuiet
  <1>3. ASSUME NEW t \in Threads, TrylockOk(t) PROVE SocketStates'
    BY <1>3 DEF TrylockOk, ThreadControl
  <1>4. ASSUME NEW t \in Threads, Examine(t) PROVE SocketStates'
    <2>1. CASE inuse[cur[t]]
      <3>1. /\ pc'[t] \in {"none", "scan"}
            /\ \A p \in Procs \ {t} : pc'[p] = pc[p] /\ cur'[p] = cur[p]
        BY <1>4, <2>1 DEF Examine, Advance
      <3>2. UNCHANGED <<state, conn, redis_pool, ret>>
        BY <1>4, <2>1 DEF Examine
      <3> HIDE DEF StateInv, SocketStates
      <3> QED
        BY <3>1, <3>2, StatesQuiet
    <2>2. CASE ~inuse[cur[t]]
      <3>1. cur[t] \in Socks /\ cur' = cur /\ pc' = [pc EXCEPT ![t] = pc'[t]]
        BY <1>4, <2>2 DEF Examine, CallConnect, ThreadControl
      <3>2. \/ /\ state[cur[t]] = "sockunconnected" /\ pc'[t] = "connect"
               /\ ret' = [ret EXCEPT ![t] = "get"]
            \/ state[cur[t]] = "sockunconnected" /\ pc'[t] = "skip" /\ ret' = ret
            \/ state[cur[t]] = "sockconnected" /\ pc'[t] = "grab" /\ ret' = ret
        BY <1>4, <2>2 DEF Examine, CallConnect, ThreadControl
      <3>3. UNCHANGED <<state, conn, redis_pool>>
        BY <1>4 DEF Examine
      <3> HIDE DEF LockDiscipline, SockType, CallType, ConnType
      <3>4. CASE pc'[t] = "connect"
        BY <3>1, <3>2, <3>3, <3>4 DEF CallType, ConnType
      <3>5. CASE pc'[t] = "skip"
        BY <3>1, <3>2, <3>3, <3>5 DEF CallType
      <3>6. CASE pc'[t] = "grab"
        BY <3>1, <3>2, <3>3, <3>6 DEF CallType
      <3> QED
        BY <3>2, <3>4, <3>5, <3>6
    <2> QED
      BY <2>1, <2>2
  <1>5. ASSUME NEW t \in Threads, SkipUnconnected(t) PROVE SocketStates'
    <2>1. /\ pc'[t] \in {"none", "scan"}
          /\ \A p \in Procs \ {t} : pc'[p] = pc[p] /\ cur'[p] = cur[p]
      BY <1>5 DEF SkipUnconnected, Advance
    <2>2. UNCHANGED <<state, conn, redis_pool, ret>>
      BY <1>5 DEF SkipUnconnected
    <2> HIDE DEF StateInv, SocketStates
    <2> QED
      BY <2>1, <2>2, StatesQuiet
  <1>6. ASSUME NEW t \in Threads, Grab(t) PROVE SocketStates'
    BY <1>6 DEF Grab, ThreadControl
  <1>7. ASSUME NEW t \in Threads, ReturnNull(t) PROVE SocketStates'
    BY <1>7 DEF ReturnNull, ThreadControl
  <1>8. ASSUME NEW t \in Threads, CommandReply(t) PROVE SocketStates'
    BY <1>8 DEF CommandReply, ThreadControl
  <1>9. ASSUME NEW t \in Threads, CommandFails(t) PROVE SocketStates'
    BY <1>9 DEF CommandFails, CallConnect, ThreadControl
  <1>10. ASSUME NEW t \in Threads, RetryReply(t) PROVE SocketStates'
    BY <1>10 DEF RetryReply, ThreadControl
  <1>11. ASSUME NEW t \in Threads, RetryFails(t) PROVE SocketStates'
    BY <1>11 DEF RetryFails, ThreadControl
  <1>12. ASSUME NEW t \in Threads, Release(t) PROVE SocketStates'
    BY <1>12 DEF Release, ThreadControl
  <1>13. ASSUME NEW p \in Procs, ConnectUp(p) PROVE SocketStates'
    <2>1. /\ pc[p] = "connect" /\ UNCHANGED <<cur, redis_pool>>
          /\ pc' = [pc EXCEPT ![p] = OnConnected[ret[p]]]
          /\ ret' = [ret EXCEPT ![p] = "none"]
          /\ state' = [state EXCEPT ![cur[p]] = "sockconnected"]
      BY <1>13 DEF ConnectUp
    <2>2. PICK c \in Contexts : conn' = [conn EXCEPT ![cur[p]] = c]
      BY <1>13 DEF ConnectUp
    <2>3. /\ cur[p] \in Socks /\ pc'[p] \in {"link", "grab", "retry"}
          /\ cur[p] \in Linked \/ (p = Main /\ pc'[Main] = "link")
          /\ pc'[Main] # "free" /\ pc[Main] # "link"
      <3>1. CASE p = Main
        BY <2>1, <3>1 DEF OnConnected, MainControl, Building
      <3>2. CASE p \in Threads
        <4>1. pc[Main] = "serving" /\ cur[p] \in Linked /\ ret[p] \in {"get", "cmd"}
          <5> HIDE DEF LockDiscipline, SocketStates, Linked, TypeOK
          <5> QED
            BY <2>1, <3>2 DEF ThreadControl
        <4>2. p # Main
          BY <3>2
        <4>3. pc'[p] \in {"grab", "retry"} /\ pc'[Main] = "serving"
          <5>1. pc \in [Procs -> CallLabels \cup MainLabels]
            OBVIOUS
          <5> HIDE DEF StateInv, SocketStates
          <5> QED
            BY <2>1, <4>1, <4>2, <5>1 DEF OnConnected
        <4> QED
          BY <4>1, <4>3 DEF Linked
      <3> QED
        BY <3>1, <3>2
    <2>4. \A q \in Procs \ {p} :
            pc[q] \in {"connect", "stamp", "skip", "grab", "held", "retry"} =>
              cur[q] # cur[p]
      <3> HIDE DEF StateInv, SocketStates
      <3> QED
        BY <2>1, ConnectAlone
    <2>5. /\ pc \in [Procs -> CallLabels \cup MainLabels]
          /\ cur \in [Procs -> Socks \cup {NULL, NumSocks}]
          /\ ret \in [Procs -> {"none", "init", "get", "cmd"}]
          /\ state \in [Socks -> {"sockconnected", "sockunconnected"}]
          /\ conn \in [Socks -> Contexts \cup {NoCtx}]
      OBVIOUS
    <2> HIDE DEF StateInv
    <2> QED
      BY <2>1, <2>2, <2>3, <2>4, <2>5
  <1>14. ASSUME NEW p \in Procs, ConnectNext(p) PROVE SocketStates'
    <2>1. UNCHANGED <<state, conn, redis_pool, pc, cur, ret>>
      BY <1>14 DEF ConnectNext
    <2> HIDE DEF StateInv
    <2> QED
      BY <2>1
  <1>15. ASSUME NEW p \in Procs, ConnectDown(p) PROVE SocketStates'
    BY <1>15 DEF ConnectDown, ThreadControl, MainControl, Building
  <1>16. ASSUME NEW p \in Procs, StampGrace(p) PROVE SocketStates'
    BY <1>16 DEF StampGrace, OnRefused, ThreadControl, MainControl, Building
  <1>17. CASE InitSocket
    BY <1>17 DEF InitSocket, CallConnect, ThreadControl, MainControl, Building
  <1>18. CASE InitFails
    BY <1>18 DEF InitFails, ThreadControl, MainControl, Building
  <1>19. CASE LinkSocket
    BY <1>19 DEF LinkSocket, ThreadControl, MainControl, Building
  <1>20. CASE InitDone
    BY <1>20 DEF InitDone, ThreadControl, MainControl, Building
  <1>21. CASE Destroy
    BY <1>21 DEF Destroy, ThreadControl, MainControl, Building
  <1>22. CASE CloseSocket
    BY <1>22 DEF CloseSocket, ThreadControl, MainControl, Building, next, NULL
  <1>23. CASE PoolFreed
    BY <1>23 DEF PoolFreed, ThreadControl, MainControl, Building, next, NULL
  <1>24. CASE Tick
    BY <1>24 DEF Tick, ThreadControl, MainControl, Building
  <1>25. CASE Gone
    BY <1>25 DEF Gone, ThreadControl, MainControl, Building
  <1>26. CASE UNCHANGED vars
    BY <1>26
  <1> QED
    BY <1>1, <1>2, <1>3, <1>4, <1>5, <1>6, <1>7, <1>8, <1>9, <1>10, <1>11, <1>12,
       <1>13, <1>14, <1>15, <1>16, <1>17, <1>18, <1>19, <1>20, <1>21, <1>22, <1>23,
       <1>24, <1>25, <1>26
       DEF Next, CallStep, GetSocket, Connect, Command, MainStep

\* At each point of the code the socket at hand is in the state expected there.
THEOREM StatesKept == Spec => [](StateInv /\ SocketStates)
PROOF
  <1>1. Init => SocketStates
    BY PoolAssumption DEF Init, SocketStates, Procs, Socks
  <1>2. Spec => []StateInv
    BY Typing, LocksKept, PTL DEF StateInv
  <1> QED
    BY <1>1, <1>2, SocketStatesStep, PTL DEF Spec
-----------------------------------------------------------------------------
\* HeapExact, spelt out context by context.
HeapInv ==
  /\ \A s \in Socks : Owned(s) => conn[s] \in live
  /\ \A c \in live : \E s \in Socks : Owned(s) /\ conn[s] = c
  /\ \A s, u \in Socks : Owned(s) /\ Owned(u) /\ conn[s] = conn[u] => s = u
  /\ broken \subseteq live

\* Nobody else is reconnecting the socket a thread holds.
LEMMA HeldIsOwned ==
  ASSUME StateInv, SocketStates, NEW t \in Threads, pc[t] \in {"held", "retry"}
  PROVE  cur[t] \in Socks /\ Owned(cur[t])
PROOF
  <1>1. cur[t] \in Socks
    BY DEF StateInv, TypeInv, ThreadControl, Locked, Linked
  <1>2. mutex[cur[t]] = t
    BY <1>1 DEF StateInv, LockDiscipline, Locked
  <1>3. ASSUME NEW u \in Threads, pc[u] = "connect", cur[u] = cur[t] PROVE FALSE
    BY <1>1, <1>2, <1>3 DEF StateInv, LockDiscipline, Locked
  <1> QED
    BY <1>1, <1>3 DEF Owned, SocketStates

\* Before a connect, nothing is allocated for the socket.
LEMMA ConnectingIsFree ==
  ASSUME StateInv, SocketStates, NEW p \in Procs, pc[p] = "connect"
  PROVE  /\ cur[p] \in Socks /\ ~Owned(cur[p])
         /\ \A t \in Threads \ {p} : pc[t] = "connect" => cur[t] # cur[p]
         /\ p \in Threads => ret[p] # "init"
PROOF
  <1> USE PoolAssumption DEF StateInv, TypeInv, Procs, Linked
  <1>1. CASE p \in Threads
    <2>1. cur[p] \in Socks /\ ret[p] \in {"get", "cmd"}
      BY <1>1 DEF ThreadControl, Locked
    <2>2. ~Owned(cur[p])
      BY <1>1, <2>1 DEF Owned, SocketStates
    <2> QED
      BY <1>1, <2>1, <2>2 DEF LockDiscipline, Locked
  <1>2. CASE p = Main
    <2>1. cur[p] \in Socks /\ ret[p] = "init"
      BY <1>2 DEF MainControl, Building, Socks
    <2>2. \A t \in Threads : pc[t] = "idle"
      BY <1>2 DEF ThreadControl
    <2> QED
      BY <1>2, <2>1, <2>2 DEF Owned, SocketStates
  <1> QED
    BY <1>1, <1>2

LEMMA HeapFromInv ==
  ASSUME StateInv, SocketStates, HeapInv
  PROVE  HeapExact
PROOF
  BY HeldIsOwned DEF HeapInv, HeapExact

LEMMA HeapQuiet ==
  ASSUME HeapInv, live' = live, broken' = broken,
         \A s \in Socks : Owned(s)' <=> Owned(s),
         \A s \in Socks : Owned(s) => conn'[s] = conn[s]
  PROVE  HeapInv'
PROOF
  BY DEF HeapInv, Socks

LEMMA HeapStep ==
  StateInv /\ StateInv' /\ SocketStates /\ HeapInv /\ [Next]_vars => HeapInv'
PROOF
  <1> SUFFICES ASSUME StateInv, StateInv', SocketStates, HeapInv, [Next]_vars
               PROVE  HeapInv'
    OBVIOUS
  <1> USE PoolAssumption DEF Goto, Unlock, Procs, vars, instVars, sockVars,
        heapVars, callVars, connVars
  <1> DEFINE Same == \A s \in Socks : (Owned(s)' <=> Owned(s)) /\ (Owned(s) => conn'[s] = conn[s])
  <1>0. ASSUME Same, live' = live, broken' = broken PROVE HeapInv'
    BY <1>0, HeapQuiet
  <1>1. ASSUME NEW t \in Threads, GetStart(t) PROVE HeapInv'
    <2>1. Same
      BY <1>1 DEF GetStart, Owned, StateInv, TypeInv, TypeOK, CallType, ConnType,
         SockType
    <2> QED
      BY <1>0, <1>1, <2>1 DEF GetStart
  <1>2. ASSUME NEW t \in Threads, TrylockBusy(t) PROVE HeapInv'
    <2>1. Same
      BY <1>2 DEF TrylockBusy, Advance, Owned, StateInv, TypeInv, TypeOK, CallType,
         ConnType, SockType
    <2> QED
      BY <1>0, <1>2, <2>1 DEF TrylockBusy
  <1>3. ASSUME NEW t \in Threads, TrylockOk(t) PROVE HeapInv'
    <2>1. Same
      BY <1>3 DEF TrylockOk, Owned, StateInv, TypeInv, TypeOK, CallType, ConnType,
         SockType
    <2> QED
      BY <1>0, <1>3, <2>1 DEF TrylockOk
  <1>4. ASSUME NEW t \in Threads, Examine(t) PROVE HeapInv'
    <2>1. Same
      BY <1>4 DEF Examine, Advance, CallConnect, Owned, StateInv, TypeInv, TypeOK,
         CallType, ConnType, SockType
    <2> QED
      BY <1>0, <1>4, <2>1 DEF Examine
  <1>5. ASSUME NEW t \in Threads, SkipUnconnected(t) PROVE HeapInv'
    <2>1. Same
      BY <1>5 DEF SkipUnconnected, Advance, Owned, StateInv, TypeInv, TypeOK,
         CallType, ConnType, SockType
    <2> QED
      BY <1>0, <1>5, <2>1 DEF SkipUnconnected
  <1>6. ASSUME NEW t \in Threads, Grab(t) PROVE HeapInv'
    <2>1. Same
      BY <1>6 DEF Grab, Owned, StateInv, TypeInv, TypeOK, CallType, ConnType, SockType
    <2> QED
      BY <1>0, <1>6, <2>1 DEF Grab
  <1>7. ASSUME NEW t \in Threads, ReturnNull(t) PROVE HeapInv'
    <2>1. Same
      BY <1>7 DEF ReturnNull, Owned, StateInv, TypeInv, TypeOK, CallType, ConnType,
         SockType
    <2> QED
      BY <1>0, <1>7, <2>1 DEF ReturnNull
  <1>8. ASSUME NEW t \in Threads, CommandReply(t) PROVE HeapInv'
    <2>1. Same
      BY <1>8 DEF CommandReply, Owned, StateInv, TypeInv, TypeOK, CallType,
         ConnType, SockType
    <2> QED
      BY <1>0, <1>8, <2>1 DEF CommandReply
  <1>9. ASSUME NEW t \in Threads, CommandFails(t) PROVE HeapInv'
    <2>1. cur[t] \in Socks /\ Owned(cur[t])
      BY <1>9, HeldIsOwned DEF CommandFails
    <2>2. \A s \in Socks : Owned(s)' <=> Owned(s) /\ s # cur[t]
      BY <1>9, <2>1 DEF CommandFails, CallConnect, Owned, StateInv, TypeInv,
         TypeOK, CallType, ConnType, SockType
    <2> QED
      BY <1>9, <2>1, <2>2 DEF CommandFails, HeapInv
  <1>10. ASSUME NEW t \in Threads, RetryReply(t) PROVE HeapInv'
    <2>1. Same
      BY <1>10 DEF RetryReply, Owned, StateInv, TypeInv, TypeOK, CallType,
         ConnType, SockType
    <2> QED
      BY <1>0, <1>10, <2>1 DEF RetryReply
  <1>11. ASSUME NEW t \in Threads, RetryFails(t) PROVE HeapInv'
    <2>1. cur[t] \in Socks /\ Owned(cur[t])
      BY <1>11, HeldIsOwned DEF RetryFails
    <2>2. Same
      BY <1>11 DEF RetryFails, Owned, StateInv, TypeInv, TypeOK, CallType,
         ConnType, SockType
    <2> QED
      BY <1>11, <2>1, <2>2 DEF RetryFails, HeapInv
  <1>12. ASSUME NEW t \in Threads, Release(t) PROVE HeapInv'
    <2>1. Same
      BY <1>12 DEF Release, Owned, StateInv, TypeInv, TypeOK, CallType, ConnType,
         SockType
    <2> QED
      BY <1>0, <1>12, <2>1 DEF Release
  <1>13. ASSUME NEW p \in Procs, ConnectUp(p) PROVE HeapInv'
    <2>1. /\ cur[p] \in Socks /\ ~Owned(cur[p])
          /\ \A t \in Threads \ {p} : pc[t] = "connect" => cur[t] # cur[p]
      BY <1>13, ConnectingIsFree DEF ConnectUp
    <2>2. PICK c \in Contexts \ live : live' = live \cup {c} /\ conn' = [conn EXCEPT ![cur[p]] = c]
                                  /\ broken' \in {broken, broken \cup {c}}
      BY <1>13 DEF ConnectUp
    <2>3. \A s \in Socks : Owned(s)' <=> Owned(s) \/ s = cur[p]
      BY <1>13, <2>1 DEF ConnectUp, OnConnected, Owned, StateInv, TypeInv, TypeOK,
         CallType, ConnType, SockType
    <2>4. \A s \in Socks : conn'[s] = IF s = cur[p] THEN c ELSE conn[s]
      BY <2>1, <2>2 DEF StateInv, TypeInv, TypeOK, CallType, ConnType, SockType
    <2> QED
      BY <2>1, <2>2, <2>3, <2>4 DEF HeapInv
  <1>14. ASSUME NEW p \in Procs, ConnectNext(p) PROVE HeapInv'
    <2>1. Same
      BY <1>14 DEF ConnectNext, Owned, StateInv, TypeInv, TypeOK, CallType,
         ConnType, SockType
    <2> QED
      BY <1>0, <1>14, <2>1 DEF ConnectNext
  <1>15. ASSUME NEW p \in Procs, ConnectDown(p) PROVE HeapInv'
    <2>1. ~Owned(cur[p])
      BY <1>15, ConnectingIsFree DEF ConnectDown
    <2>2. Same
      BY <1>15, <2>1 DEF ConnectDown, Owned, StateInv, TypeInv, TypeOK, CallType,
         ConnType, SockType, LockDiscipline, Locked
    <2> QED
      BY <1>0, <1>15, <2>2 DEF ConnectDown
  <1>16. ASSUME NEW p \in Procs, StampGrace(p) PROVE HeapInv'
    <2>1. Same
      BY <1>16 DEF StampGrace, OnRefused, Owned, StateInv, TypeInv, TypeOK,
         CallType, ConnType, SockType
    <2> QED
      BY <1>0, <1>16, <2>1 DEF StampGrace
  <1>17. CASE InitSocket
    <2>1. cur[Main] \in Socks /\ ~Owned(cur[Main])
      BY <1>17 DEF InitSocket, Owned, SocketStates, StateInv, TypeInv, TypeOK,
         CallType, ConnType, SockType, MainControl, Building, Linked, Socks
    <2>2. Same
      BY <1>17, <2>1 DEF InitSocket, CallConnect, Owned, StateInv, TypeInv, TypeOK,
         CallType, ConnType, SockType, ThreadControl
    <2> QED
      BY <1>0, <1>17, <2>2 DEF InitSocket
  <1>18. CASE InitFails
    <2>1. Same
      BY <1>18 DEF InitFails, Owned, StateInv, TypeInv, TypeOK, CallType, ConnType,
         SockType
    <2> QED
      BY <1>0, <1>18, <2>1 DEF InitFails
  <1>19. CASE LinkSocket
    <2>1. Same
      BY <1>19 DEF LinkSocket, Owned, StateInv, TypeInv, TypeOK, CallType,
         ConnType, SockType
    <2> QED
      BY <1>0, <1>19, <2>1 DEF LinkSocket
  <1>20. CASE InitDone
    <2>1. Same
      BY <1>20 DEF InitDone, Owned, StateInv, TypeInv, TypeOK, CallType, ConnType,
         SockType
    <2> QED
      BY <1>0, <1>20, <2>1 DEF InitDone
  <1>21. CASE Destroy
    <2>1. Same
      BY <1>21 DEF Destroy, Owned, StateInv, TypeInv, TypeOK, CallType, ConnType,
         SockType
    <2> QED
      BY <1>0, <1>21, <2>1 DEF Destroy
  <1>22. CASE CloseSocket
    <2>1. cur[Main] \in Socks /\ (Owned(cur[Main]) <=> state[cur[Main]] = "sockconnected")
      BY <1>22 DEF CloseSocket, Owned, StateInv, TypeInv, TypeOK, CallType,
         ConnType, SockType, MainControl, ThreadControl, Linked
    <2>2. \A s \in Socks : Owned(s)' <=> Owned(s) /\ s # cur[Main]
      BY <1>22, <2>1 DEF CloseSocket, Owned, StateInv, TypeInv, TypeOK, CallType,
         ConnType, SockType, ThreadControl
    <2>3. \A s \in Socks : Owned(s)' => conn'[s] = conn[s]
      BY <1>22, <2>2 DEF CloseSocket
    <2> QED
      BY <1>22, <2>1, <2>2, <2>3 DEF CloseSocket, HeapInv
  <1>23. CASE PoolFreed
    <2>1. Same
      BY <1>23 DEF PoolFreed, Owned, StateInv, TypeInv, TypeOK, CallType, ConnType,
         SockType
    <2> QED
      BY <1>0, <1>23, <2>1 DEF PoolFreed
  <1>24. CASE Tick
    <2>1. Same
      BY <1>24 DEF Tick, Owned, StateInv, TypeInv, TypeOK, CallType, ConnType,
         SockType
    <2> QED
      BY <1>0, <1>24, <2>1 DEF Tick
  <1>25. CASE Gone
    <2>1. Same
      BY <1>25 DEF Gone, Owned, StateInv, TypeInv, TypeOK, CallType, ConnType,
         SockType
    <2> QED
      BY <1>0, <1>25, <2>1 DEF Gone
  <1>26. CASE UNCHANGED vars
    BY <1>0, <1>26 DEF Owned
  <1> QED
    BY <1>1, <1>2, <1>3, <1>4, <1>5, <1>6, <1>7, <1>8, <1>9, <1>10, <1>11, <1>12,
       <1>13, <1>14, <1>15, <1>16, <1>17, <1>18, <1>19, <1>20, <1>21, <1>22, <1>23,
       <1>24, <1>25, <1>26
       DEF Next, CallStep, GetSocket, Connect, Command, MainStep

\* No context is leaked, freed twice, shared or used after it was freed.
THEOREM HeapSound == Spec => []HeapExact
PROOF
  <1>1. Init => HeapInv
    BY PoolAssumption DEF Init, HeapInv, Owned, Socks
  <1>2. Spec => []HeapInv
    BY <1>1, StatesKept, HeapStep, PTL DEF Spec
  <1> QED
    BY <1>2, StatesKept, HeapFromInv, PTL
-----------------------------------------------------------------------------
\* One step of the search: the socket it leaves has now been passed over.
LEMMA AdvanceScan ==
  ASSUME TypeInv, NEW t \in Threads, Advance(t), redis_pool' = redis_pool,
         pc[t] \in {"scan", "locked", "skip"},
         skipped[t] = Passed(t)
  PROVE  skipped'[t] = IF pc'[t] = "none" THEN Linked ELSE Passed(t)'
PROOF
  <1> DEFINE n == IF cur[t] - 1 = -1 THEN redis_pool ELSE cur[t] - 1
  <1> USE PoolAssumption DEF TypeInv, TypeOK
  <1>1. /\ cur[t] \in Linked /\ start[t] \in Linked /\ start'[t] = start[t]
        /\ redis_pool \in Socks /\ n \in Linked
    BY DEF ThreadControl, Locked, Searching, Advance, Linked, InstType, Socks, NULL
  <1>2. /\ cur'[t] = n /\ skipped'[t] = skipped[t] \cup {cur[t]}
        /\ pc'[t] = IF n = start[t] THEN "none" ELSE "scan"
    BY DEF Advance, next, NULL, Goto, CallType, Procs
  <1>3. CASE n = start[t]
    <2>1. Passed(t) \cup {cur[t]} = Linked
      BY <1>1, <1>3 DEF Passed, Linked, Socks
    <2> QED
      BY <1>2, <1>3, <2>1
  <1>4. CASE n # start[t]
    <2>1. Passed(t)' = {s \in Linked : IF n <= start[t] THEN n < s /\ s <= start[t]
                                       ELSE n < s \/ s <= start[t]}
      BY <1>1, <1>2 DEF Passed, Linked
    <2>2. Passed(t) \cup {cur[t]} = Passed(t)'
      BY <1>1, <1>4, <2>1 DEF Passed, Linked, Socks
    <2> QED
      BY <1>2, <1>4, <2>2
  <1> QED
    BY <1>3, <1>4

\* Where a connect can go on.
LEMMA GoesOn ==
  ASSUME TypeInv, NEW p \in Procs, pc[p] \in {"connect", "stamp"}
  PROVE  /\ OnConnected[ret[p]] \in {"link", "grab", "retry"}
         /\ OnRefused[ret[p]] \in {"link", "skip", "done"}
PROOF
  <1>1. ret[p] \in {"init", "get", "cmd"}
    BY DEF TypeInv, MainControl, ThreadControl, Procs
  <1> QED
    BY <1>1 DEF OnConnected, OnRefused

\* What ScanCoversOnce says of one thread.
Scanned(t) ==
  skipped[t] = IF pc[t] = "none" THEN Linked
               ELSE IF start[t] = NULL THEN {} ELSE Passed(t)

LEMMA ScanStep ==
  TypeInv /\ TypeInv' /\ ScanCoversOnce /\ [Next]_vars => ScanCoversOnce'
PROOF
  <1> SUFFICES ASSUME TypeInv, TypeInv', ScanCoversOnce, [Next]_vars, NEW u \in Threads
               PROVE  Scanned(u)'
    BY DEF ScanCoversOnce, Scanned
  <1>0. Scanned(u)
    BY DEF ScanCoversOnce, Scanned
  <1> USE PoolAssumption DEF Goto, Unlock, Procs, vars, instVars, sockVars,
        heapVars, callVars, connVars
  \* The search of u does not move.
  <1>a. ASSUME redis_pool' = redis_pool, cur'[u] = cur[u], start'[u] = start[u],
               skipped'[u] = skipped[u], pc'[u] = "none" <=> pc[u] = "none"
        PROVE  Scanned(u)'
    BY <1>0, <1>a DEF Scanned, Passed, Linked
  \* The list changes only while u is idle.
  <1>b. ASSUME pc[u] = "idle", pc'[u] = "idle", start'[u] = start[u], skipped'[u] = skipped[u]
        PROVE  Scanned(u)'
    BY <1>0, <1>b DEF Scanned, TypeInv, ThreadControl, Searching, NULL
  \* u moves on.
  <1>c. ASSUME Advance(u), redis_pool' = redis_pool, pc[u] \in {"scan", "locked", "skip"}
        PROVE  Scanned(u)'
    <2>1. start[u] # NULL /\ start'[u] # NULL
      BY <1>c DEF TypeInv, ThreadControl, Searching, Advance
    <2>2. skipped[u] = Passed(u)
      BY <1>0, <1>c, <2>1 DEF Scanned
    <2>3. skipped'[u] = IF pc'[u] = "none" THEN Linked ELSE Passed(u)'
      BY <1>c, <2>2, AdvanceScan
    <2>4. Linked' = Linked
      BY <1>c DEF Linked
    <2> QED
      BY <2>1, <2>3, <2>4 DEF Scanned
  <1>1. ASSUME NEW t \in Threads, GetStart(t) PROVE Scanned(u)'
    <2>1. CASE u = t
      BY <1>0, <1>1, <2>1 DEF GetStart, Scanned, TypeInv, TypeOK, CallType, Passed,
         Linked, Socks, InstType, ThreadControl, Searching, NULL, MainControl
    <2>2. CASE u # t
      BY <1>a, <1>1, <2>2 DEF GetStart, TypeInv, TypeOK, CallType
    <2> QED
      BY <2>1, <2>2
  <1>2. ASSUME NEW t \in Threads, TrylockBusy(t) PROVE Scanned(u)'
    <2>1. CASE u = t
      BY <1>c, <1>2, <2>1 DEF TrylockBusy
    <2>2. CASE u # t
      BY <1>a, <1>2, <2>2 DEF TrylockBusy, Advance, TypeInv, TypeOK, CallType
    <2> QED
      BY <2>1, <2>2
  <1>3. ASSUME NEW t \in Threads, TrylockOk(t) PROVE Scanned(u)'
    BY <1>a, <1>3 DEF TrylockOk, TypeInv, TypeOK, CallType
  <1>4. ASSUME NEW t \in Threads, Examine(t) PROVE Scanned(u)'
    <2>1. CASE u = t /\ inuse[cur[t]]
      BY <1>c, <1>4, <2>1 DEF Examine
    <2>2. CASE ~(u = t /\ inuse[cur[t]])
      BY <1>a, <1>4, <2>2 DEF Examine, Advance, CallConnect, TypeInv, TypeOK, CallType
    <2> QED
      BY <2>1, <2>2
  <1>5. ASSUME NEW t \in Threads, SkipUnconnected(t) PROVE Scanned(u)'
    <2>1. CASE u = t
      BY <1>c, <1>5, <2>1 DEF SkipUnconnected
    <2>2. CASE u # t
      BY <1>a, <1>5, <2>2 DEF SkipUnconnected, Advance, TypeInv, TypeOK, CallType
    <2> QED
      BY <2>1, <2>2
  <1>6. ASSUME NEW t \in Threads, Grab(t) PROVE Scanned(u)'
    <2>1. CASE u = t
      BY <1>0, <1>6, <2>1 DEF Grab, Scanned, TypeInv, TypeOK, CallType, NULL
    <2>2. CASE u # t
      BY <1>a, <1>6, <2>2 DEF Grab, TypeInv, TypeOK, CallType
    <2> QED
      BY <2>1, <2>2
  <1>7. ASSUME NEW t \in Threads, ReturnNull(t) PROVE Scanned(u)'
    <2>1. CASE u = t
      BY <1>0, <1>7, <2>1 DEF ReturnNull, Scanned, TypeInv, TypeOK, CallType, NULL
    <2>2. CASE u # t
      BY <1>a, <1>7, <2>2 DEF ReturnNull, TypeInv, TypeOK, CallType
    <2> QED
      BY <2>1, <2>2
  <1>8. ASSUME NEW t \in Threads, CommandReply(t) PROVE Scanned(u)'
    BY <1>a, <1>8 DEF CommandReply, TypeInv, TypeOK, CallType
  <1>9. ASSUME NEW t \in Threads, CommandFails(t) PROVE Scanned(u)'
    BY <1>a, <1>9 DEF CommandFails, CallConnect, TypeInv, TypeOK, CallType
  <1>10. ASSUME NEW t \in Threads, RetryReply(t) PROVE Scanned(u)'
    BY <1>a, <1>10 DEF RetryReply, TypeInv, TypeOK, CallType
  <1>11. ASSUME NEW t \in Threads, RetryFails(t) PROVE Scanned(u)'
    BY <1>a, <1>11 DEF RetryFails, TypeInv, TypeOK, CallType
  <1>12. ASSUME NEW t \in Threads, Release(t) PROVE Scanned(u)'
    <2>1. CASE u = t
      BY <1>0, <1>12, <2>1 DEF Release, Scanned, TypeInv, TypeOK, CallType,
         ThreadControl, Searching, NULL
    <2>2. CASE u # t
      BY <1>a, <1>12, <2>2 DEF Release, TypeInv, TypeOK, CallType
    <2> QED
      BY <2>1, <2>2
  <1>13. ASSUME NEW p \in Procs, ConnectUp(p) PROVE Scanned(u)'
    BY <1>a, <1>13, GoesOn DEF ConnectUp, TypeInv, TypeOK, CallType
  <1>14. ASSUME NEW p \in Procs, ConnectNext(p) PROVE Scanned(u)'
    BY <1>a, <1>14, GoesOn DEF ConnectNext, TypeInv, TypeOK, CallType
  <1>15. ASSUME NEW p \in Procs, ConnectDown(p) PROVE Scanned(u)'
    BY <1>a, <1>15, GoesOn DEF ConnectDown, TypeInv, TypeOK, CallType
  <1>16. ASSUME NEW p \in Procs, StampGrace(p) PROVE Scanned(u)'
    BY <1>a, <1>16, GoesOn DEF StampGrace, TypeInv, TypeOK, CallType
  <1>17. CASE InitSocket
    BY <1>a, <1>17 DEF InitSocket, CallConnect, TypeInv, TypeOK, CallType
  <1>18. CASE InitFails
    BY <1>a, <1>18 DEF InitFails, TypeInv, TypeOK, CallType
  <1>19. CASE LinkSocket
    BY <1>b, <1>19 DEF LinkSocket, TypeInv, TypeOK, CallType, ThreadControl
  <1>20. CASE InitDone
    BY <1>a, <1>20 DEF InitDone, TypeInv, TypeOK, CallType
  <1>21. CASE Destroy
    BY <1>a, <1>21 DEF Destroy, TypeInv, TypeOK, CallType
  <1>22. CASE CloseSocket
    BY <1>a, <1>22 DEF CloseSocket, TypeInv, TypeOK, CallType
  <1>23. CASE PoolFreed
    BY <1>b, <1>23 DEF PoolFreed, TypeInv, TypeOK, CallType, ThreadControl
  <1>24. CASE Tick
    BY <1>a, <1>24 DEF Tick, TypeInv, TypeOK, CallType
  <1>25. CASE Gone
    BY <1>a, <1>25 DEF Gone, TypeInv, TypeOK, CallType
  <1>26. CASE UNCHANGED vars
    BY <1>a, <1>26
  <1> QED
    BY <1>1, <1>2, <1>3, <1>4, <1>5, <1>6, <1>7, <1>8, <1>9, <1>10, <1>11, <1>12,
       <1>13, <1>14, <1>15, <1>16, <1>17, <1>18, <1>19, <1>20, <1>21, <1>22, <1>23,
       <1>24, <1>25, <1>26
       DEF Next, CallStep, GetSocket, Connect, Command, MainStep

\* Every search looks at each socket at most once and gives up only after all.
THEOREM ScanComplete == Spec => []ScanCoversOnce
PROOF
  <1>1. Init => ScanCoversOnce
    BY PoolAssumption DEF Init, ScanCoversOnce, Procs
  <1> QED
    BY <1>1, Typing, ScanStep, PTL DEF Spec
-----------------------------------------------------------------------------
\* The stamps on their way to connect_after are bounded as it is.
GraceInv ==
  /\ GraceBounded
  /\ \A p \in Procs : pc[p] = "stamp" => stamp[p] <= now + RetryDelay

LEMMA GraceStep == TypeInv /\ GraceInv /\ [Next]_vars => GraceInv'
PROOF
  <1> SUFFICES ASSUME TypeInv, GraceInv, [Next]_vars PROVE GraceInv'
    OBVIOUS
  <1>1. RetryDelay \in Int /\ now \in Int /\ connect_after \in Int /\ stamp \in [Procs -> Int]
    BY PoolAssumption DEF RetryDelay, TypeInv, TypeOK, InstType, ConnType
  <1> USE PoolAssumption, <1>1 DEF GraceInv, GraceBounded, Goto, vars, instVars,
        sockVars,
                                 heapVars, callVars, connVars
  <1>2. ASSUME NEW p \in Procs, ConnectDown(p) PROVE GraceInv'
    BY <1>2 DEF ConnectDown, TypeInv, TypeOK, CallType
  <1>3. ASSUME NEW p \in Procs, StampGrace(p) PROVE GraceInv'
    BY <1>3, GoesOn DEF StampGrace, TypeInv, TypeOK, CallType, ConnType
  <1>4. CASE Tick
    BY <1>4 DEF Tick
  \* No other step touches the clock or a stamp, or goes to "stamp".
  <1>5. ASSUME UNCHANGED <<now, connect_after, stamp>>,
               \A p \in Procs : pc'[p] = "stamp" => pc[p] = "stamp"
        PROVE  GraceInv'
    BY <1>5 DEF RetryDelay
  <1>6. ASSUME NEW t \in Threads, GetStart(t) PROVE GraceInv'
    BY <1>5, <1>6 DEF GetStart, TypeInv, TypeOK, CallType, ConnType, Procs
  <1>7. ASSUME NEW t \in Threads, TrylockBusy(t) PROVE GraceInv'
    BY <1>5, <1>7 DEF TrylockBusy, Advance, TypeInv, TypeOK, CallType, ConnType, Procs
  <1>8. ASSUME NEW t \in Threads, TrylockOk(t) PROVE GraceInv'
    BY <1>5, <1>8 DEF TrylockOk, TypeInv, TypeOK, CallType, ConnType, Procs
  <1>9. ASSUME NEW t \in Threads, Examine(t) PROVE GraceInv'
    BY <1>5, <1>9 DEF Examine, Advance, CallConnect, Advance, TypeInv, TypeOK,
       CallType, ConnType, Procs
  <1>10. ASSUME NEW t \in Threads, SkipUnconnected(t) PROVE GraceInv'
    BY <1>5, <1>10 DEF SkipUnconnected, Advance, TypeInv, TypeOK, CallType,
       ConnType, Procs
  <1>11. ASSUME NEW t \in Threads, Grab(t) PROVE GraceInv'
    BY <1>5, <1>11 DEF Grab, TypeInv, TypeOK, CallType, ConnType, Procs
  <1>12. ASSUME NEW t \in Threads, ReturnNull(t) PROVE GraceInv'
    BY <1>5, <1>12 DEF ReturnNull, TypeInv, TypeOK, CallType, ConnType, Procs
  <1>13. ASSUME NEW t \in Threads, CommandReply(t) PROVE GraceInv'
    BY <1>5, <1>13 DEF CommandReply, TypeInv, TypeOK, CallType, ConnType, Procs
  <1>14. ASSUME NEW t \in Threads, CommandFails(t) PROVE GraceInv'
    BY <1>5, <1>14 DEF CommandFails, CallConnect, TypeInv, TypeOK, CallType,
       ConnType, Procs
  <1>15. ASSUME NEW t \in Threads, RetryReply(t) PROVE GraceInv'
    BY <1>5, <1>15 DEF RetryReply, TypeInv, TypeOK, CallType, ConnType, Procs
  <1>16. ASSUME NEW t \in Threads, RetryFails(t) PROVE GraceInv'
    BY <1>5, <1>16 DEF RetryFails, TypeInv, TypeOK, CallType, ConnType, Procs
  <1>17. ASSUME NEW t \in Threads, Release(t) PROVE GraceInv'
    BY <1>5, <1>17 DEF Release, TypeInv, TypeOK, CallType, ConnType, Procs
  <1>18. ASSUME NEW p \in Procs, ConnectUp(p) PROVE GraceInv'
    BY <1>5, <1>18, GoesOn DEF ConnectUp, TypeInv, TypeOK, CallType, ConnType, Procs
  <1>19. ASSUME NEW p \in Procs, ConnectNext(p) PROVE GraceInv'
    BY <1>5, <1>19, GoesOn DEF ConnectNext, TypeInv, TypeOK, CallType, ConnType, Procs
  <1>20. CASE InitSocket
    BY <1>5, <1>20 DEF InitSocket, CallConnect, TypeInv, TypeOK, CallType,
       ConnType, Procs
  <1>21. CASE InitFails
    BY <1>5, <1>21 DEF InitFails, TypeInv, TypeOK, CallType, ConnType, Procs
  <1>22. CASE LinkSocket
    BY <1>5, <1>22 DEF LinkSocket, TypeInv, TypeOK, CallType, ConnType, Procs
  <1>23. CASE InitDone
    BY <1>5, <1>23 DEF InitDone, TypeInv, TypeOK, CallType, ConnType, Procs
  <1>24. CASE Destroy
    BY <1>5, <1>24 DEF Destroy, TypeInv, TypeOK, CallType, ConnType, Procs
  <1>25. CASE CloseSocket
    BY <1>5, <1>25 DEF CloseSocket, TypeInv, TypeOK, CallType, ConnType, Procs
  <1>26. CASE PoolFreed
    BY <1>5, <1>26 DEF PoolFreed, TypeInv, TypeOK, CallType, ConnType, Procs
  <1>27. CASE Gone
    BY <1>5, <1>27 DEF Gone, TypeInv, TypeOK, CallType, ConnType, Procs
  <1>28. CASE UNCHANGED vars
    BY <1>5, <1>28
  <1> QED
    BY <1>2, <1>3, <1>4, <1>6, <1>7, <1>8, <1>9, <1>10, <1>11, <1>12, <1>13, <1>14,
       <1>15, <1>16, <1>17, <1>18, <1>19, <1>20, <1>21, <1>22, <1>23, <1>24, <1>25,
       <1>26, <1>27, <1>28
       DEF Next, CallStep, GetSocket, Connect, Command, MainStep, Procs

\* Whatever the races on connect_after, it is never further ahead than a delay.
THEOREM GraceEnds == Spec => []GraceBounded
PROOF
  <1>1. Init => GraceInv
    BY PoolAssumption DEF Init, GraceInv, GraceBounded, RetryDelay, Procs
  <1>2. GraceInv => GraceBounded
    BY DEF GraceInv
  <1> QED
    BY <1>1, <1>2, Typing, GraceStep, PTL DEF Spec
-----------------------------------------------------------------------------
(* Fail-over: connect_single_socket tries the endpoints in a circle.        *)

\* How many endpoints a socket at endpoint b tries before e.
Ahead(b, e) == IF b <= e THEN e - b ELSE e - b + NumEndpoints

\* While a process connects, each endpoint that accepts is among those that are
\* still to be tried.
AcceptingAhead ==
  \A p \in Procs :
    /\ pc[p] # "connect" => tries[p] = 0
    /\ pc[p] = "connect" =>
         \A e \in Reliable : tries[p] + Ahead(backup[cur[p]], e) < NumEndpoints
    /\ pc[p] = "stamp" => Reliable = {}

\* One endpoint further, each of the others is one nearer.
LEMMA AheadNext ==
  ASSUME NEW b \in Endpoints, NEW e \in Endpoints, b # e
  PROVE  Ahead((b + 1) % NumEndpoints, e) = Ahead(b, e) - 1
PROOF
  <1>1. NumEndpoints \in Nat \ {0} /\ b \in 0 .. NumEndpoints - 1 /\ e \in 0 .. NumEndpoints - 1
    BY PoolAssumption DEF Endpoints
  <1>2. CASE b + 1 < NumEndpoints
    <2>1. (b + 1) % NumEndpoints = b + 1
      BY <1>1, <1>2
    <2> QED
      BY <1>1, <1>2, <2>1 DEF Ahead
  <1>3. CASE b + 1 = NumEndpoints
    <2>1. (b + 1) % NumEndpoints = 0
      BY <1>1, <1>3
    <2> QED
      BY <1>1, <1>3, <2>1 DEF Ahead
  <1> QED
    BY <1>1, <1>2, <1>3

LEMMA ConnectsSocket ==
  ASSUME TypeInv, NEW p \in Procs, pc[p] = "connect"
  PROVE  cur[p] \in Socks
PROOF
  BY PoolAssumption DEF TypeInv, TypeOK, InstType, MainControl, ThreadControl, Building,
     Locked, Linked, Procs, Socks

\* A step that changes no socket under a process that connects, and at most
\* begins to connect.
LEMMA AheadFrame ==
  ASSUME TypeInv, AcceptingAhead, SockType', UNCHANGED tries,
         \A p \in Procs :
           /\ pc[p] = "connect" =>
                pc'[p] = "connect" /\ cur'[p] = cur[p] /\ backup'[cur[p]] = backup[cur[p]]
           /\ pc[p] # "connect" /\ pc'[p] = "connect" => cur'[p] \in Socks
           /\ pc'[p] = "stamp" => pc[p] = "stamp"
  PROVE  AcceptingAhead'
PROOF
  <1> SUFFICES ASSUME NEW p \in Procs, pc'[p] = "connect", NEW e \in Reliable
               PROVE  tries'[p] + Ahead(backup'[cur'[p]], e) < NumEndpoints
    BY DEF AcceptingAhead
  <1>1. CASE pc[p] = "connect"
    BY <1>1 DEF AcceptingAhead
  <1>2. CASE pc[p] # "connect"
    <2>1. tries'[p] = 0 /\ backup'[cur'[p]] \in Endpoints /\ e \in Endpoints
      BY <1>2, PoolAssumption DEF AcceptingAhead, SockType
    <2> QED
      BY <2>1, PoolAssumption DEF Ahead, Endpoints
  <1> QED
    BY <1>1, <1>2

LEMMA AheadStep ==
  StateInv /\ StateInv' /\ AcceptingAhead /\ [Next]_vars => AcceptingAhead'
PROOF
  <1> SUFFICES ASSUME StateInv, StateInv', AcceptingAhead, [Next]_vars
               PROVE  AcceptingAhead'
    OBVIOUS
  <1> USE PoolAssumption DEF Goto, vars, instVars, sockVars, heapVars, callVars, connVars
  <1>1. /\ TypeInv /\ TypeInv' /\ SockType' /\ pc \in [Procs -> CallLabels \cup MainLabels]
        /\ cur \in [Procs -> Socks \cup {NULL, NumSocks}]
        /\ \A p \in Procs : pc[p] = "connect" => cur[p] \in Socks
    BY ConnectsSocket DEF StateInv, TypeInv, TypeOK, CallType
  <1>2. \A p \in Procs : pc'[p] = "connect" => cur'[p] \in Socks
    BY DEF StateInv, TypeInv, TypeOK, InstType, MainControl, ThreadControl, Building, Locked,
       Linked, Procs, Socks
  <1>3. ASSUME NEW t \in Threads, GetStart(t) PROVE AcceptingAhead'
    BY <1>1, <1>2, <1>3, AheadFrame DEF GetStart, Procs
  <1>4. ASSUME NEW t \in Threads, TrylockBusy(t) PROVE AcceptingAhead'
    BY <1>1, <1>2, <1>4, AheadFrame DEF TrylockBusy, Advance, Procs
  <1>5. ASSUME NEW t \in Threads, TrylockOk(t) PROVE AcceptingAhead'
    BY <1>1, <1>2, <1>5, AheadFrame DEF TrylockOk, Procs
  <1>6. ASSUME NEW t \in Threads, Examine(t) PROVE AcceptingAhead'
    BY <1>1, <1>2, <1>6, AheadFrame DEF Examine, Advance, CallConnect, Procs
  <1>7. ASSUME NEW t \in Threads, SkipUnconnected(t) PROVE AcceptingAhead'
    BY <1>1, <1>2, <1>7, AheadFrame DEF SkipUnconnected, Advance, Procs
  <1>8. ASSUME NEW t \in Threads, Grab(t) PROVE AcceptingAhead'
    BY <1>1, <1>2, <1>8, AheadFrame DEF Grab, Procs
  <1>9. ASSUME NEW t \in Threads, ReturnNull(t) PROVE AcceptingAhead'
    BY <1>1, <1>2, <1>9, AheadFrame DEF ReturnNull, Procs
  <1>10. ASSUME NEW t \in Threads, CommandReply(t) PROVE AcceptingAhead'
    BY <1>1, <1>2, <1>10, AheadFrame DEF CommandReply, Procs
  <1>11. ASSUME NEW t \in Threads, CommandFails(t) PROVE AcceptingAhead'
    BY <1>1, <1>2, <1>11, AheadFrame DEF CommandFails, CallConnect, Procs
  <1>12. ASSUME NEW t \in Threads, RetryReply(t) PROVE AcceptingAhead'
    BY <1>1, <1>2, <1>12, AheadFrame DEF RetryReply, Procs
  <1>13. ASSUME NEW t \in Threads, RetryFails(t) PROVE AcceptingAhead'
    BY <1>1, <1>2, <1>13, AheadFrame DEF RetryFails, Procs
  <1>14. ASSUME NEW t \in Threads, Release(t) PROVE AcceptingAhead'
    BY <1>1, <1>2, <1>14, AheadFrame DEF Release, Procs
  <1>15. ASSUME NEW p \in Procs, ConnectUp(p) PROVE AcceptingAhead'
    <2>1. pc'[p] \notin {"connect", "stamp"} /\ tries' = [tries EXCEPT ![p] = 0]
      BY <1>1, <1>15, GoesOn DEF ConnectUp
    <2>2. ASSUME NEW q \in Procs \ {p}
          PROVE  /\ pc'[q] = pc[q] /\ tries'[q] = tries[q]
                 /\ pc[q] = "connect" => cur'[q] = cur[q] /\ backup'[cur[q]] = backup[cur[q]]
      BY <1>1, <1>15, ConnectAlone DEF ConnectUp, TypeInv, TypeOK, SockType, ConnType
    <2> QED
      BY <1>1, <2>1, <2>2 DEF AcceptingAhead, TypeInv, TypeOK, ConnType
  <1>16. ASSUME NEW p \in Procs, ConnectNext(p) PROVE AcceptingAhead'
    <2>1. /\ pc[p] = "connect" /\ UNCHANGED <<pc, cur>>
          /\ tries' = [tries EXCEPT ![p] = @ + 1]
          /\ backup' = [backup EXCEPT ![cur[p]] = (backup[cur[p]] + 1) % NumEndpoints]
          /\ backup[cur[p]] \notin Reliable
      BY <1>16 DEF ConnectNext, NextBackup
    <2>2. /\ tries \in [Procs -> Endpoints] /\ backup \in [Socks -> Endpoints]
          /\ cur[p] \in Socks
      BY <1>1, <2>1 DEF TypeInv, TypeOK, ConnType, SockType
    <2>3. ASSUME NEW q \in Procs \ {p}
          PROVE  /\ tries'[q] = tries[q]
                 /\ pc[q] = "connect" => backup'[cur[q]] = backup[cur[q]]
      BY <1>1, <2>1, <2>2, ConnectAlone
    <2>4. ASSUME NEW e \in Reliable
          PROVE  tries'[p] + Ahead(backup'[cur[p]], e) < NumEndpoints
      <3>1. e \in Endpoints /\ backup[cur[p]] \in Endpoints /\ backup[cur[p]] # e
        BY <2>1, <2>2
      <3>2. Ahead(backup'[cur[p]], e) = Ahead(backup[cur[p]], e) - 1
        BY <2>1, <2>2, <3>1, AheadNext
      <3>3. tries'[p] = tries[p] + 1 /\ tries[p] \in Nat /\ Ahead(backup[cur[p]], e) \in Int
        BY <2>1, <2>2, <3>1 DEF Endpoints, Ahead
      <3>4. tries[p] + Ahead(backup[cur[p]], e) < NumEndpoints
        BY <2>1 DEF AcceptingAhead
      <3> QED
        BY <3>2, <3>3, <3>4
    <2> QED
      BY <2>1, <2>3, <2>4 DEF AcceptingAhead
  <1>17. ASSUME NEW p \in Procs, ConnectDown(p) PROVE AcceptingAhead'
    <2>1. /\ pc[p] = "connect" /\ pc' = [pc EXCEPT ![p] = "stamp"] /\ UNCHANGED cur
          /\ tries' = [tries EXCEPT ![p] = 0] /\ tries[p] = NumEndpoints - 1
          /\ backup' = [backup EXCEPT ![cur[p]] = NextBackup(cur[p])]
          /\ backup[cur[p]] \notin Reliable
      BY <1>17 DEF ConnectDown, LastTry
    <2>2. /\ tries \in [Procs -> Endpoints] /\ backup \in [Socks -> Endpoints]
          /\ cur[p] \in Socks
      BY <1>1, <2>1 DEF TypeInv, TypeOK, ConnType, SockType
    <2>3. ASSUME NEW q \in Procs \ {p}
          PROVE  /\ tries'[q] = tries[q] /\ pc'[q] = pc[q]
                 /\ pc[q] = "connect" => backup'[cur[q]] = backup[cur[q]]
      BY <1>1, <2>1, <2>2, ConnectAlone
    <2>4. ASSUME NEW e \in Reliable PROVE FALSE
      <3>1. tries[p] + Ahead(backup[cur[p]], e) < NumEndpoints
        BY <2>1 DEF AcceptingAhead
      <3>2. e \in Endpoints /\ backup[cur[p]] \in Endpoints /\ backup[cur[p]] # e
        BY <2>1, <2>2
      <3> QED
        BY <2>1, <3>1, <3>2 DEF Ahead, Endpoints
    <2> QED
      BY <1>1, <2>1, <2>2, <2>3, <2>4 DEF AcceptingAhead
  <1>18. ASSUME NEW p \in Procs, StampGrace(p) PROVE AcceptingAhead'
    <2>1. pc'[p] \notin {"connect", "stamp"} /\ pc[p] = "stamp"
      BY <1>1, <1>18, GoesOn DEF StampGrace
    <2> QED
      BY <1>1, <1>18, <2>1, AheadFrame DEF StampGrace
  <1>19. CASE InitSocket
    <2>1. \A p \in Procs : pc[p] # "connect"
      BY <1>19 DEF InitSocket, StateInv, TypeInv, ThreadControl, Procs
    <2> QED
      BY <1>1, <1>2, <1>19, <2>1, AheadFrame DEF InitSocket, CallConnect, Procs
  <1>20. CASE InitFails
    BY <1>1, <1>2, <1>20, AheadFrame DEF InitFails, Procs
  <1>21. CASE LinkSocket
    BY <1>1, <1>2, <1>21, AheadFrame DEF LinkSocket, Procs
  <1>22. CASE InitDone
    BY <1>1, <1>2, <1>22, AheadFrame DEF InitDone, Procs
  <1>23. CASE Destroy
    BY <1>1, <1>2, <1>23, AheadFrame DEF Destroy, Procs
  <1>24. CASE CloseSocket
    BY <1>1, <1>2, <1>24, AheadFrame DEF CloseSocket, Procs
  <1>25. CASE PoolFreed
    BY <1>1, <1>2, <1>25, AheadFrame DEF PoolFreed, Procs
  <1>26. CASE Tick
    BY <1>1, <1>2, <1>26, AheadFrame DEF Tick, Procs
  <1>27. CASE Gone
    BY <1>1, <1>2, <1>27, AheadFrame DEF Gone, Procs
  <1>28. CASE UNCHANGED vars
    BY <1>1, <1>2, <1>28, AheadFrame
  <1> QED
    BY <1>3, <1>4, <1>5, <1>6, <1>7, <1>8, <1>9, <1>10, <1>11, <1>12, <1>13, <1>14,
       <1>15, <1>16, <1>17, <1>18, <1>19, <1>20, <1>21, <1>22, <1>23, <1>24, <1>25,
       <1>26, <1>27, <1>28
       DEF Next, CallStep, GetSocket, Connect, Command, MainStep, Procs

\* A socket is given up only after every endpoint refused it: with one endpoint
\* that accepts no connect fails, wherever its backup index began, and whatever
\* other threads do meanwhile.
THEOREM EveryEndpointTried == Spec => []FailOver
PROOF
  <1>1. Init => AcceptingAhead
    BY PoolAssumption DEF Init, AcceptingAhead, Procs
  <1>2. AcceptingAhead => FailOver
    BY DEF AcceptingAhead, FailOver
  <1>3. Spec => []StateInv
    BY StatesKept, PTL
  <1> QED
    BY <1>1, <1>2, <1>3, AheadStep, PTL DEF Spec
-----------------------------------------------------------------------------
(* RedisPool implements SocketLease.                                        *)

Up == {s \in Socks : state[s] = "sockconnected"}

LEMMA HolderIs ==
  ASSUME StateInv, NEW t \in Threads, Locked(t)
  PROVE  /\ cur[t] \in Socks
         /\ LeaseHolder[cur[t]] = IF HasLease(t) THEN t ELSE NoProc
PROOF
  <1>1. cur[t] \in Socks /\ mutex[cur[t]] = t
    BY DEF StateInv, TypeInv, ThreadControl, LockDiscipline, Linked
  <1> QED
    BY <1>1, PoolAssumption DEF LeaseHolder, Procs

\* A step that only takes or gives back a mutex, or moves a thread about, keeps
\* the leases as they are.
LEMMA LeaseQuiet ==
  ASSUME pc'[Main] = "serving" <=> pc[Main] = "serving", state' = state,
         \A s \in Socks : LeaseHolder'[s] = LeaseHolder[s]
  PROVE  UNCHANGED Lease!vars
PROOF
  <1>1. LeaseHolder' = LeaseHolder
    BY DEF LeaseHolder
  <1> QED
    BY <1>1 DEF Lease!vars

LEMMA LeaseInit == Init => Lease!Init
PROOF
  BY PoolAssumption DEF Init, Lease!Init, LeaseHolder, Procs

LEMMA LeaseStep ==
  StateInv /\ StateInv' /\ SocketStates /\ SocketStates' /\ [Next]_vars
    => [Lease!Next]_Lease!vars
PROOF
  <1> SUFFICES ASSUME StateInv, StateInv', SocketStates, SocketStates', [Next]_vars
               PROVE  [Lease!Next]_Lease!vars
    OBVIOUS
  <1> USE PoolAssumption DEF Goto, Unlock, Procs, vars, instVars, sockVars, heapVars,
                             callVars, connVars
  <1>0. ASSUME pc'[Main] = "serving" <=> pc[Main] = "serving", state' = state,
               \A s \in Socks : LeaseHolder'[s] = LeaseHolder[s]
        PROVE  [Lease!Next]_Lease!vars
    BY <1>0, LeaseQuiet
  \* The threads that have a mutex: where nothing else is said, their lease stays.
  <1>a. ASSUME NEW t \in Threads, mutex' = mutex, HasLease(t)' <=> HasLease(t),
               \A u \in Threads \ {t} : pc'[u] = pc[u] /\ ret'[u] = ret[u]
        PROVE  \A s \in Socks : LeaseHolder'[s] = LeaseHolder[s]
    BY <1>a DEF LeaseHolder, HasLease, StateInv, TypeInv, TypeOK, SockType
  <1>b. ASSUME mutex' = mutex, \A u \in Threads : pc'[u] = pc[u] /\ ret'[u] = ret[u]
        PROVE  \A s \in Socks : LeaseHolder'[s] = LeaseHolder[s]
    BY <1>b DEF LeaseHolder, HasLease, StateInv, TypeInv, TypeOK, SockType
  \* t gives back the mutex of its socket without having leased it.
  <1>c. ASSUME NEW t \in Threads, Locked(t), ~HasLease(t), cur[t] \in Socks,
               mutex' = [mutex EXCEPT ![cur[t]] = NoProc],
               \A u \in Threads \ {t} : pc'[u] = pc[u] /\ ret'[u] = ret[u]
        PROVE  \A s \in Socks : LeaseHolder'[s] = LeaseHolder[s]
    BY <1>c DEF LeaseHolder, HasLease, StateInv, TypeInv, TypeOK, SockType,
       LockDiscipline
  <1>1. ASSUME NEW t \in Threads, GetStart(t) PROVE [Lease!Next]_Lease!vars
    <2>1. /\ HasLease(t)' <=> HasLease(t)
          /\ \A u \in Procs \ {t} : pc'[u] = pc[u] /\ ret'[u] = ret[u]
      BY <1>1 DEF GetStart, HasLease, StateInv, TypeInv, TypeOK, CallType, ConnType
    <2> QED
      BY <1>0, <1>a, <1>1, <2>1 DEF GetStart
  <1>2. ASSUME NEW t \in Threads, TrylockBusy(t) PROVE [Lease!Next]_Lease!vars
    <2>1. /\ HasLease(t)' <=> HasLease(t)
          /\ \A u \in Procs \ {t} : pc'[u] = pc[u] /\ ret'[u] = ret[u]
      BY <1>2 DEF TrylockBusy, Advance, HasLease, StateInv, TypeInv, TypeOK,
         CallType, ConnType
    <2> QED
      BY <1>0, <1>a, <1>2, <2>1 DEF TrylockBusy
  <1>3. ASSUME NEW t \in Threads, TrylockOk(t) PROVE [Lease!Next]_Lease!vars
    <2>1. cur[t] \in Socks /\ mutex[cur[t]] = NoProc /\ ~HasLease(t)'
      BY <1>3 DEF TrylockOk, HasLease, StateInv, TypeInv, TypeOK, CallType,
         ConnType, ThreadControl, Locked, Linked
    <2>2. \A u \in Procs \ {t} : pc'[u] = pc[u] /\ ret'[u] = ret[u]
      BY <1>3 DEF TrylockOk, StateInv, TypeInv, TypeOK, CallType, ConnType
    <2>3. \A s \in Socks : LeaseHolder'[s] = LeaseHolder[s]
      BY <1>3, <2>1, <2>2 DEF TrylockOk, LeaseHolder, HasLease, StateInv, TypeInv,
         TypeOK, CallType, ConnType, SockType, LockDiscipline, Locked
    <2> QED
      BY <1>0, <1>3, <2>2, <2>3 DEF TrylockOk
  <1>4. ASSUME NEW t \in Threads, Examine(t) PROVE [Lease!Next]_Lease!vars
    <2>1. ~HasLease(t) /\ ~HasLease(t)' /\ Locked(t) /\ cur[t] \in Socks
      BY <1>4 DEF Examine, Advance, CallConnect, HasLease, StateInv, TypeInv,
         TypeOK, CallType, ConnType, ThreadControl, Locked, Linked
    <2>2. \A u \in Procs \ {t} : pc'[u] = pc[u] /\ ret'[u] = ret[u]
      BY <1>4 DEF Examine, Advance, CallConnect, StateInv, TypeInv, TypeOK,
         CallType, ConnType
    <2>3. mutex' = mutex \/ mutex' = [mutex EXCEPT ![cur[t]] = NoProc]
      BY <1>4 DEF Examine
    <2>4. \A s \in Socks : LeaseHolder'[s] = LeaseHolder[s]
      BY <1>a, <1>c, <2>1, <2>2, <2>3
    <2> QED
      BY <1>0, <1>4, <2>2, <2>4 DEF Examine
  <1>5. ASSUME NEW t \in Threads, SkipUnconnected(t) PROVE [Lease!Next]_Lease!vars
    <2>1. ~HasLease(t) /\ Locked(t) /\ cur[t] \in Socks
      BY <1>5 DEF SkipUnconnected, HasLease, StateInv, TypeInv, TypeOK, CallType,
         ConnType, ThreadControl, Locked, Linked
    <2>2. \A u \in Procs \ {t} : pc'[u] = pc[u] /\ ret'[u] = ret[u]
      BY <1>5 DEF SkipUnconnected, Advance, StateInv, TypeInv, TypeOK, CallType,
         ConnType
    <2> QED
      BY <1>0, <1>c, <1>5, <2>1, <2>2 DEF SkipUnconnected
  <1>6. ASSUME NEW t \in Threads, Grab(t) PROVE [Lease!Next]_Lease!vars
    <2>1. /\ cur[t] \in Socks /\ mutex[cur[t]] = t /\ pc[Main] = "serving"
          /\ ~HasLease(t) /\ HasLease(t)' /\ LeaseHolder[cur[t]] = NoProc
      BY <1>6, HolderIs DEF Grab, HasLease, StateInv, TypeInv, TypeOK, CallType,
         ConnType, ThreadControl, Locked, Linked, LockDiscipline
    <2>2. \A u \in Procs \ {t} : pc'[u] = pc[u] /\ ret'[u] = ret[u]
      BY <1>6 DEF Grab, StateInv, TypeInv, TypeOK, CallType, ConnType
    <2>3. LeaseHolder' = [LeaseHolder EXCEPT ![cur[t]] = t]
      <3>1. \A u \in Threads \ {t} : HasLease(u)' <=> HasLease(u)
        BY <2>2 DEF HasLease, Procs
      <3>2. \A s \in Socks : LeaseHolder'[s] = IF s = cur[t] THEN t ELSE LeaseHolder[s]
        BY <1>6, <2>1, <3>1 DEF Grab, LeaseHolder, StateInv, TypeInv, TypeOK,
           CallType, ConnType, SockType, LockDiscipline
      <3> QED
        BY <2>1, <3>2 DEF LeaseHolder
    <2>4. cur[t] \in Up
      BY <1>6, <2>1 DEF Grab, Up, SocketStates
    <2>5. Lease!Acquire(t, cur[t])
      BY <1>6, <2>1, <2>2, <2>3, <2>4 DEF Grab, Up, Lease!Acquire
    <2> QED
      BY <2>1, <2>5 DEF Lease!Next
  <1>7. ASSUME NEW t \in Threads, ReturnNull(t) PROVE [Lease!Next]_Lease!vars
    <2>1. /\ HasLease(t)' <=> HasLease(t)
          /\ \A u \in Procs \ {t} : pc'[u] = pc[u] /\ ret'[u] = ret[u]
      BY <1>7 DEF ReturnNull, HasLease, StateInv, TypeInv, TypeOK, CallType, ConnType
    <2> QED
      BY <1>0, <1>a, <1>7, <2>1 DEF ReturnNull
  <1>8. ASSUME NEW t \in Threads, CommandReply(t) PROVE [Lease!Next]_Lease!vars
    <2>1. /\ HasLease(t)' <=> HasLease(t)
          /\ \A u \in Procs \ {t} : pc'[u] = pc[u] /\ ret'[u] = ret[u]
      BY <1>8 DEF CommandReply, HasLease, StateInv, TypeInv, TypeOK, CallType,
         ConnType
    <2> QED
      BY <1>0, <1>a, <1>8, <2>1 DEF CommandReply
  <1>9. ASSUME NEW t \in Threads, CommandFails(t) PROVE [Lease!Next]_Lease!vars
    <2>1. /\ HasLease(t)' <=> HasLease(t)
          /\ \A u \in Procs \ {t} : pc'[u] = pc[u] /\ ret'[u] = ret[u]
      BY <1>9 DEF CommandFails, CallConnect, HasLease, StateInv, TypeInv, TypeOK,
         CallType, ConnType
    <2> QED
      BY <1>0, <1>a, <1>9, <2>1 DEF CommandFails
  <1>10. ASSUME NEW t \in Threads, RetryReply(t) PROVE [Lease!Next]_Lease!vars
    <2>1. /\ HasLease(t)' <=> HasLease(t)
          /\ \A u \in Procs \ {t} : pc'[u] = pc[u] /\ ret'[u] = ret[u]
      BY <1>10 DEF RetryReply, HasLease, StateInv, TypeInv, TypeOK, CallType, ConnType
    <2> QED
      BY <1>0, <1>a, <1>10, <2>1 DEF RetryReply
  <1>11. ASSUME NEW t \in Threads, RetryFails(t) PROVE [Lease!Next]_Lease!vars
    <2>1. /\ HasLease(t)' <=> HasLease(t)
          /\ \A u \in Procs \ {t} : pc'[u] = pc[u] /\ ret'[u] = ret[u]
      BY <1>11 DEF RetryFails, HasLease, StateInv, TypeInv, TypeOK, CallType, ConnType
    <2> QED
      BY <1>0, <1>a, <1>11, <2>1 DEF RetryFails
  <1>12. ASSUME NEW t \in Threads, Release(t) PROVE [Lease!Next]_Lease!vars
    <2>1. /\ cur[t] \in Socks /\ mutex[cur[t]] = t /\ pc[Main] = "serving"
          /\ LeaseHolder[cur[t]] = t
      BY <1>12, HolderIs DEF Release, HasLease, StateInv, TypeInv, TypeOK,
         CallType, ConnType, ThreadControl, Locked, Linked, LockDiscipline
    <2>2. \A u \in Procs \ {t} : pc'[u] = pc[u] /\ ret'[u] = ret[u]
      BY <1>12 DEF Release, StateInv, TypeInv, TypeOK, CallType, ConnType
    <2>3. LeaseHolder' = [LeaseHolder EXCEPT ![cur[t]] = NoProc]
      <3>1. \A u \in Threads \ {t} : HasLease(u)' <=> HasLease(u)
        BY <2>2 DEF HasLease, Procs
      <3>2. \A s \in Socks : LeaseHolder'[s] = IF s = cur[t] THEN NoProc ELSE LeaseHolder[s]
        BY <1>12, <2>1, <3>1 DEF Release, LeaseHolder, StateInv, TypeInv, TypeOK,
           CallType, ConnType, SockType, LockDiscipline
      <3> QED
        BY <2>1, <3>2 DEF LeaseHolder
    <2>4. Lease!Release(cur[t])
      BY <1>12, <2>1, <2>2, <2>3 DEF Release, Lease!Release
    <2> QED
      BY <2>1, <2>4 DEF Lease!Next
  <1>13. ASSUME NEW p \in Procs, ConnectUp(p) PROVE [Lease!Next]_Lease!vars
    <2>1. /\ \A u \in Threads : HasLease(u)' <=> HasLease(u)
          /\ pc'[Main] = "serving" <=> pc[Main] = "serving"
      BY <1>13, GoesOn DEF ConnectUp, OnConnected, HasLease, StateInv, TypeInv,
         TypeOK, CallType, ConnType, ThreadControl
    <2>2. LeaseHolder' = LeaseHolder
      BY <1>13, <2>1 DEF ConnectUp, LeaseHolder, StateInv, TypeInv, TypeOK,
         CallType, ConnType, SockType
    <2>3. cur[p] \in Socks /\ state' = [state EXCEPT ![cur[p]] = "sockconnected"]
      BY <1>13, ConnectingIsFree DEF ConnectUp
    <2>4. CASE p \in Threads /\ ret[p] = "cmd"
      <3>1. LeaseHolder[cur[p]] = p /\ state[cur[p]] = "sockconnected" /\ pc[Main] = "serving"
        BY <1>13, <2>4, HolderIs DEF ConnectUp, HasLease, Locked, SocketStates,
           StateInv, TypeInv, TypeOK, CallType, ConnType, ThreadControl
      <3> QED
        BY <1>0, <2>1, <2>2, <2>3, <3>1 DEF StateInv, TypeInv, TypeOK, CallType,
           ConnType, SockType
    <2>5. CASE ~(p \in Threads /\ ret[p] = "cmd")
      <3>1. ret[p] # "cmd"
        BY <1>13, <2>5 DEF ConnectUp, StateInv, TypeInv, TypeOK, CallType,
           ConnType, MainControl
      <3>2. state[cur[p]] = "sockunconnected"
        BY <1>13, <3>1 DEF ConnectUp, SocketStates
      <3>3. LeaseHolder[cur[p]] = NoProc
        <4>1. CASE p \in Threads
          BY <1>13, <3>1, <4>1, HolderIs DEF ConnectUp, HasLease, Locked
        <4>2. CASE p = Main
          BY <1>13, <2>3, <4>2 DEF ConnectUp, LeaseHolder, HasLease, StateInv,
             TypeInv, TypeOK, CallType, ConnType, SockType, ThreadControl
        <4> QED
          BY <4>1, <4>2
      <3>4. cur[p] \notin Up /\ Up' = Up \cup {cur[p]}
        BY <2>3, <3>2 DEF Up, StateInv, TypeInv, TypeOK, CallType, ConnType, SockType
      <3>5. \E s \in Socks : Lease!Connect(s)
        BY <2>3, <2>1, <2>2, <3>3, <3>4 DEF Up, Lease!Connect
      <3> QED
        BY <3>5 DEF Lease!Next
    <2> QED
      BY <2>4, <2>5
  <1>14. ASSUME NEW p \in Procs, ConnectNext(p) PROVE [Lease!Next]_Lease!vars
    <2>1. /\ \A u \in Threads : HasLease(u)' <=> HasLease(u)
          /\ pc'[Main] = "serving" <=> pc[Main] = "serving"
      BY <1>14, GoesOn DEF ConnectNext, HasLease, StateInv, TypeInv, TypeOK,
         CallType, ConnType
    <2>2. \A s \in Socks : LeaseHolder'[s] = LeaseHolder[s]
      BY <1>14, <2>1 DEF ConnectNext, LeaseHolder, StateInv, TypeInv, TypeOK,
         CallType, ConnType, SockType
    <2> QED
      BY <1>0, <1>14, <2>1, <2>2 DEF ConnectNext
  <1>15. ASSUME NEW p \in Procs, ConnectDown(p) PROVE [Lease!Next]_Lease!vars
    <2>1. /\ \A u \in Threads : HasLease(u)' <=> HasLease(u)
          /\ pc'[Main] = "serving" <=> pc[Main] = "serving"
      BY <1>15, GoesOn DEF ConnectDown, HasLease, StateInv, TypeInv, TypeOK,
         CallType, ConnType, ThreadControl
    <2>2. LeaseHolder' = LeaseHolder
      BY <1>15, <2>1 DEF ConnectDown, LeaseHolder, StateInv, TypeInv, TypeOK,
         CallType, ConnType, SockType
    <2>3. cur[p] \in Socks /\ state' = [state EXCEPT ![cur[p]] = "sockunconnected"]
      BY <1>15, ConnectingIsFree DEF ConnectDown
    <2>4. CASE p \in Threads /\ ret[p] = "cmd"
      <3>1. LeaseHolder[cur[p]] = p /\ state[cur[p]] = "sockconnected" /\ pc[Main] = "serving"
        BY <1>15, <2>4, HolderIs DEF ConnectDown, HasLease, Locked, SocketStates,
           StateInv, TypeInv, TypeOK, CallType, ConnType, ThreadControl
      <3>2. Up' = Up \ {cur[p]}
        BY <2>3 DEF Up, StateInv, TypeInv, TypeOK, CallType, ConnType, SockType
      <3>3. \E s \in Socks : Lease!Lose(s)
        BY <2>3, <2>1, <2>2, <3>1, <3>2 DEF Up, Lease!Lose
      <3> QED
        BY <3>3 DEF Lease!Next
    <2>5. CASE ~(p \in Threads /\ ret[p] = "cmd")
      <3>1. ret[p] # "cmd"
        BY <1>15, <2>5 DEF ConnectDown, StateInv, TypeInv, TypeOK, CallType,
           ConnType, MainControl
      <3>2. state[cur[p]] = "sockunconnected"
        BY <1>15, <3>1 DEF ConnectDown, SocketStates
      <3> QED
        BY <1>0, <2>1, <2>2, <2>3, <3>2 DEF StateInv, TypeInv, TypeOK, CallType,
           ConnType, SockType
    <2> QED
      BY <2>4, <2>5
  <1>16. ASSUME NEW p \in Procs, StampGrace(p) PROVE [Lease!Next]_Lease!vars
    <2>1. /\ \A u \in Threads : HasLease(u)' <=> HasLease(u)
          /\ pc'[Main] = "serving" <=> pc[Main] = "serving"
      BY <1>16, GoesOn DEF StampGrace, OnRefused, HasLease, StateInv, TypeInv,
         TypeOK, CallType, ConnType, ThreadControl
    <2>2. \A s \in Socks : LeaseHolder'[s] = LeaseHolder[s]
      BY <1>16, <2>1 DEF StampGrace, LeaseHolder, StateInv, TypeInv, TypeOK,
         CallType, ConnType, SockType
    <2> QED
      BY <1>0, <1>16, <2>1, <2>2 DEF StampGrace
  <1>17. CASE InitSocket
    <2>1. /\ \A u \in Threads : pc'[u] = pc[u] /\ ret'[u] = ret[u]
          /\ pc[Main] # "serving" /\ pc'[Main] # "serving"
      BY <1>17 DEF InitSocket, CallConnect, StateInv, TypeInv, TypeOK, CallType,
         ConnType
    <2>2. state' = state
      BY <1>17 DEF InitSocket, SocketStates, StateInv, TypeInv, TypeOK, CallType,
         ConnType, SockType, MainControl, Building, Linked, Socks
    <2> QED
      BY <1>0, <1>b, <1>17, <2>1, <2>2 DEF InitSocket
  <1>18. CASE InitFails
    <2>1. /\ \A u \in Threads : pc'[u] = pc[u] /\ ret'[u] = ret[u]
          /\ pc'[Main] = "serving" <=> pc[Main] = "serving"
      BY <1>18 DEF InitFails, StateInv, TypeInv, TypeOK, CallType, ConnType
    <2> QED
      BY <1>0, <1>b, <1>18, <2>1 DEF InitFails
  <1>19. CASE LinkSocket
    <2>1. /\ \A u \in Threads : pc'[u] = pc[u] /\ ret'[u] = ret[u]
          /\ pc'[Main] = "serving" <=> pc[Main] = "serving"
      BY <1>19 DEF LinkSocket, StateInv, TypeInv, TypeOK, CallType, ConnType
    <2> QED
      BY <1>0, <1>b, <1>19, <2>1 DEF LinkSocket
  <1>20. CASE InitDone
    <2>1. \A u \in Threads : pc'[u] = pc[u] /\ ret'[u] = ret[u]
      BY <1>20 DEF InitDone, StateInv, TypeInv, TypeOK, CallType, ConnType
    <2>2. LeaseHolder' = LeaseHolder
      BY <1>b, <1>20, <2>1 DEF InitDone, LeaseHolder
    <2> QED
      BY <1>20, <2>2 DEF InitDone, Lease!Open, Lease!Next, StateInv, TypeInv,
         TypeOK, CallType, ConnType
  <1>21. CASE Destroy
    <2>1. \A u \in Threads : pc'[u] = pc[u] /\ ret'[u] = ret[u]
      BY <1>21 DEF Destroy, StateInv, TypeInv, TypeOK, CallType, ConnType
    <2>2. LeaseHolder' = LeaseHolder
      BY <1>b, <1>21, <2>1 DEF Destroy, LeaseHolder
    <2>3. \A s \in Socks : LeaseHolder[s] = NoProc
      BY <1>21 DEF Destroy, LeaseHolder, HasLease, StateInv, TypeInv, TypeOK,
         CallType, ConnType, SockType
    <2> QED
      BY <1>21, <2>2, <2>3 DEF Destroy, Lease!Close, Lease!Next, StateInv, TypeInv,
         TypeOK, CallType, ConnType
  <1>22. CASE CloseSocket
    <2>1. cur[Main] \in Socks /\ pc' = pc
      BY <1>22 DEF CloseSocket, StateInv, TypeInv, TypeOK, CallType, ConnType,
         MainControl, Linked
    <2>2. LeaseHolder' = LeaseHolder
      BY <1>b, <1>22 DEF CloseSocket, LeaseHolder
    <2>3. CASE state[cur[Main]] = "sockconnected"
      <3>1. cur[Main] \in Up /\ Up' = Up \ {cur[Main]}
        BY <1>22, <2>1, <2>3 DEF CloseSocket, Up, StateInv, TypeInv, TypeOK,
           CallType, ConnType, SockType
      <3>2. \E s \in Socks : Lease!Drop(s)
        BY <1>22, <2>1, <2>2, <3>1 DEF CloseSocket, Up, Lease!Drop
      <3> QED
        BY <3>2 DEF Lease!Next
    <2>4. CASE state[cur[Main]] # "sockconnected"
      BY <1>0, <1>22, <2>1, <2>2, <2>4 DEF CloseSocket, StateInv, TypeInv, TypeOK,
         CallType, ConnType, SockType
    <2> QED
      BY <2>3, <2>4
  <1>23. CASE PoolFreed
    <2>1. /\ \A u \in Threads : pc'[u] = pc[u] /\ ret'[u] = ret[u]
          /\ pc'[Main] = "serving" <=> pc[Main] = "serving"
      BY <1>23 DEF PoolFreed, StateInv, TypeInv, TypeOK, CallType, ConnType
    <2> QED
      BY <1>0, <1>b, <1>23, <2>1 DEF PoolFreed
  <1>24. CASE Tick
    <2>1. /\ \A u \in Threads : pc'[u] = pc[u] /\ ret'[u] = ret[u]
          /\ pc'[Main] = "serving" <=> pc[Main] = "serving"
      BY <1>24 DEF Tick, StateInv, TypeInv, TypeOK, CallType, ConnType
    <2> QED
      BY <1>0, <1>b, <1>24, <2>1 DEF Tick
  <1>25. CASE Gone
    <2>1. /\ \A u \in Threads : pc'[u] = pc[u] /\ ret'[u] = ret[u]
          /\ pc'[Main] = "serving" <=> pc[Main] = "serving"
      BY <1>25 DEF Gone, StateInv, TypeInv, TypeOK, CallType, ConnType
    <2> QED
      BY <1>0, <1>b, <1>25, <2>1 DEF Gone
  <1>26. CASE UNCHANGED vars
    BY <1>0, <1>b, <1>26
  <1> QED
    BY <1>1, <1>2, <1>3, <1>4, <1>5, <1>6, <1>7, <1>8, <1>9, <1>10, <1>11, <1>12,
       <1>13, <1>14, <1>15, <1>16, <1>17, <1>18, <1>19, <1>20, <1>21, <1>22, <1>23,
       <1>24, <1>25, <1>26
       DEF Next, CallStep, GetSocket, Connect, Command, MainStep

\* The pool keeps the promises of SocketLease.
THEOREM PoolImplementsLease == Spec => ImplementsLease
PROOF
  BY LeaseInit, LeaseStep, StatesKept, PTL DEF Spec, ImplementsLease, Lease!Safety
=============================================================================
