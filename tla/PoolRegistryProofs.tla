------------------------- MODULE PoolRegistryProofs -------------------------
(***************************************************************************)
(* Theorems about the registry of pools, for every number of threads,      *)
(* clients, databases, servers and pools: references are counted exactly,  *)
(* a pool in use is not destroyed, and which pool a client gets.           *)
(*                                                                         *)
(* All but OnePoolPerDb need that no two threads use the same Client       *)
(* (OwnClients), which the code leaves to its caller: with a shared one    *)
(* UsedIsLive is false, as a run of PoolRegistry shows.                    *)
(***************************************************************************)
EXTENDS PoolRegistry, FiniteSetTheorems, TLAPS

\* How the size of a finite set changes when one element comes or goes.
Bit(b) == IF b THEN 1 ELSE 0

LEMMA CountChange ==
  ASSUME NEW D, IsFiniteSet(D), NEW A \in SUBSET D, NEW B \in SUBSET D, NEW d,
         \A e \in D : e # d => (e \in A <=> e \in B)
  PROVE  /\ Cardinality(A) \in Nat /\ Cardinality(B) \in Nat
         /\ Cardinality(B) = Cardinality(A) + Bit(d \in B) - Bit(d \in A)
PROOF
  <1>1. IsFiniteSet(A) /\ IsFiniteSet(B)
    BY FS_Subset
  <1>2. Cardinality(A) \in Nat /\ Cardinality(B) \in Nat
    BY <1>1, FS_CardinalityType
  <1>3. CASE d \in A <=> d \in B
    <2>1. A = B
      BY <1>3
    <2> QED
      BY <1>2, <1>3, <2>1 DEF Bit
  <1>4. CASE d \notin A /\ d \in B
    <2>1. B = A \cup {d}
      BY <1>4
    <2>2. Cardinality(B) = Cardinality(A) + 1
      BY <1>1, <1>4, <2>1, FS_AddElement
    <2> QED
      BY <1>2, <1>4, <2>2 DEF Bit
  <1>5. CASE d \in A /\ d \notin B
    <2>1. B = A \ {d}
      BY <1>5
    <2>2. Cardinality(B) = Cardinality(A) - 1
      BY <1>1, <1>5, <2>1, FS_RemoveElement
    <2> QED
      BY <1>2, <1>5, <2>2 DEF Bit
  <1> QED
    BY <1>3, <1>4, <1>5

LEMMA NoneCounted ==
  ASSUME NEW D, IsFiniteSet(D), NEW A \in SUBSET D
  PROVE  /\ Cardinality(A) \in Nat
         /\ Cardinality(A) = 0 <=> A = {}
PROOF
  <1>1. IsFiniteSet(A)
    BY FS_Subset
  <1> QED
    BY <1>1, FS_CardinalityType, FS_EmptySet

OwnClients == \A t, u \in Threads : ClientOf[t] = ClientOf[u] => t = u

\* Everything in TypeOK but the counts themselves.
Types == MapType /\ live \in SUBSET Pools /\ rc = [p \in Pools |-> rc[p]] /\ CallType /\ WatchType

\* The local pointers of a call, and what they point to, at each of its steps.
CallInv ==
  \A t \in Threads :
    /\ temp[t] # NoPool => pc[t] \in {"assign", "swap"}
    /\ old[t] # NoPool => pc[t] \in {"swap", "drop"}
    /\ pc[t] = "swap" => old[t] = client[ClientOf[t]]
    /\ used[t] # NoPool => pc[t] = "running" /\ used[t] = client[ClientOf[t]]
    /\ watch = "gone" => pc[t] = "gone"

\* The watcher deletes one pool at a time, on account of one server.
LoopInv ==
  /\ deleting # {} => watch = "loop"
  /\ watch = "loop" => event[2] \in Servers
  /\ \A d, e \in deleting : d = e

LEMMA InitInv == Init => TypeOK /\ CallInv /\ LoopInv
PROOF
  BY RegistryAssumption DEF Init, TypeOK, MapType, CountType, CallType, WatchType,
     MutexesHeld, CallInv, LoopInv, PoolPtr, Labels

LEMMA TypesStep ==
  ASSUME Types, LoopInv, [Next]_vars
  PROVE  Types'
PROOF
  <1> USE RegistryAssumption DEF mutexVars, countVars, callVars, watchVars, Goto
  <1>1. ASSUME NEW t \in Threads, StartCall(t) PROVE Types'
    <2>1. MapType'
      BY <1>1 DEF StartCall, Types, MapType, WatchType, CallType, LoopInv, PoolPtr, Db
    <2>2. (live \in SUBSET Pools /\ rc = [p \in Pools |-> rc[p]])'
      BY <1>1 DEF StartCall, Types
    <2>3. CallType'
      BY <1>1 DEF StartCall, Types, MapType, CallType, PoolPtr, Labels, Db
    <2>4. WatchType'
      BY <1>1 DEF StartCall, Types, MapType, WatchType, LoopInv
    <2> QED
      BY <2>1, <2>2, <2>3, <2>4 DEF Types
  <1>2. ASSUME NEW t \in Threads, FindInst(t) PROVE Types'
    <2>1. MapType'
      BY <1>2 DEF FindInst, Found, AddRef, Types, MapType, WatchType, CallType, LoopInv,
         PoolPtr, Db
    <2>2. (live \in SUBSET Pools /\ rc = [p \in Pools |-> rc[p]])'
      BY <1>2 DEF FindInst, Found, AddRef, Types
    <2>3. CallType'
      BY <1>2 DEF FindInst, Found, AddRef, Types, MapType, CallType, PoolPtr, Labels, Db
    <2>4. WatchType'
      BY <1>2 DEF FindInst, Found, AddRef, Types, MapType, WatchType, LoopInv
    <2> QED
      BY <2>1, <2>2, <2>3, <2>4 DEF Types
  <1>3. ASSUME NEW t \in Threads, FindMeta(t) PROVE Types'
    <2>1. MapType'
      BY <1>3 DEF FindMeta, Types, MapType, WatchType, CallType, LoopInv, PoolPtr, Db
    <2>2. (live \in SUBSET Pools /\ rc = [p \in Pools |-> rc[p]])'
      BY <1>3 DEF FindMeta, Types
    <2>3. CallType'
      BY <1>3 DEF FindMeta, Types, MapType, CallType, PoolPtr, Labels, Db
    <2>4. WatchType'
      BY <1>3 DEF FindMeta, Types, MapType, WatchType, LoopInv
    <2> QED
      BY <2>1, <2>2, <2>3, <2>4 DEF Types
  <1>4. ASSUME NEW t \in Threads, LockInst(t) PROVE Types'
    <2>1. MapType'
      BY <1>4 DEF LockInst, Types, MapType, WatchType, CallType, LoopInv, PoolPtr, Db
    <2>2. (live \in SUBSET Pools /\ rc = [p \in Pools |-> rc[p]])'
      BY <1>4 DEF LockInst, Types
    <2>3. CallType'
      BY <1>4 DEF LockInst, Types, MapType, CallType, PoolPtr, Labels, Db
    <2>4. WatchType'
      BY <1>4 DEF LockInst, Types, MapType, WatchType, LoopInv
    <2> QED
      BY <2>1, <2>2, <2>3, <2>4 DEF Types
  <1>5. ASSUME NEW t \in Threads, CreateFinds(t) PROVE Types'
    <2>1. MapType'
      BY <1>5 DEF CreateFinds, Found, AddRef, UnlockInst, Types, MapType, WatchType,
         CallType, LoopInv, PoolPtr, Db
    <2>2. (live \in SUBSET Pools /\ rc = [p \in Pools |-> rc[p]])'
      BY <1>5 DEF CreateFinds, Found, AddRef, UnlockInst, Types
    <2>3. CallType'
      BY <1>5 DEF CreateFinds, Found, AddRef, UnlockInst, Types, MapType, CallType,
         PoolPtr, Labels, Db
    <2>4. WatchType'
      BY <1>5 DEF CreateFinds, Found, AddRef, UnlockInst, Types, MapType, WatchType,
         LoopInv
    <2> QED
      BY <2>1, <2>2, <2>3, <2>4 DEF Types
  <1>6. ASSUME NEW t \in Threads, CreatePool(t) PROVE Types'
    <2>1. MapType'
      BY <1>6 DEF CreatePool, UnlockInst, Types, MapType, WatchType, CallType, LoopInv,
         PoolPtr, Db
    <2>2. (live \in SUBSET Pools /\ rc = [p \in Pools |-> rc[p]])'
      BY <1>6 DEF CreatePool, UnlockInst, Types
    <2>3. CallType'
      BY <1>6 DEF CreatePool, UnlockInst, Types, MapType, CallType, PoolPtr, Labels, Db
    <2>4. WatchType'
      BY <1>6 DEF CreatePool, UnlockInst, Types, MapType, WatchType, LoopInv
    <2> QED
      BY <2>1, <2>2, <2>3, <2>4 DEF Types
  <1>7. ASSUME NEW t \in Threads, CreateThrows(t) PROVE Types'
    <2>1. MapType'
      BY <1>7 DEF CreateThrows, UnlockInst, Types, MapType, WatchType, CallType,
         LoopInv, PoolPtr, Db
    <2>2. (live \in SUBSET Pools /\ rc = [p \in Pools |-> rc[p]])'
      BY <1>7 DEF CreateThrows, UnlockInst, Types
    <2>3. CallType'
      BY <1>7 DEF CreateThrows, UnlockInst, Types, MapType, CallType, PoolPtr, Labels,
         Db
    <2>4. WatchType'
      BY <1>7 DEF CreateThrows, UnlockInst, Types, MapType, WatchType, LoopInv
    <2> QED
      BY <2>1, <2>2, <2>3, <2>4 DEF Types
  <1>8. ASSUME NEW t \in Threads, ReadOld(t) PROVE Types'
    <2>1. MapType'
      BY <1>8 DEF ReadOld, Types, MapType, WatchType, CallType, LoopInv, PoolPtr, Db
    <2>2. (live \in SUBSET Pools /\ rc = [p \in Pools |-> rc[p]])'
      BY <1>8 DEF ReadOld, Types
    <2>3. CallType'
      BY <1>8 DEF ReadOld, Types, MapType, CallType, PoolPtr, Labels, Db
    <2>4. WatchType'
      BY <1>8 DEF ReadOld, Types, MapType, WatchType, LoopInv
    <2> QED
      BY <2>1, <2>2, <2>3, <2>4 DEF Types
  <1>9. ASSUME NEW t \in Threads, WriteNew(t) PROVE Types'
    <2>1. MapType'
      BY <1>9 DEF WriteNew, Types, MapType, WatchType, CallType, LoopInv, PoolPtr, Db
    <2>2. (live \in SUBSET Pools /\ rc = [p \in Pools |-> rc[p]])'
      BY <1>9 DEF WriteNew, Types
    <2>3. CallType'
      BY <1>9 DEF WriteNew, Types, MapType, CallType, PoolPtr, Labels, Db
    <2>4. WatchType'
      BY <1>9 DEF WriteNew, Types, MapType, WatchType, LoopInv
    <2> QED
      BY <2>1, <2>2, <2>3, <2>4 DEF Types
  <1>10. ASSUME NEW t \in Threads, DropOld(t) PROVE Types'
    <2>1. MapType'
      BY <1>10 DEF DropOld, Release, Types, MapType, WatchType, CallType, LoopInv,
         PoolPtr, Db
    <2>2. (live \in SUBSET Pools /\ rc = [p \in Pools |-> rc[p]])'
      BY <1>10 DEF DropOld, Release, Types
    <2>3. CallType'
      BY <1>10 DEF DropOld, Release, Types, MapType, CallType, PoolPtr, Labels, Db
    <2>4. WatchType'
      BY <1>10 DEF DropOld, Release, Types, MapType, WatchType, LoopInv
    <2> QED
      BY <2>1, <2>2, <2>3, <2>4 DEF Types
  <1>11. ASSUME NEW t \in Threads, Run(t) PROVE Types'
    <2>1. MapType'
      BY <1>11 DEF Run, Types, MapType, WatchType, CallType, LoopInv, PoolPtr, Db
    <2>2. (live \in SUBSET Pools /\ rc = [p \in Pools |-> rc[p]])'
      BY <1>11 DEF Run, Types
    <2>3. CallType'
      BY <1>11 DEF Run, Types, MapType, CallType, PoolPtr, Labels, Db
    <2>4. WatchType'
      BY <1>11 DEF Run, Types, MapType, WatchType, LoopInv
    <2> QED
      BY <2>1, <2>2, <2>3, <2>4 DEF Types
  <1>12. ASSUME NEW t \in Threads, RunFails(t) PROVE Types'
    <2>1. MapType'
      BY <1>12 DEF RunFails, Types, MapType, WatchType, CallType, LoopInv, PoolPtr, Db
    <2>2. (live \in SUBSET Pools /\ rc = [p \in Pools |-> rc[p]])'
      BY <1>12 DEF RunFails, Types
    <2>3. CallType'
      BY <1>12 DEF RunFails, Types, MapType, CallType, PoolPtr, Labels, Db
    <2>4. WatchType'
      BY <1>12 DEF RunFails, Types, MapType, WatchType, LoopInv
    <2> QED
      BY <2>1, <2>2, <2>3, <2>4 DEF Types
  <1>13. ASSUME NEW t \in Threads, RunEnds(t) PROVE Types'
    <2>1. MapType'
      BY <1>13 DEF RunEnds, Types, MapType, WatchType, CallType, LoopInv, PoolPtr, Db
    <2>2. (live \in SUBSET Pools /\ rc = [p \in Pools |-> rc[p]])'
      BY <1>13 DEF RunEnds, Types
    <2>3. CallType'
      BY <1>13 DEF RunEnds, Types, MapType, CallType, PoolPtr, Labels, Db
    <2>4. WatchType'
      BY <1>13 DEF RunEnds, Types, MapType, WatchType, LoopInv
    <2> QED
      BY <2>1, <2>2, <2>3, <2>4 DEF Types
  <1>14. ASSUME NEW c \in Clients, ClientDies(c) PROVE Types'
    <2>1. MapType'
      BY <1>14 DEF ClientDies, Release, Types, MapType, WatchType, CallType, LoopInv,
         PoolPtr, Db
    <2>2. (live \in SUBSET Pools /\ rc = [p \in Pools |-> rc[p]])'
      BY <1>14 DEF ClientDies, Release, Types
    <2>3. CallType'
      BY <1>14 DEF ClientDies, Release, Types, MapType, CallType, PoolPtr, Labels, Db
    <2>4. WatchType'
      BY <1>14 DEF ClientDies, Release, Types, MapType, WatchType, LoopInv
    <2> QED
      BY <2>1, <2>2, <2>3, <2>4 DEF Types
  <1>15. ASSUME NEW db \in Dbs, NEW servers \in SUBSET Servers, AddMeta(db, servers) PROVE Types'
    <2>1. MapType'
      BY <1>15 DEF AddMeta, Types, MapType, WatchType, CallType, LoopInv, PoolPtr, Db
    <2>2. (live \in SUBSET Pools /\ rc = [p \in Pools |-> rc[p]])'
      BY <1>15 DEF AddMeta, Types
    <2>3. CallType'
      BY <1>15 DEF AddMeta, Types, MapType, CallType, PoolPtr, Labels, Db
    <2>4. WatchType'
      BY <1>15 DEF AddMeta, Types, MapType, WatchType, LoopInv
    <2> QED
      BY <2>1, <2>2, <2>3, <2>4 DEF Types
  <1>16. ASSUME NEW what \in {"add", "remove"}, NEW server \in Servers, OnServer(what, server) PROVE Types'
    <2>1. MapType'
      BY <1>16 DEF OnServer, Types, MapType, WatchType, CallType, LoopInv, PoolPtr, Db
    <2>2. (live \in SUBSET Pools /\ rc = [p \in Pools |-> rc[p]])'
      BY <1>16 DEF OnServer, Types
    <2>3. CallType'
      BY <1>16 DEF OnServer, Types, MapType, CallType, PoolPtr, Labels, Db
    <2>4. WatchType'
      BY <1>16 DEF OnServer, Types, MapType, WatchType, LoopInv
    <2> QED
      BY <2>1, <2>2, <2>3, <2>4 DEF Types
  <1>17. ASSUME NEW db \in Dbs, UpdateMeta(db) PROVE Types'
    <2>1. MapType'
      BY <1>17, ZenonT(30) DEF UpdateMeta, Types, MapType, WatchType, CallType, LoopInv, PoolPtr, Db
    <2>2. (live \in SUBSET Pools /\ rc = [p \in Pools |-> rc[p]])'
      BY <1>17 DEF UpdateMeta, Types
    <2>3. CallType'
      BY <1>17 DEF UpdateMeta, Types, MapType, CallType, PoolPtr, Labels, Db
    <2>4. WatchType'
      BY <1>17 DEF UpdateMeta, Types, MapType, WatchType, LoopInv
    <2> QED
      BY <2>1, <2>2, <2>3, <2>4 DEF Types
  <1>18. ASSUME NEW db \in Dbs, DeleteInst(db) PROVE Types'
    <2>1. MapType'
      BY <1>18 DEF DeleteInst, Release, Types, MapType, WatchType, CallType, LoopInv,
         PoolPtr, Db
    <2>2. (live \in SUBSET Pools /\ rc = [p \in Pools |-> rc[p]])'
      BY <1>18 DEF DeleteInst, Release, Types
    <2>3. CallType'
      BY <1>18 DEF DeleteInst, Release, Types, MapType, CallType, PoolPtr, Labels, Db
    <2>4. WatchType'
      BY <1>18 DEF DeleteInst, Release, Types, MapType, WatchType, LoopInv
    <2> QED
      BY <2>1, <2>2, <2>3, <2>4 DEF Types
  <1>19. CASE ServerDone
    <2>1. MapType'
      BY <1>19 DEF ServerDone, Types, MapType, WatchType, CallType, LoopInv, PoolPtr, Db
    <2>2. (live \in SUBSET Pools /\ rc = [p \in Pools |-> rc[p]])'
      BY <1>19 DEF ServerDone, Types
    <2>3. CallType'
      BY <1>19 DEF ServerDone, Types, MapType, CallType, PoolPtr, Labels, Db
    <2>4. WatchType'
      BY <1>19 DEF ServerDone, Types, MapType, WatchType, LoopInv
    <2> QED
      BY <2>1, <2>2, <2>3, <2>4 DEF Types
  <1>20. CASE ConfigDies
    <2>1. MapType'
      BY <1>20 DEF ConfigDies, Types, MapType, WatchType, CallType, LoopInv, PoolPtr, Db
    <2>2. (live \in SUBSET Pools /\ rc = [p \in Pools |-> rc[p]])'
      BY <1>20 DEF ConfigDies, Types
    <2>3. CallType'
      BY <1>20 DEF ConfigDies, Types, MapType, CallType, PoolPtr, Labels, Db
    <2>4. WatchType'
      BY <1>20 DEF ConfigDies, Types, MapType, WatchType, LoopInv
    <2> QED
      BY <2>1, <2>2, <2>3, <2>4 DEF Types
  <1>21. CASE UNCHANGED vars
    BY <1>21 DEF vars, Types, MapType, WatchType, CallType, LoopInv, PoolPtr, Db, Labels
  <1> QED
    BY <1>1, <1>2, <1>3, <1>4, <1>5, <1>6, <1>7, <1>8, <1>9, <1>10, <1>11, <1>12, <1>13,
       <1>14, <1>15, <1>16, <1>17, <1>18, <1>19, <1>20, <1>21 DEF Next, CallStep,
       WatchStep, Ended

LEMMA MutexStep ==
  ASSUME Types, MutexesHeld, [Next]_vars
  PROVE  MutexesHeld'
PROOF
  <1> USE RegistryAssumption DEF mutexVars, countVars, callVars, watchVars, Goto
  <1>1. ASSUME NEW t \in Threads, StartCall(t) PROVE MutexesHeld'
    BY <1>1 DEF StartCall, MutexesHeld, Types, CallType, WatchType, Labels
  <1>2. ASSUME NEW t \in Threads, FindInst(t) PROVE MutexesHeld'
    BY <1>2 DEF FindInst, Found, AddRef, MutexesHeld, Types, CallType, WatchType, Labels
  <1>3. ASSUME NEW t \in Threads, FindMeta(t) PROVE MutexesHeld'
    BY <1>3 DEF FindMeta, MutexesHeld, Types, CallType, WatchType, Labels
  <1>4. ASSUME NEW t \in Threads, LockInst(t) PROVE MutexesHeld'
    BY <1>4 DEF LockInst, MutexesHeld, Types, CallType, WatchType, Labels
  <1>5. ASSUME NEW t \in Threads, CreateFinds(t) PROVE MutexesHeld'
    BY <1>5 DEF CreateFinds, Found, AddRef, UnlockInst, MutexesHeld, Types, CallType,
       WatchType, Labels
  <1>6. ASSUME NEW t \in Threads, CreatePool(t) PROVE MutexesHeld'
    BY <1>6 DEF CreatePool, UnlockInst, MutexesHeld, Types, CallType, WatchType, Labels
  <1>7. ASSUME NEW t \in Threads, CreateThrows(t) PROVE MutexesHeld'
    BY <1>7 DEF CreateThrows, UnlockInst, MutexesHeld, Types, CallType, WatchType,
       Labels
  <1>8. ASSUME NEW t \in Threads, ReadOld(t) PROVE MutexesHeld'
    BY <1>8 DEF ReadOld, MutexesHeld, Types, CallType, WatchType, Labels
  <1>9. ASSUME NEW t \in Threads, WriteNew(t) PROVE MutexesHeld'
    BY <1>9 DEF WriteNew, MutexesHeld, Types, CallType, WatchType, Labels
  <1>10. ASSUME NEW t \in Threads, DropOld(t) PROVE MutexesHeld'
    BY <1>10 DEF DropOld, Release, MutexesHeld, Types, CallType, WatchType, Labels
  <1>11. ASSUME NEW t \in Threads, Run(t) PROVE MutexesHeld'
    BY <1>11 DEF Run, MutexesHeld, Types, CallType, WatchType, Labels
  <1>12. ASSUME NEW t \in Threads, RunFails(t) PROVE MutexesHeld'
    BY <1>12 DEF RunFails, MutexesHeld, Types, CallType, WatchType, Labels
  <1>13. ASSUME NEW t \in Threads, RunEnds(t) PROVE MutexesHeld'
    BY <1>13 DEF RunEnds, MutexesHeld, Types, CallType, WatchType, Labels
  <1>14. ASSUME NEW c \in Clients, ClientDies(c) PROVE MutexesHeld'
    BY <1>14 DEF ClientDies, Release, MutexesHeld, Types, CallType, WatchType, Labels
  <1>15. ASSUME NEW db \in Dbs, NEW servers \in SUBSET Servers, AddMeta(db, servers) PROVE MutexesHeld'
    BY <1>15 DEF AddMeta, MutexesHeld, Types, CallType, WatchType, Labels
  <1>16. ASSUME NEW what \in {"add", "remove"}, NEW server \in Servers, OnServer(what, server) PROVE MutexesHeld'
    BY <1>16 DEF OnServer, MutexesHeld, Types, CallType, WatchType, Labels
  <1>17. ASSUME NEW db \in Dbs, UpdateMeta(db) PROVE MutexesHeld'
    BY <1>17 DEF UpdateMeta, MutexesHeld, Types, CallType, WatchType, Labels
  <1>18. ASSUME NEW db \in Dbs, DeleteInst(db) PROVE MutexesHeld'
    BY <1>18 DEF DeleteInst, Release, MutexesHeld, Types, CallType, WatchType, Labels
  <1>19. CASE ServerDone
    BY <1>19 DEF ServerDone, MutexesHeld, Types, CallType, WatchType, Labels
  <1>20. CASE ConfigDies
    BY <1>20 DEF ConfigDies, MutexesHeld, Types, CallType, WatchType, Labels
  <1>21. CASE UNCHANGED vars
    BY <1>21 DEF vars, MutexesHeld, Types, CallType, WatchType, Labels
  <1> QED
    BY <1>1, <1>2, <1>3, <1>4, <1>5, <1>6, <1>7, <1>8, <1>9, <1>10, <1>11, <1>12, <1>13,
       <1>14, <1>15, <1>16, <1>17, <1>18, <1>19, <1>20, <1>21 DEF Next, CallStep,
       WatchStep, Ended

LEMMA CallInvStep ==
  ASSUME OwnClients, Types, CallInv, [Next]_vars
  PROVE  CallInv'
PROOF
  <1> USE RegistryAssumption DEF mutexVars, countVars, callVars, watchVars, Goto
  <1>1. ASSUME NEW t \in Threads, StartCall(t) PROVE CallInv'
    BY <1>1 DEF StartCall, OwnClients, CallInv, Types, CallType, Labels
  <1>2. ASSUME NEW t \in Threads, FindInst(t) PROVE CallInv'
    BY <1>2 DEF FindInst, Found, AddRef, OwnClients, CallInv, Types, CallType, Labels
  <1>3. ASSUME NEW t \in Threads, FindMeta(t) PROVE CallInv'
    BY <1>3 DEF FindMeta, OwnClients, CallInv, Types, CallType, Labels
  <1>4. ASSUME NEW t \in Threads, LockInst(t) PROVE CallInv'
    BY <1>4 DEF LockInst, OwnClients, CallInv, Types, CallType, Labels
  <1>5. ASSUME NEW t \in Threads, CreateFinds(t) PROVE CallInv'
    BY <1>5 DEF CreateFinds, Found, AddRef, UnlockInst, OwnClients, CallInv, Types,
       CallType, Labels
  <1>6. ASSUME NEW t \in Threads, CreatePool(t) PROVE CallInv'
    BY <1>6 DEF CreatePool, UnlockInst, OwnClients, CallInv, Types, CallType, Labels
  <1>7. ASSUME NEW t \in Threads, CreateThrows(t) PROVE CallInv'
    BY <1>7 DEF CreateThrows, UnlockInst, OwnClients, CallInv, Types, CallType, Labels
  <1>8. ASSUME NEW t \in Threads, ReadOld(t) PROVE CallInv'
    BY <1>8 DEF ReadOld, OwnClients, CallInv, Types, CallType, Labels
  <1>9. ASSUME NEW t \in Threads, WriteNew(t) PROVE CallInv'
    BY <1>9 DEF WriteNew, OwnClients, CallInv, Types, CallType, Labels
  <1>10. ASSUME NEW t \in Threads, DropOld(t) PROVE CallInv'
    BY <1>10 DEF DropOld, Release, OwnClients, CallInv, Types, CallType, Labels
  <1>11. ASSUME NEW t \in Threads, Run(t) PROVE CallInv'
    BY <1>11 DEF Run, OwnClients, CallInv, Types, CallType, Labels
  <1>12. ASSUME NEW t \in Threads, RunFails(t) PROVE CallInv'
    BY <1>12 DEF RunFails, OwnClients, CallInv, Types, CallType, Labels
  <1>13. ASSUME NEW t \in Threads, RunEnds(t) PROVE CallInv'
    BY <1>13 DEF RunEnds, OwnClients, CallInv, Types, CallType, Labels
  <1>14. ASSUME NEW c \in Clients, ClientDies(c) PROVE CallInv'
    BY <1>14 DEF ClientDies, Release, OwnClients, CallInv, Types, CallType, Labels
  <1>15. ASSUME NEW db \in Dbs, NEW servers \in SUBSET Servers, AddMeta(db, servers) PROVE CallInv'
    BY <1>15 DEF AddMeta, OwnClients, CallInv, Types, CallType, Labels
  <1>16. ASSUME NEW what \in {"add", "remove"}, NEW server \in Servers, OnServer(what, server) PROVE CallInv'
    BY <1>16 DEF OnServer, OwnClients, CallInv, Types, CallType, Labels
  <1>17. ASSUME NEW db \in Dbs, UpdateMeta(db) PROVE CallInv'
    BY <1>17 DEF UpdateMeta, OwnClients, CallInv, Types, CallType, Labels
  <1>18. ASSUME NEW db \in Dbs, DeleteInst(db) PROVE CallInv'
    BY <1>18 DEF DeleteInst, Release, OwnClients, CallInv, Types, CallType, Labels
  <1>19. CASE ServerDone
    BY <1>19 DEF ServerDone, OwnClients, CallInv, Types, CallType, Labels
  <1>20. CASE ConfigDies
    BY <1>20 DEF ConfigDies, OwnClients, CallInv, Types, CallType, Labels
  <1>21. CASE UNCHANGED vars
    BY <1>21 DEF vars, OwnClients, CallInv, Types, CallType, Labels
  <1> QED
    BY <1>1, <1>2, <1>3, <1>4, <1>5, <1>6, <1>7, <1>8, <1>9, <1>10, <1>11, <1>12, <1>13,
       <1>14, <1>15, <1>16, <1>17, <1>18, <1>19, <1>20, <1>21 DEF Next, CallStep,
       WatchStep, Ended

LEMMA LoopStep ==
  ASSUME Types, LoopInv, [Next]_vars
  PROVE  LoopInv'
PROOF
  <1> USE RegistryAssumption DEF mutexVars, countVars, callVars, watchVars, Goto
  <1>1. ASSUME NEW t \in Threads, StartCall(t) PROVE LoopInv'
    BY <1>1 DEF StartCall, LoopInv, Types, WatchType
  <1>2. ASSUME NEW t \in Threads, FindInst(t) PROVE LoopInv'
    BY <1>2 DEF FindInst, Found, AddRef, LoopInv, Types, WatchType
  <1>3. ASSUME NEW t \in Threads, FindMeta(t) PROVE LoopInv'
    BY <1>3 DEF FindMeta, LoopInv, Types, WatchType
  <1>4. ASSUME NEW t \in Threads, LockInst(t) PROVE LoopInv'
    BY <1>4 DEF LockInst, LoopInv, Types, WatchType
  <1>5. ASSUME NEW t \in Threads, CreateFinds(t) PROVE LoopInv'
    BY <1>5 DEF CreateFinds, Found, AddRef, UnlockInst, LoopInv, Types, WatchType
  <1>6. ASSUME NEW t \in Threads, CreatePool(t) PROVE LoopInv'
    BY <1>6 DEF CreatePool, UnlockInst, LoopInv, Types, WatchType
  <1>7. ASSUME NEW t \in Threads, CreateThrows(t) PROVE LoopInv'
    BY <1>7 DEF CreateThrows, UnlockInst, LoopInv, Types, WatchType
  <1>8. ASSUME NEW t \in Threads, ReadOld(t) PROVE LoopInv'
    BY <1>8 DEF ReadOld, LoopInv, Types, WatchType
  <1>9. ASSUME NEW t \in Threads, WriteNew(t) PROVE LoopInv'
    BY <1>9 DEF WriteNew, LoopInv, Types, WatchType
  <1>10. ASSUME NEW t \in Threads, DropOld(t) PROVE LoopInv'
    BY <1>10 DEF DropOld, Release, LoopInv, Types, WatchType
  <1>11. ASSUME NEW t \in Threads, Run(t) PROVE LoopInv'
    BY <1>11 DEF Run, LoopInv, Types, WatchType
  <1>12. ASSUME NEW t \in Threads, RunFails(t) PROVE LoopInv'
    BY <1>12 DEF RunFails, LoopInv, Types, WatchType
  <1>13. ASSUME NEW t \in Threads, RunEnds(t) PROVE LoopInv'
    BY <1>13 DEF RunEnds, LoopInv, Types, WatchType
  <1>14. ASSUME NEW c \in Clients, ClientDies(c) PROVE LoopInv'
    BY <1>14 DEF ClientDies, Release, LoopInv, Types, WatchType
  <1>15. ASSUME NEW db \in Dbs, NEW servers \in SUBSET Servers, AddMeta(db, servers) PROVE LoopInv'
    BY <1>15 DEF AddMeta, LoopInv, Types, WatchType
  <1>16. ASSUME NEW what \in {"add", "remove"}, NEW server \in Servers, OnServer(what, server) PROVE LoopInv'
    BY <1>16 DEF OnServer, LoopInv, Types, WatchType
  <1>17. ASSUME NEW db \in Dbs, UpdateMeta(db) PROVE LoopInv'
    BY <1>17 DEF UpdateMeta, LoopInv, Types, WatchType
  <1>18. ASSUME NEW db \in Dbs, DeleteInst(db) PROVE LoopInv'
    BY <1>18 DEF DeleteInst, Release, LoopInv, Types, WatchType
  <1>19. CASE ServerDone
    BY <1>19 DEF ServerDone, LoopInv, Types, WatchType
  <1>20. CASE ConfigDies
    BY <1>20 DEF ConfigDies, LoopInv, Types, WatchType
  <1>21. CASE UNCHANGED vars
    BY <1>21 DEF vars, LoopInv, Types, WatchType
  <1> QED
    BY <1>1, <1>2, <1>3, <1>4, <1>5, <1>6, <1>7, <1>8, <1>9, <1>10, <1>11, <1>12, <1>13,
       <1>14, <1>15, <1>16, <1>17, <1>18, <1>19, <1>20, <1>21 DEF Next, CallStep,
       WatchStep, Ended

-----------------------------------------------------------------------------
(* The reference counts.                                                    *)

\* The parts of Refs.
InMap(p) == {db \in Dbs : instMap[db] = p}
InClients(p) == {c \in Clients : client[c] = p}
InTemps(p) == {t \in Threads : temp[t] = p}
InDrops(p) == {t \in Threads : pc[t] = "drop" /\ old[t] = p}

LEMMA PartsOfRefs ==
  ASSUME NEW p
  PROVE  /\ Refs(p) = Cardinality(InMap(p)) + Cardinality(InClients(p))
                      + Cardinality(InTemps(p)) + Cardinality(InDrops(p))
         /\ Cardinality(InMap(p)) \in Nat /\ Cardinality(InClients(p)) \in Nat
         /\ Cardinality(InTemps(p)) \in Nat /\ Cardinality(InDrops(p)) \in Nat
PROOF
  <1>1. /\ InMap(p) \in SUBSET Dbs /\ InClients(p) \in SUBSET Clients
        /\ InTemps(p) \in SUBSET Threads /\ InDrops(p) \in SUBSET Threads
    BY DEF InMap, InClients, InTemps, InDrops
  <1>2. /\ Cardinality(InMap(p)) \in Nat /\ Cardinality(InClients(p)) \in Nat
        /\ Cardinality(InTemps(p)) \in Nat /\ Cardinality(InDrops(p)) \in Nat
    BY <1>1, RegistryAssumption, NoneCounted
  <1> QED
    BY <1>2 DEF Refs, InMap, InClients, InTemps, InDrops

\* The same after a step.
LEMMA PartsAfter ==
  ASSUME NEW p
  PROVE  /\ Refs(p)' = Cardinality(InMap(p)') + Cardinality(InClients(p)')
                       + Cardinality(InTemps(p)') + Cardinality(InDrops(p)')
         /\ Cardinality(InMap(p)') \in Nat /\ Cardinality(InClients(p)') \in Nat
         /\ Cardinality(InTemps(p)') \in Nat /\ Cardinality(InDrops(p)') \in Nat
PROOF
  <1>1. /\ InMap(p)' \in SUBSET Dbs /\ InClients(p)' \in SUBSET Clients
        /\ InTemps(p)' \in SUBSET Threads /\ InDrops(p)' \in SUBSET Threads
    BY DEF InMap, InClients, InTemps, InDrops
  <1>2. /\ Cardinality(InMap(p)') \in Nat /\ Cardinality(InClients(p)') \in Nat
        /\ Cardinality(InTemps(p)') \in Nat /\ Cardinality(InDrops(p)') \in Nat
    BY <1>1, RegistryAssumption, NoneCounted
  <1> QED
    BY <1>2 DEF Refs, InMap, InClients, InTemps, InDrops

\* What one access changes in each part.
LEMMA MapChange ==
  ASSUME NEW p, NEW db, db \in Dbs, \A e \in Dbs : e # db => instMap'[e] = instMap[e]
  PROVE  Cardinality(InMap(p)')
           = Cardinality(InMap(p)) + Bit(instMap'[db] = p) - Bit(instMap[db] = p)
PROOF
  <1>1. /\ InMap(p) \in SUBSET Dbs /\ InMap(p)' \in SUBSET Dbs
        /\ \A e \in Dbs : e # db => (e \in InMap(p) <=> e \in InMap(p)')
        /\ db \in InMap(p) <=> instMap[db] = p
        /\ db \in InMap(p)' <=> instMap'[db] = p
    BY DEF InMap
  <1>2. Cardinality(InMap(p)')
          = Cardinality(InMap(p)) + Bit(db \in InMap(p)') - Bit(db \in InMap(p))
    BY <1>1, RegistryAssumption, CountChange
  <1> QED
    BY <1>1, <1>2 DEF Bit

LEMMA ClientChange ==
  ASSUME NEW p, NEW c, c \in Clients, \A e \in Clients : e # c => client'[e] = client[e]
  PROVE  Cardinality(InClients(p)')
           = Cardinality(InClients(p)) + Bit(client'[c] = p) - Bit(client[c] = p)
PROOF
  <1>1. /\ InClients(p) \in SUBSET Clients /\ InClients(p)' \in SUBSET Clients
        /\ \A e \in Clients : e # c => (e \in InClients(p) <=> e \in InClients(p)')
        /\ c \in InClients(p) <=> client[c] = p
        /\ c \in InClients(p)' <=> client'[c] = p
    BY DEF InClients
  <1>2. Cardinality(InClients(p)')
          = Cardinality(InClients(p)) + Bit(c \in InClients(p)') - Bit(c \in InClients(p))
    BY <1>1, RegistryAssumption, CountChange
  <1> QED
    BY <1>1, <1>2 DEF Bit

LEMMA TempChange ==
  ASSUME NEW p, NEW t, t \in Threads, \A u \in Threads : u # t => temp'[u] = temp[u]
  PROVE  Cardinality(InTemps(p)')
           = Cardinality(InTemps(p)) + Bit(temp'[t] = p) - Bit(temp[t] = p)
PROOF
  <1>1. /\ InTemps(p) \in SUBSET Threads /\ InTemps(p)' \in SUBSET Threads
        /\ \A u \in Threads : u # t => (u \in InTemps(p) <=> u \in InTemps(p)')
        /\ t \in InTemps(p) <=> temp[t] = p
        /\ t \in InTemps(p)' <=> temp'[t] = p
    BY DEF InTemps
  <1>2. Cardinality(InTemps(p)')
          = Cardinality(InTemps(p)) + Bit(t \in InTemps(p)') - Bit(t \in InTemps(p))
    BY <1>1, RegistryAssumption, CountChange
  <1> QED
    BY <1>1, <1>2 DEF Bit

LEMMA DropChange ==
  ASSUME NEW p, NEW t, t \in Threads,
         \A u \in Threads : u # t => old'[u] = old[u] /\ (pc'[u] = "drop" <=> pc[u] = "drop")
  PROVE  Cardinality(InDrops(p)')
           = Cardinality(InDrops(p)) + Bit(pc'[t] = "drop" /\ old'[t] = p)
             - Bit(pc[t] = "drop" /\ old[t] = p)
PROOF
  <1>1. /\ InDrops(p) \in SUBSET Threads /\ InDrops(p)' \in SUBSET Threads
        /\ \A u \in Threads : u # t => (u \in InDrops(p) <=> u \in InDrops(p)')
        /\ t \in InDrops(p) <=> pc[t] = "drop" /\ old[t] = p
        /\ t \in InDrops(p)' <=> pc'[t] = "drop" /\ old'[t] = p
    BY DEF InDrops
  <1>2. Cardinality(InDrops(p)')
          = Cardinality(InDrops(p)) + Bit(t \in InDrops(p)') - Bit(t \in InDrops(p))
    BY <1>1, RegistryAssumption, CountChange
  <1> QED
    BY <1>1, <1>2 DEF Bit

\* A pool that something points to is alive.
LEMMA Referenced ==
  ASSUME RefsExact, NEW p \in Pools,
         \/ \E db \in Dbs : instMap[db] = p
         \/ \E c \in Clients : client[c] = p
         \/ \E t \in Threads : temp[t] = p \/ (pc[t] = "drop" /\ old[t] = p)
  PROVE  p \in live /\ rc[p] = Refs(p) /\ rc[p] > 0
PROOF
  <1>1. InMap(p) # {} \/ InClients(p) # {} \/ InTemps(p) # {} \/ InDrops(p) # {}
    BY DEF InMap, InClients, InTemps, InDrops
  <1>2. /\ InMap(p) \in SUBSET Dbs /\ InClients(p) \in SUBSET Clients
        /\ InTemps(p) \in SUBSET Threads /\ InDrops(p) \in SUBSET Threads
    BY DEF InMap, InClients, InTemps, InDrops
  <1>3. \/ Cardinality(InMap(p)) # 0 \/ Cardinality(InClients(p)) # 0
        \/ Cardinality(InTemps(p)) # 0 \/ Cardinality(InDrops(p)) # 0
    BY <1>1, <1>2, RegistryAssumption, NoneCounted
  <1>4. Refs(p) # 0
    BY <1>3, PartsOfRefs
  <1> QED
    BY <1>4 DEF RefsExact

\* A step that moves no pointer.
LEMMA RefsFrame ==
  ASSUME RefsExact, UNCHANGED <<instMap, client, temp, live, rc>>,
         \A u \in Threads : /\ pc'[u] = "drop" <=> pc[u] = "drop"
                            /\ pc[u] = "drop" => old'[u] = old[u]
  PROVE  RefsExact'
PROOF
  <1>1. ASSUME NEW p PROVE InDrops(p)' = InDrops(p)
    BY <1>1 DEF InDrops
  <1>2. ASSUME NEW p PROVE Refs(p)' = Refs(p)
    BY <1>1, PartsOfRefs, PartsAfter DEF InMap, InClients, InTemps
  <1> QED
    BY <1>2 DEF RefsExact

\* The pool that is looked up is referenced once more.
LEMMA RefsFound ==
  ASSUME Types, CallInv, RefsExact, NEW t \in Threads, pc[t] \in {"find", "creating"},
         Found(t), UNCHANGED <<instMap, client, old>>
  PROVE  RefsExact'
PROOF
  <1> DEFINE q == instMap[Db(t)]
  <1>1. q \in Pools /\ Db(t) \in Dbs
    BY RegistryAssumption DEF Types, MapType, PoolPtr, Found, Db
  <1>2. q \in live /\ rc[q] = Refs(q) /\ rc[q] > 0
    BY <1>1, Referenced
  <1>3. /\ rc' = [rc EXCEPT ![q] = @ + 1] /\ live' = live
        /\ temp' = [temp EXCEPT ![t] = q] /\ pc' = [pc EXCEPT ![t] = "assign"]
    BY DEF Found, AddRef, Goto
  <1>4. temp[t] = NoPool
    BY DEF CallInv
  <1> HIDE DEF q
  <1>5. ASSUME NEW p \in Pools PROVE Refs(p)' = Refs(p) + Bit(p = q)
    <2>1. InMap(p)' = InMap(p) /\ InClients(p)' = InClients(p)
      BY DEF InMap, InClients
    <2>2. InDrops(p)' = InDrops(p)
      BY <1>3 DEF InDrops, Types, CallType
    <2>3. Cardinality(InTemps(p)')
            = Cardinality(InTemps(p)) + Bit(temp'[t] = p) - Bit(temp[t] = p)
      BY <1>3, TempChange DEF Types, CallType
    <2>4. Bit(temp'[t] = p) = Bit(p = q) /\ Bit(temp[t] = p) = 0
      BY <1>3, <1>4, RegistryAssumption DEF Bit, Types, CallType
    <2> QED
      BY <2>1, <2>2, <2>3, <2>4, PartsOfRefs, PartsAfter DEF Bit
  <1> SUFFICES ASSUME NEW p \in Pools
               PROVE  IF p \in live' THEN rc'[p] = Refs(p)' /\ rc'[p] > 0
                                     ELSE rc'[p] = 0 /\ Refs(p)' = 0
    BY DEF RefsExact
  <1>6. IF p \in live THEN rc[p] = Refs(p) /\ rc[p] > 0 ELSE rc[p] = 0 /\ Refs(p) = 0
    BY DEF RefsExact
  <1>7. Refs(p) \in Nat
    BY PartsOfRefs
  <1>8. rc'[p] = rc[p] + Bit(p = q)
    BY <1>1, <1>2, <1>3, <1>6, <1>7 DEF Bit, Types
  <1> QED
    BY <1>2, <1>3, <1>5, <1>6, <1>7, <1>8 DEF Bit

LEMMA RefsCreate ==
  ASSUME Types, CallInv, RefsExact, NEW t \in Threads, CreatePool(t)
  PROVE  RefsExact'
PROOF
  <1>1. PICK q \in Pools \ live :
          /\ live' = live \cup {q} /\ rc' = [rc EXCEPT ![q] = 2]
          /\ instMap' = [instMap EXCEPT ![Db(t)] = q]
          /\ temp' = [temp EXCEPT ![t] = q]
    BY DEF CreatePool
  <1>2. Db(t) \in Dbs /\ instMap[Db(t)] = NoPool /\ temp[t] = NoPool
    BY RegistryAssumption DEF CreatePool, CallInv, Db
  <1>3. ASSUME NEW p \in Pools PROVE Refs(p)' = Refs(p) + 2 * Bit(p = q)
    <2>1. InClients(p)' = InClients(p) /\ InDrops(p)' = InDrops(p)
      BY DEF CreatePool, Goto, InClients, InDrops, Types, CallType
    <2>2. Cardinality(InTemps(p)')
            = Cardinality(InTemps(p)) + Bit(temp'[t] = p) - Bit(temp[t] = p)
      BY <1>1, TempChange DEF Types, CallType
    <2>3. Cardinality(InMap(p)')
            = Cardinality(InMap(p)) + Bit(instMap'[Db(t)] = p) - Bit(instMap[Db(t)] = p)
      BY <1>1, <1>2, MapChange DEF Types, MapType
    <2>4. /\ Bit(temp'[t] = p) = Bit(p = q) /\ Bit(temp[t] = p) = 0
          /\ Bit(instMap'[Db(t)] = p) = Bit(p = q) /\ Bit(instMap[Db(t)] = p) = 0
      BY <1>1, <1>2, RegistryAssumption DEF Bit, Types, CallType, MapType
    <2> QED
      BY <2>1, <2>2, <2>3, <2>4, PartsOfRefs, PartsAfter DEF Bit
  <1>4. Refs(q) = 0
    BY <1>1 DEF RefsExact
  <1> SUFFICES ASSUME NEW p \in Pools
               PROVE  IF p \in live' THEN rc'[p] = Refs(p)' /\ rc'[p] > 0
                                     ELSE rc'[p] = 0 /\ Refs(p)' = 0
    BY DEF RefsExact
  <1>5. IF p \in live THEN rc[p] = Refs(p) /\ rc[p] > 0 ELSE rc[p] = 0 /\ Refs(p) = 0
    BY DEF RefsExact
  <1>6. Refs(p) \in Nat /\ Refs(p)' = Refs(p) + 2 * Bit(p = q)
    BY <1>3, PartsOfRefs
  <1>7. CASE p = q
    BY <1>1, <1>4, <1>6, <1>7 DEF Bit, Types
  <1>8. CASE p # q
    BY <1>1, <1>5, <1>6, <1>8 DEF Bit, Types
  <1> QED
    BY <1>7, <1>8

\* operator= swaps: what the Client pointed to is dropped next.
LEMMA RefsSwap ==
  ASSUME Types, CallInv, RefsExact, NEW t \in Threads, WriteNew(t)
  PROVE  RefsExact'
PROOF
  <1> DEFINE c == ClientOf[t]
  <1>1. c \in Clients /\ pc[t] = "swap" /\ old[t] = client[c]
    BY RegistryAssumption DEF WriteNew, CallInv
  <1>2. /\ client' = [client EXCEPT ![c] = temp[t]] /\ temp' = [temp EXCEPT ![t] = NoPool]
        /\ pc' = [pc EXCEPT ![t] = "drop"] /\ UNCHANGED <<instMap, old, live, rc>>
    BY DEF WriteNew, Goto, countVars
  <1> HIDE DEF c
  <1>3. ASSUME NEW p \in Pools PROVE Refs(p)' = Refs(p)
    <2>1. InMap(p)' = InMap(p)
      BY <1>2 DEF InMap
    <2>2. Cardinality(InTemps(p)')
            = Cardinality(InTemps(p)) + Bit(temp'[t] = p) - Bit(temp[t] = p)
      BY <1>2, TempChange DEF Types, CallType
    <2>3. Cardinality(InClients(p)')
            = Cardinality(InClients(p)) + Bit(client'[c] = p) - Bit(client[c] = p)
      BY <1>1, <1>2, ClientChange DEF Types, CallType
    <2>4. Cardinality(InDrops(p)')
            = Cardinality(InDrops(p)) + Bit(pc'[t] = "drop" /\ old'[t] = p)
              - Bit(pc[t] = "drop" /\ old[t] = p)
      BY <1>2, DropChange DEF Types, CallType
    <2>5. /\ Bit(temp'[t] = p) = 0 /\ Bit(client'[c] = p) = Bit(temp[t] = p)
          /\ Bit(pc'[t] = "drop" /\ old'[t] = p) = Bit(client[c] = p)
          /\ Bit(pc[t] = "drop" /\ old[t] = p) = 0
      BY <1>1, <1>2, RegistryAssumption DEF Bit, Types, CallType
    <2>6. Bit(temp[t] = p) \in Nat /\ Bit(client[c] = p) \in Nat
      BY DEF Bit
    <2> QED
      BY <2>1, <2>2, <2>3, <2>4, <2>5, <2>6, PartsOfRefs, PartsAfter
  <1> QED
    BY <1>2, <1>3 DEF RefsExact

\* A pointer is destroyed, and the pool with the last one.
LEMMA RefsRelease ==
  ASSUME Types, RefsExact, NEW q \in PoolPtr, Release(q),
         \A p \in Pools : Refs(p)' = Refs(p) - Bit(p = q)
  PROVE  RefsExact'
PROOF
  <1> SUFFICES ASSUME NEW p \in Pools
               PROVE  IF p \in live' THEN rc'[p] = Refs(p)' /\ rc'[p] > 0
                                     ELSE rc'[p] = 0 /\ Refs(p)' = 0
    BY DEF RefsExact
  <1>1. Refs(p) \in Nat /\ Refs(p)' \in Nat /\ Refs(p)' = Refs(p) - Bit(p = q)
    BY PartsOfRefs, PartsAfter
  <1>2. IF p \in live THEN rc[p] = Refs(p) /\ rc[p] > 0 ELSE rc[p] = 0 /\ Refs(p) = 0
    BY DEF RefsExact
  <1>3. CASE p # q
    BY <1>1, <1>2, <1>3 DEF Release, countVars, Bit, Types
  <1>4. CASE p = q
    <2>1. q # NoPool /\ Bit(p = q) = 1
      BY <1>4, RegistryAssumption DEF Bit
    <2>2. rc'[p] = rc[p] - 1 /\ (p \in live' <=> p \in live /\ rc[p] # 1)
      BY <1>4, <2>1 DEF Release, Types
    <2>3. p \in live
      BY <1>1, <1>2, <2>1
    <2> QED
      BY <1>1, <1>2, <2>1, <2>2, <2>3
  <1> QED
    BY <1>3, <1>4

LEMMA RefsDrop ==
  ASSUME Types, RefsExact, NEW t \in Threads, DropOld(t)
  PROVE  RefsExact'
PROOF
  <1> DEFINE q == old[t]
  <1>1. q \in PoolPtr /\ Release(q)
    BY DEF DropOld, Types, CallType
  <1>2. /\ pc[t] = "drop" /\ pc' = [pc EXCEPT ![t] = "run"]
        /\ old' = [old EXCEPT ![t] = NoPool] /\ UNCHANGED <<instMap, client, temp>>
    BY DEF DropOld, Goto
  <1>3. ASSUME NEW p \in Pools PROVE Refs(p)' = Refs(p) - Bit(p = q)
    <2>1. InMap(p)' = InMap(p) /\ InClients(p)' = InClients(p) /\ InTemps(p)' = InTemps(p)
      BY <1>2 DEF InMap, InClients, InTemps
    <2>2. Cardinality(InDrops(p)')
            = Cardinality(InDrops(p)) + Bit(pc'[t] = "drop" /\ old'[t] = p)
              - Bit(pc[t] = "drop" /\ old[t] = p)
      BY <1>2, DropChange DEF Types, CallType
    <2>3. /\ Bit(pc'[t] = "drop" /\ old'[t] = p) = 0
          /\ Bit(pc[t] = "drop" /\ old[t] = p) = Bit(p = q)
      BY <1>2 DEF Bit, Types, CallType
    <2>4. Bit(p = q) \in Nat
      BY DEF Bit
    <2> QED
      BY <2>1, <2>2, <2>3, <2>4, PartsOfRefs, PartsAfter
  <1> HIDE DEF q
  <1> QED
    BY <1>1, <1>3, RefsRelease

LEMMA RefsDeleteInst ==
  ASSUME Types, RefsExact, NEW db \in Dbs, DeleteInst(db)
  PROVE  RefsExact'
PROOF
  <1> DEFINE q == instMap[db]
  <1>1. q \in PoolPtr /\ Release(q)
    BY DEF DeleteInst, Types, MapType
  <1>2. /\ instMap' = [instMap EXCEPT ![db] = NoPool]
        /\ UNCHANGED <<client, temp, old, pc>>
    BY DEF DeleteInst, callVars
  <1>3. ASSUME NEW p \in Pools PROVE Refs(p)' = Refs(p) - Bit(p = q)
    <2>1. InDrops(p)' = InDrops(p) /\ InClients(p)' = InClients(p) /\ InTemps(p)' = InTemps(p)
      BY <1>2 DEF InDrops, InClients, InTemps
    <2>2. Cardinality(InMap(p)')
            = Cardinality(InMap(p)) + Bit(instMap'[db] = p) - Bit(instMap[db] = p)
      BY <1>2, MapChange DEF Types, MapType
    <2>3. Bit(instMap'[db] = p) = 0 /\ Bit(instMap[db] = p) = Bit(p = q)
      BY <1>2, RegistryAssumption DEF Bit, Types, MapType
    <2>4. Bit(p = q) \in Nat
      BY DEF Bit
    <2> QED
      BY <2>1, <2>2, <2>3, <2>4, PartsOfRefs, PartsAfter
  <1> HIDE DEF q
  <1> QED
    BY <1>1, <1>3, RefsRelease

LEMMA RefsClientDies ==
  ASSUME Types, CallInv, RefsExact, NEW c \in Clients, ClientDies(c)
  PROVE  RefsExact'
PROOF
  <1> DEFINE q == client[c]
  <1>1. q \in PoolPtr /\ Release(q)
    BY DEF ClientDies, Types, CallType
  <1>2. /\ client' = [client EXCEPT ![c] = NoPool] /\ UNCHANGED <<instMap, temp, old>>
        /\ \A t \in Threads : pc'[t] = "drop" <=> pc[t] = "drop"
    BY DEF ClientDies
  <1>3. ASSUME NEW p \in Pools PROVE Refs(p)' = Refs(p) - Bit(p = q)
    <2>1. InDrops(p)' = InDrops(p) /\ InMap(p)' = InMap(p) /\ InTemps(p)' = InTemps(p)
      BY <1>2 DEF InDrops, InMap, InTemps
    <2>2. Cardinality(InClients(p)')
            = Cardinality(InClients(p)) + Bit(client'[c] = p) - Bit(client[c] = p)
      BY <1>2, ClientChange DEF Types, CallType
    <2>3. Bit(client'[c] = p) = 0 /\ Bit(client[c] = p) = Bit(p = q)
      BY <1>2, RegistryAssumption DEF Bit, Types, CallType
    <2>4. Bit(p = q) \in Nat
      BY DEF Bit
    <2> QED
      BY <2>1, <2>2, <2>3, <2>4, PartsOfRefs, PartsAfter
  <1> HIDE DEF q
  <1> QED
    BY <1>1, <1>3, RefsRelease

\* The map goes with all its references at once.
LEMMA RefsConfigDies ==
  ASSUME Types, RefsExact, ConfigDies
  PROVE  RefsExact'
PROOF
  <1> SUFFICES ASSUME NEW p \in Pools
               PROVE  IF p \in live' THEN rc'[p] = Refs(p)' /\ rc'[p] > 0
                                     ELSE rc'[p] = 0 /\ Refs(p)' = 0
    BY DEF RefsExact
  <1>1. rc'[p] = rc[p] - Cardinality(InMap(p)) /\ (p \in live' <=> p \in live /\ rc'[p] > 0)
    BY DEF ConfigDies, InMap
  <1>2. /\ InClients(p)' = InClients(p) /\ InTemps(p)' = InTemps(p)
        /\ InDrops(p)' = InDrops(p)
    BY DEF ConfigDies, callVars, InClients, InTemps, InDrops
  <1>3. Cardinality(InMap(p)') = 0
    <2>1. InMap(p)' = {}
      BY RegistryAssumption DEF ConfigDies, InMap
    <2> QED
      BY <2>1, FS_EmptySet
  <1>4. Refs(p)' = Refs(p) - Cardinality(InMap(p)) /\ Refs(p) \in Nat /\ Refs(p)' \in Nat
        /\ Cardinality(InMap(p)) \in Nat
    BY <1>2, <1>3, PartsOfRefs, PartsAfter
  <1>5. IF p \in live THEN rc[p] = Refs(p) /\ rc[p] > 0 ELSE rc[p] = 0 /\ Refs(p) = 0
    BY DEF RefsExact
  <1> QED
    BY <1>1, <1>4, <1>5

LEMMA RefsStep ==
  ASSUME OwnClients, Types, CallInv, RefsExact, [Next]_vars
  PROVE  RefsExact'
PROOF
  <1> USE RegistryAssumption DEF mutexVars, countVars, callVars, watchVars, Goto
  <1>1. ASSUME NEW t \in Threads, StartCall(t) PROVE RefsExact'
    BY <1>1, RefsFrame DEF StartCall, Types, CallType
  <1>2. ASSUME NEW t \in Threads, FindInst(t) PROVE RefsExact'
    <2>1. CASE Found(t)
      BY <1>2, <2>1, RefsFound DEF FindInst
    <2>2. CASE ~Found(t)
      BY <1>2, <2>2, RefsFrame DEF FindInst, Types, CallType
    <2> QED
      BY <2>1, <2>2
  <1>3. ASSUME NEW t \in Threads, FindMeta(t) PROVE RefsExact'
    BY <1>3, RefsFrame DEF FindMeta, Types, CallType
  <1>4. ASSUME NEW t \in Threads, LockInst(t) PROVE RefsExact'
    BY <1>4, RefsFrame DEF LockInst, Types, CallType
  <1>5. ASSUME NEW t \in Threads, CreateFinds(t) PROVE RefsExact'
    BY <1>5, RefsFound DEF CreateFinds
  <1>6. ASSUME NEW t \in Threads, CreatePool(t) PROVE RefsExact'
    BY <1>6, RefsCreate
  <1>7. ASSUME NEW t \in Threads, CreateThrows(t) PROVE RefsExact'
    BY <1>7, RefsFrame DEF CreateThrows, UnlockInst, Types, CallType
  <1>8. ASSUME NEW t \in Threads, ReadOld(t) PROVE RefsExact'
    BY <1>8, RefsFrame DEF ReadOld, Types, CallType
  <1>9. ASSUME NEW t \in Threads, WriteNew(t) PROVE RefsExact'
    BY <1>9, RefsSwap
  <1>10. ASSUME NEW t \in Threads, DropOld(t) PROVE RefsExact'
    BY <1>10, RefsDrop
  <1>11. ASSUME NEW t \in Threads, Run(t) PROVE RefsExact'
    BY <1>11, RefsFrame DEF Run, Types, CallType
  <1>12. ASSUME NEW t \in Threads, RunFails(t) PROVE RefsExact'
    BY <1>12, RefsFrame DEF RunFails, Types, CallType
  <1>13. ASSUME NEW t \in Threads, RunEnds(t) PROVE RefsExact'
    BY <1>13, RefsFrame DEF RunEnds, Types, CallType
  <1>14. ASSUME NEW c \in Clients, ClientDies(c) PROVE RefsExact'
    BY <1>14, RefsClientDies
  <1>15. ASSUME NEW db \in Dbs, NEW servers \in SUBSET Servers, AddMeta(db, servers)
        PROVE  RefsExact'
    BY <1>15, RefsFrame DEF AddMeta
  <1>16. ASSUME NEW what \in {"add", "remove"}, NEW server \in Servers, OnServer(what, server)
         PROVE  RefsExact'
    BY <1>16, RefsFrame DEF OnServer
  <1>17. ASSUME NEW db \in Dbs, UpdateMeta(db) PROVE RefsExact'
    BY <1>17, RefsFrame DEF UpdateMeta
  <1>18. ASSUME NEW db \in Dbs, DeleteInst(db) PROVE RefsExact'
    BY <1>18, RefsDeleteInst
  <1>19. CASE ServerDone
    BY <1>19, RefsFrame DEF ServerDone
  <1>20. CASE ConfigDies
    BY <1>20, RefsConfigDies
  <1>21. CASE UNCHANGED vars
    BY <1>21, RefsFrame DEF vars
  <1> QED
    BY <1>1, <1>2, <1>3, <1>4, <1>5, <1>6, <1>7, <1>8, <1>9, <1>10, <1>11, <1>12, <1>13,
       <1>14, <1>15, <1>16, <1>17, <1>18, <1>19, <1>20, <1>21 DEF Next, CallStep,
       WatchStep, Ended

-----------------------------------------------------------------------------
(* The configuration a pool was made from.                                  *)

\* A pool in the map, and a copy that is about to become one, are of the
\* configuration as it is now, unless the watcher is about to delete the pool or
\* has overtaken the copy.
FreshPool(db) ==
  instMap[db] # NoPool =>
    /\ db \in DOMAIN metaMap
    /\ \/ endpoints[instMap[db]] = metaMap[db]
       \/ db \in overtaken \cup deleting

FreshCopy(t) ==
  pc[t] \in {"create", "creating"} =>
    /\ Db(t) \in DOMAIN metaMap
    /\ meta[t] = metaMap[Db(t)] \/ Db(t) \in overtaken

FreshInv == (\A db \in Dbs : FreshPool(db)) /\ (\A t \in Threads : FreshCopy(t))

\* A step that changes no configuration and no pool in the map.
LEMMA FreshFrame ==
  ASSUME FreshInv, UNCHANGED <<metaMap, instMap, endpoints, overtaken, deleting>>,
         \A t \in Threads : pc'[t] \in {"create", "creating"} =>
                              pc[t] \in {"create", "creating"} /\ meta'[t] = meta[t]
  PROVE  FreshInv'
PROOF
  BY DEF FreshInv, FreshPool, FreshCopy, Db

\* The new pool is of the copy it is created from.
LEMMA FreshCreate ==
  ASSUME Types, RefsExact, FreshInv, NEW t \in Threads, CreatePool(t)
  PROVE  FreshInv'
PROOF
  <1>1. PICK q \in Pools \ live :
          /\ instMap' = [instMap EXCEPT ![Db(t)] = q]
          /\ endpoints' = [endpoints EXCEPT ![q] = meta[t]]
    BY DEF CreatePool
  <1>2. /\ pc[t] = "creating" /\ pc' = [pc EXCEPT ![t] = "assign"]
        /\ meta' = [meta EXCEPT ![t] = {}]
        /\ UNCHANGED <<metaMap, overtaken, deleting>>
    BY DEF CreatePool, Goto, UnlockInst, watchVars
  <1>3. Db(t) \in Dbs
    BY RegistryAssumption DEF Db
  <1>4. ASSUME NEW db \in Dbs PROVE FreshPool(db)'
    <2>1. CASE db = Db(t)
      <3>1. instMap'[db] = q /\ endpoints'[q] = meta[t]
        BY <1>1, <1>3, <2>1 DEF Types, MapType
      <3>2. db \in DOMAIN metaMap /\ (meta[t] = metaMap[db] \/ db \in overtaken)
        BY <1>2, <2>1 DEF FreshInv, FreshCopy
      <3> QED
        BY <1>2, <3>1, <3>2 DEF FreshPool
    <2>2. CASE db # Db(t)
      <3>1. instMap'[db] = instMap[db]
        BY <1>1, <2>2 DEF Types, MapType
      <3>2. instMap[db] # NoPool => instMap[db] \in Pools /\ instMap[db] # q
        BY <1>1, Referenced DEF Types, MapType, PoolPtr
      <3>3. instMap[db] # NoPool => endpoints'[instMap[db]] = endpoints[instMap[db]]
        BY <1>1, <3>2 DEF Types, MapType
      <3> QED
        BY <1>2, <3>1, <3>3 DEF FreshInv, FreshPool
    <2> QED
      BY <2>1, <2>2
  <1>5. ASSUME NEW u \in Threads PROVE FreshCopy(u)'
    BY <1>2 DEF FreshInv, FreshCopy, Types, CallType, Db
  <1> QED
    BY <1>4, <1>5 DEF FreshInv

LEMMA FreshUpdate ==
  ASSUME Types, FreshInv, NEW db \in Dbs, UpdateMeta(db)
  PROVE  FreshInv'
PROOF
  <1>1. /\ DOMAIN metaMap' = DOMAIN metaMap
        /\ \A e \in DOMAIN metaMap : e # db => metaMap'[e] = metaMap[e]
    BY DEF UpdateMeta, Types, MapType
  <1>2. /\ deleting = {} /\ deleting' = {db}
        /\ overtaken' = IF LookingUp(db) THEN overtaken \cup {db} ELSE overtaken \ {db}
        /\ UNCHANGED <<instMap, endpoints, pc, meta>>
    BY DEF UpdateMeta, callVars
  <1>3. ASSUME NEW e \in Dbs PROVE FreshPool(e)'
    BY <1>1, <1>2 DEF FreshInv, FreshPool
  <1>4. ASSUME NEW t \in Threads PROVE FreshCopy(t)'
    <2>1. CASE Db(t) = db
      BY <1>1, <1>2, <2>1 DEF FreshInv, FreshCopy, LookingUp, Db
    <2>2. CASE Db(t) # db
      BY <1>1, <1>2, <2>2 DEF FreshInv, FreshCopy, Db
    <2> QED
      BY <2>1, <2>2
  <1> QED
    BY <1>3, <1>4 DEF FreshInv

LEMMA FreshStep ==
  ASSUME Types, CallInv, LoopInv, RefsExact, FreshInv, [Next]_vars
  PROVE  FreshInv'
PROOF
  <1> USE RegistryAssumption DEF mutexVars, countVars, callVars, watchVars, Goto
  <1>1. ASSUME NEW t \in Threads, StartCall(t) PROVE FreshInv'
    BY <1>1, FreshFrame DEF StartCall, Types, CallType
  <1>2. ASSUME NEW t \in Threads, FindInst(t) PROVE FreshInv'
    BY <1>2, FreshFrame DEF FindInst, Found, AddRef, Types, CallType
  <1>3. ASSUME NEW t \in Threads, FindMeta(t) PROVE FreshInv'
    BY <1>3 DEF FindMeta, FreshInv, FreshPool, FreshCopy, Types, CallType, Db
  <1>4. ASSUME NEW t \in Threads, LockInst(t) PROVE FreshInv'
    BY <1>4, FreshFrame DEF LockInst, Types, CallType
  <1>5. ASSUME NEW t \in Threads, CreateFinds(t) PROVE FreshInv'
    BY <1>5, FreshFrame DEF CreateFinds, Found, AddRef, UnlockInst, Types, CallType
  <1>6. ASSUME NEW t \in Threads, CreatePool(t) PROVE FreshInv'
    BY <1>6, FreshCreate
  <1>7. ASSUME NEW t \in Threads, CreateThrows(t) PROVE FreshInv'
    BY <1>7, FreshFrame DEF CreateThrows, UnlockInst, Types, CallType
  <1>8. ASSUME NEW t \in Threads, ReadOld(t) PROVE FreshInv'
    BY <1>8, FreshFrame DEF ReadOld, Types, CallType
  <1>9. ASSUME NEW t \in Threads, WriteNew(t) PROVE FreshInv'
    BY <1>9, FreshFrame DEF WriteNew, Types, CallType
  <1>10. ASSUME NEW t \in Threads, DropOld(t) PROVE FreshInv'
    BY <1>10, FreshFrame DEF DropOld, Types, CallType
  <1>11. ASSUME NEW t \in Threads, Run(t) PROVE FreshInv'
    BY <1>11, FreshFrame DEF Run, Types, CallType
  <1>12. ASSUME NEW t \in Threads, RunFails(t) PROVE FreshInv'
    BY <1>12, FreshFrame DEF RunFails, Types, CallType
  <1>13. ASSUME NEW t \in Threads, RunEnds(t) PROVE FreshInv'
    BY <1>13, FreshFrame DEF RunEnds, Types, CallType
  <1>14. ASSUME NEW c \in Clients, ClientDies(c) PROVE FreshInv'
    BY <1>14, FreshFrame DEF ClientDies
  <1>15. ASSUME NEW db \in Dbs, NEW servers \in SUBSET Servers, AddMeta(db, servers)
         PROVE  FreshInv'
    BY <1>15 DEF AddMeta, FreshInv, FreshPool, FreshCopy, Db
  <1>16. ASSUME NEW what \in {"add", "remove"}, NEW server \in Servers, OnServer(what, server)
         PROVE  FreshInv'
    BY <1>16, FreshFrame DEF OnServer
  <1>17. ASSUME NEW db \in Dbs, UpdateMeta(db) PROVE FreshInv'
    BY <1>17, FreshUpdate
  <1>18. ASSUME NEW db \in Dbs, DeleteInst(db) PROVE FreshInv'
    BY <1>18 DEF DeleteInst, FreshInv, FreshPool, FreshCopy, LoopInv, Types, MapType, Db
  <1>19. CASE ServerDone
    BY <1>19, FreshFrame DEF ServerDone
  <1>20. CASE ConfigDies
    BY <1>20 DEF ConfigDies, FreshInv, FreshPool, FreshCopy
  <1>21. CASE UNCHANGED vars
    BY <1>21, FreshFrame DEF vars
  <1> QED
    BY <1>1, <1>2, <1>3, <1>4, <1>5, <1>6, <1>7, <1>8, <1>9, <1>10, <1>11, <1>12, <1>13,
       <1>14, <1>15, <1>16, <1>17, <1>18, <1>19, <1>20, <1>21 DEF Next, CallStep,
       WatchStep, Ended

-----------------------------------------------------------------------------
(* The inductive invariant, and the theorems.                               *)

IInv == Types /\ MutexesHeld /\ CallInv /\ LoopInv /\ RefsExact /\ FreshInv

\* The part that is inductive by itself, also when Clients are shared.
Control == Types /\ MutexesHeld /\ LoopInv

LEMMA InitRefs == Init => RefsExact
PROOF
  <1> SUFFICES ASSUME Init, NEW p \in Pools PROVE Refs(p) = 0
    BY DEF Init, RefsExact
  <1>1. /\ InMap(p) = {} /\ InClients(p) = {} /\ InTemps(p) = {} /\ InDrops(p) = {}
    BY RegistryAssumption DEF Init, InMap, InClients, InTemps, InDrops
  <1> QED
    BY <1>1, FS_EmptySet, PartsOfRefs

LEMMA IInvInit == Init => IInv
PROOF
  <1>1. Init => FreshInv
    BY DEF Init, FreshInv, FreshPool, FreshCopy
  <1> QED
    BY <1>1, InitInv, InitRefs DEF IInv, Types, TypeOK, CountType

LEMMA IInvStep ==
  ASSUME OwnClients, IInv, [Next]_vars
  PROVE  IInv'
PROOF
  <1>1. Types'
    BY TypesStep DEF IInv
  <1>2. MutexesHeld'
    BY MutexStep DEF IInv
  <1>3. CallInv'
    BY CallInvStep DEF IInv
  <1>4. LoopInv'
    BY LoopStep DEF IInv
  <1>5. RefsExact'
    BY RefsStep DEF IInv
  <1>6. FreshInv'
    BY FreshStep DEF IInv
  <1> QED
    BY <1>1, <1>2, <1>3, <1>4, <1>5, <1>6 DEF IInv

LEMMA Invariance ==
  ASSUME OwnClients
  PROVE  Spec => []IInv
PROOF
  <1>1. Init => IInv
    BY IInvInit
  <1>2. IInv /\ [Next]_vars => IInv'
    BY IInvStep
  <1> QED
    BY <1>1, <1>2, PTL DEF Spec

\* The types of Config, Client and the calls in progress, and that each mutex is
\* locked exactly while its holder is in its critical section (LockGuard).
THEOREM RegistryTypes ==
  ASSUME OwnClients
  PROVE  Spec => []TypeOK
PROOF
  <1>1. IInv => TypeOK
    <2> SUFFICES ASSUME IInv PROVE rc \in [Pools -> Nat]
      BY DEF IInv, Types, TypeOK, CountType
    <2>1. ASSUME NEW p \in Pools PROVE rc[p] \in Nat
      BY PartsOfRefs DEF IInv, RefsExact
    <2> QED
      BY <2>1 DEF IInv, Types
  <1> QED
    BY <1>1, Invariance, PTL

\* A pool's reference count is the number of RedisClientPtr objects that point to
\* it, and the pool is destroyed with the last of them.
THEOREM CountsAreExact ==
  ASSUME OwnClients
  PROVE  Spec => []RefsExact
PROOF
  <1>1. IInv => RefsExact
    BY DEF IInv
  <1> QED
    BY <1>1, Invariance, PTL

\* The pool that a command of a Client runs on is not destroyed before the
\* command returns, although the command holds no reference of its own.
THEOREM NotDestroyedInUse ==
  ASSUME OwnClients
  PROVE  Spec => []UsedIsLive
PROOF
  <1>1. IInv => UsedIsLive
    <2> SUFFICES ASSUME IInv, NEW t \in Threads, used[t] # NoPool PROVE used[t] \in live
      BY DEF UsedIsLive
    <2>1. used[t] \in Pools /\ ClientOf[t] \in Clients /\ client[ClientOf[t]] = used[t]
      BY RegistryAssumption DEF IInv, CallInv, Types, CallType, PoolPtr
    <2> QED
      BY <2>1, Referenced DEF IInv
  <1> QED
    BY <1>1, Invariance, PTL

\* Between two calls of the watcher a database's pool is one for the endpoints that
\* are configured now, or a change overtook the lookup that created it.
THEOREM StaleOnlyIfOvertaken ==
  ASSUME OwnClients
  PROVE  Spec => []StaleIfOvertaken
PROOF
  <1>1. IInv => StaleIfOvertaken
    BY DEF IInv, StaleIfOvertaken, FreshInv, FreshPool, LoopInv
  <1> QED
    BY <1>1, Invariance, PTL

\* A database's pool is put into the map once, however many threads have found none
\* at the same time, and only the watcher takes it out (or the end of Config).
\* This needs no OwnClients: the map is locked, whoever shares a Client.
THEOREM OnePoolPerDb == Spec => ReplacedByWatcher
PROOF
  <1> DEFINE Kept == \A db \in Dbs : instMap[db] # NoPool /\ instMap'[db] # instMap[db]
                       => metaMutex = Watcher \/ watch' = "gone"
  <1>1. Control /\ [Next]_vars => [Kept]_vars
    <2> SUFFICES ASSUME Control, Next, NEW db \in Dbs, instMap[db] # NoPool,
                        instMap'[db] # instMap[db]
                 PROVE  metaMutex = Watcher \/ watch' = "gone"
      BY DEF Kept
    <2>1. ASSUME NEW t \in Threads, CreatePool(t) PROVE FALSE
      BY <2>1 DEF CreatePool, Control, Types, MapType
    <2>2. ASSUME NEW e \in Dbs, DeleteInst(e) PROVE metaMutex = Watcher
      BY <2>2 DEF DeleteInst, Control, LoopInv, MutexesHeld
    <2>3. CASE ConfigDies
      BY <2>3 DEF ConfigDies
    <2>4. (\E t \in Threads : CreatePool(t)) \/ (\E e \in Dbs : DeleteInst(e)) \/ ConfigDies
      BY DEF Next, CallStep, WatchStep, Ended, vars, StartCall, FindInst, FindMeta, LockInst,
         CreateFinds, CreateThrows, ReadOld, WriteNew, DropOld, Run, RunFails, RunEnds,
         ClientDies, AddMeta, OnServer, UpdateMeta, ServerDone
    <2> QED
      BY <2>1, <2>2, <2>3, <2>4
  <1>2. Init => Control
    BY InitInv DEF Init, Control, Types, TypeOK, CountType
  <1>3. Control /\ [Next]_vars => Control'
    BY TypesStep, MutexStep, LoopStep DEF Control
  <1> QED
    BY <1>1, <1>2, <1>3, PTL DEF Spec, ReplacedByWatcher

=============================================================================
