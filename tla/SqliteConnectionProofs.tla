------------------------ MODULE SqliteConnectionProofs ------------------------
(***************************************************************************)
(* Proofs about SqliteConnection for any number of threads and rows.  Type *)
(* correctness needs nothing; the rest is proved for a process that uses a *)
(* single connection, which is what SqliteDatabase hands out.              *)
(***************************************************************************)
EXTENDS SqliteConnection, TLAPS

SingleConnection == \A c, d \in Connections : c = d

-----------------------------------------------------------------------------
(* The inductive invariant                                                  *)

FlagInv ==
    /\ \A t \in Threads : inTx[t] <=> \E c \in Connections : tx[t][c] # "none"
    /\ \A t \in Threads, c \in Connections : tx[t][c] # "none" => writer[c] = t

AutoInv ==
    \A c \in Connections : ~auto[c] => \E t \in Threads : tx[t][c] = "active"

(* Whoever is inside a call has the lock of that call or a transaction.     *)
BodyInv ==
    \A t \in Threads : pc[t] = "body" =>
        /\ op[t] # "begin"
        /\ ~inTx[t] => IF op[t] \in ExclusiveOps THEN writer[on[t]] = t
                                                 ELSE t \in readers[on[t]]

(* Whoever has a lock is inside a call that takes it, or in a transaction.  *)
MutexInv ==
    /\ \A c \in Connections : writer[c] # NoThread => readers[c] = {}
    /\ \A c \in Connections, t \in Threads :
         writer[c] = t => \/ tx[t][c] # "none"
                          \/ pc[t] = "body" /\ on[t] = c /\ op[t] \in ExclusiveOps
    /\ \A c \in Connections, t \in Threads :
         t \in readers[c] => pc[t] = "body" /\ on[t] = c /\ op[t] \in SharedOps

(* In autocommit mode what is seen is what is durable.                      *)
DurableInv == \A c \in Connections : auto[c] => saved[c] = rows[c]

IInv == TypeOK /\ FlagInv /\ AutoInv /\ BodyInv /\ MutexInv /\ DurableInv

-----------------------------------------------------------------------------
(* Type correctness                                                         *)

LEMMA TypeInit == Init => TypeOK
<1>1. 0 \in Nat /\ <<>> \in Seq(Threads)
  OBVIOUS
<1> QED BY <1>1 DEF Init, TypeOK, PCs, Ops, ExclusiveOps, SharedOps, TxStates

(* What the helpers of the actions do to the variables' types               *)
CallTypes ==
    pc' \in [Threads -> PCs] /\ op' \in [Threads -> Ops] /\ on' \in [Threads -> Connections]
MutexTypes ==
    /\ writer' \in [Connections -> Threads \cup {NoThread}]
    /\ readers' \in [Connections -> SUBSET Threads]
DbTypes ==
    /\ auto' \in [Connections -> BOOLEAN]
    /\ rows' \in [Connections -> Seq(Threads)]
    /\ saved' \in [Connections -> Seq(Threads)]
    /\ lastRow' \in [Connections -> Nat]
IdTypes == created' \in [Threads -> Nat] /\ returned' \in [Threads -> Nat]
TxTypes == inTx' \in [Threads -> BOOLEAN] /\ tx' \in [Threads -> [Connections -> TxStates]]

LEMMA TypeParts == CallTypes /\ MutexTypes /\ DbTypes /\ IdTypes /\ TxTypes => TypeOK'
  BY DEF TypeOK, CallTypes, MutexTypes, DbTypes, IdTypes, TxTypes

LEMMA UnchangedTypes ==
  ASSUME TypeOK
  PROVE  /\ UNCHANGED callVars => CallTypes
         /\ UNCHANGED mutexVars => MutexTypes
         /\ UNCHANGED dbVars => DbTypes
         /\ UNCHANGED idVars => IdTypes
         /\ UNCHANGED <<inTx, tx>> => TxTypes
  BY DEF TypeOK, CallTypes, MutexTypes, DbTypes, IdTypes, TxTypes,
         callVars, mutexVars, dbVars, idVars

LEMMA ReturnTypes ==
  ASSUME NEW t \in Threads, TypeOK, Return(t) PROVE CallTypes
  BY DEF TypeOK, Return, CallTypes, PCs, Ops, SharedOps

LEMMA UnlockTypes ==
  ASSUME NEW t \in Threads, TypeOK, Unlock(t) PROVE MutexTypes
  BY DEF TypeOK, Unlock, MutexTypes

LEMMA RestoreTypes ==
  ASSUME NEW c \in Connections, TypeOK, Restore(c) PROVE DbTypes
  BY DEF TypeOK, Restore, DbTypes

LEMMA InsertTypes ==
  ASSUME NEW t \in Threads, NEW c \in Connections, TypeOK, Insert(t, c)
  PROVE  DbTypes /\ created' \in [Threads -> Nat]
<1>1. Len(rows[c]) + 1 \in Nat /\ Append(rows[c], t) \in Seq(Threads)
  BY DEF TypeOK
<1> QED BY <1>1 DEF TypeOK, Insert, DbTypes

(* One step per action                                                      *)
LEMMA TypeNext == TypeOK /\ [Next]_vars => TypeOK'
<1> SUFFICES ASSUME TypeOK, [Next]_vars PROVE TypeOK'
  OBVIOUS
<1>1. CASE UNCHANGED vars
  BY <1>1, UnchangedTypes, TypeParts DEF vars
<1>2. ASSUME NEW t \in Threads, Step(t) PROVE TypeOK'
  <2> on[t] \in Connections
    BY DEF TypeOK
  <2>1. CASE EnterUnlocked(t)
    <3>1. CallTypes
      BY <2>1 DEF EnterUnlocked, CallTypes, TypeOK, PCs
    <3> QED BY <2>1, <3>1, UnchangedTypes, TypeParts DEF EnterUnlocked
  <2>2. CASE EnterExclusive(t)
    <3>1. CallTypes /\ MutexTypes
      BY <2>2 DEF EnterExclusive, CallTypes, MutexTypes, TypeOK, PCs
    <3> QED BY <2>2, <3>1, UnchangedTypes, TypeParts DEF EnterExclusive
  <2>3. CASE EnterShared(t)
    <3>1. CallTypes /\ MutexTypes
      BY <2>3 DEF EnterShared, CallTypes, MutexTypes, TypeOK, PCs
    <3> QED BY <2>3, <3>1, UnchangedTypes, TypeParts DEF EnterShared
  <2>4. CASE LockThrows(t)
    BY <2>4, ReturnTypes, UnchangedTypes, TypeParts DEF LockThrows
  <2>5. CASE Body(t)
    BY <2>5, ReturnTypes, UnlockTypes, UnchangedTypes, TypeParts DEF Body
  <2>6. CASE InsertBody(t)
    <3>1. CallTypes
      BY <2>6 DEF InsertBody, CallTypes, TypeOK, PCs, Ops, SharedOps
    <3>2. IdTypes
      BY <2>6, InsertTypes DEF InsertBody, IdTypes, TypeOK
    <3> QED BY <2>6, <3>1, <3>2, InsertTypes, UnlockTypes, UnchangedTypes, TypeParts
            DEF InsertBody
  <2>7. CASE LastIdBody(t)
    <3>1. IdTypes
      BY <2>7 DEF LastIdBody, IdTypes, TypeOK
    <3> QED BY <2>7, <3>1, ReturnTypes, UnlockTypes, UnchangedTypes, TypeParts
            DEF LastIdBody
  <2>8. CASE BodyThrows(t)
    BY <2>8, ReturnTypes, UnlockTypes, RestoreTypes, UnchangedTypes, TypeParts
       DEF BodyThrows
  <2>9. CASE BeginOk(t)
    <3>1. MutexTypes /\ DbTypes
      BY <2>9 DEF BeginOk, MutexTypes, DbTypes, TypeOK
    <3>2. TxTypes
      BY <2>9 DEF BeginOk, TxTypes, TypeOK, TxStates
    <3> QED BY <2>9, <3>1, <3>2, ReturnTypes, UnchangedTypes, TypeParts DEF BeginOk
  <2>10. CASE BeginThrows(t)
    <3>1. TxTypes
      BY <2>10 DEF BeginThrows, TxTypes, TypeOK
    <3> QED BY <2>10, <3>1, ReturnTypes, UnchangedTypes, TypeParts DEF BeginThrows
  <2> QED BY <1>2, <2>1, <2>2, <2>3, <2>4, <2>5, <2>6, <2>7, <2>8, <2>9, <2>10 DEF Step
<1>3. ASSUME NEW t \in Threads, NEW c \in Connections, NEW o \in Ops \ {"lastId"},
             Invoke(t, c, o)
      PROVE  TypeOK'
  <2>1. CallTypes
    BY <1>3 DEF Invoke, CallTypes, TypeOK, PCs
  <2>2. IdTypes
    BY <1>3 DEF Invoke, IdTypes, TypeOK
  <2> QED BY <1>3, <2>1, <2>2, UnchangedTypes, TypeParts DEF Invoke
<1>4. ASSUME NEW t \in Threads, NEW c \in Connections, Commit(t, c) PROVE TypeOK'
  <2>1. DbTypes
    BY <1>4 DEF Commit, DbTypes, TypeOK
  <2>2. TxTypes
    BY <1>4 DEF Commit, TxTypes, TypeOK, TxStates
  <2> QED BY <1>4, <2>1, <2>2, UnchangedTypes, TypeParts DEF Commit
<1>5. ASSUME NEW t \in Threads, NEW c \in Connections, Rollback(t, c) PROVE TypeOK'
  <2>1. TxTypes
    BY <1>5 DEF Rollback, TxTypes, TypeOK, TxStates
  <2> QED BY <1>5, <2>1, RestoreTypes, UnchangedTypes, TypeParts DEF Rollback
<1>6. ASSUME NEW t \in Threads, NEW c \in Connections, End(t, c) PROVE TypeOK'
  <2>1. TxTypes /\ MutexTypes
    BY <1>6 DEF End, TxTypes, MutexTypes, TypeOK, TxStates
  <2> QED BY <1>6, <2>1, RestoreTypes, UnchangedTypes, TypeParts DEF End
<1> QED BY <1>1, <1>2, <1>3, <1>4, <1>5, <1>6 DEF Next

(* Every variable keeps its type, for any number of threads, connections    *)
(* and rows.                                                                *)
THEOREM TypeCorrect == Spec => []TypeOK
<1> QED BY TypeInit, TypeNext, PTL DEF Spec

-----------------------------------------------------------------------------
(* The mutex, the flag and the SQLite transaction, on one connection        *)

LEMMA InvInit == Init => IInv
<1> SUFFICES ASSUME Init PROVE IInv
  OBVIOUS
<1>1. TypeOK
  BY TypeInit
<1> QED BY <1>1, ThreadsAssumption
        DEF Init, IInv, FlagInv, AutoInv, BodyInv, MutexInv, DurableInv

LEMMA InvNext ==
  ASSUME SingleConnection, IInv, [Next]_vars PROVE IInv'
<1>1. TypeOK'
  BY TypeNext DEF IInv
<1> USE DEF IInv, TypeOK, SingleConnection, callVars, mutexVars, dbVars, idVars,
            ShouldLock, ExclusiveOps, SharedOps, Ops
<1>2. CASE UNCHANGED vars
  BY <1>1, <1>2 DEF vars, FlagInv, AutoInv, BodyInv, MutexInv, DurableInv
<1>3. ASSUME NEW t \in Threads, Step(t) PROVE IInv'
  <2>1. CASE EnterUnlocked(t)
    <3>1. FlagInv'
      BY <2>1, ThreadsAssumption DEF EnterUnlocked, FlagInv
    <3>2. AutoInv'
      BY <2>1, ThreadsAssumption DEF EnterUnlocked, AutoInv, FlagInv
    <3>3. BodyInv'
      BY <2>1, ThreadsAssumption DEF EnterUnlocked, BodyInv, FlagInv, MutexInv
    <3>4. MutexInv'
      BY <2>1, ThreadsAssumption DEF EnterUnlocked, MutexInv, FlagInv, BodyInv
    <3>5. DurableInv'
      BY <2>1, ThreadsAssumption DEF EnterUnlocked, DurableInv
    <3> QED BY <1>1, <3>1, <3>2, <3>3, <3>4, <3>5
  <2>2. CASE EnterExclusive(t)
    <3>1. FlagInv'
      BY <2>2, ThreadsAssumption DEF EnterExclusive, Free, FlagInv
    <3>2. AutoInv'
      BY <2>2, ThreadsAssumption DEF EnterExclusive, Free, AutoInv, FlagInv
    <3>3. BodyInv'
      BY <2>2, ThreadsAssumption DEF EnterExclusive, Free, BodyInv, FlagInv, MutexInv
    <3>4. MutexInv'
      BY <2>2, ThreadsAssumption DEF EnterExclusive, Free, MutexInv, FlagInv, BodyInv
    <3>5. DurableInv'
      BY <2>2, ThreadsAssumption DEF EnterExclusive, Free, DurableInv
    <3> QED BY <1>1, <3>1, <3>2, <3>3, <3>4, <3>5
  <2>3. CASE EnterShared(t)
    <3>1. FlagInv'
      BY <2>3, ThreadsAssumption DEF EnterShared, ReaderFree, FlagInv
    <3>2. AutoInv'
      BY <2>3, ThreadsAssumption DEF EnterShared, ReaderFree, AutoInv, FlagInv
    <3>3. BodyInv'
      BY <2>3, ThreadsAssumption DEF EnterShared, ReaderFree, BodyInv, FlagInv, MutexInv
    <3>4. MutexInv'
      BY <2>3, ThreadsAssumption DEF EnterShared, ReaderFree, MutexInv, FlagInv, BodyInv
    <3>5. DurableInv'
      BY <2>3, ThreadsAssumption DEF EnterShared, ReaderFree, DurableInv
    <3> QED BY <1>1, <3>1, <3>2, <3>3, <3>4, <3>5
  <2>4. CASE LockThrows(t)
    <3>1. FlagInv'
      BY <2>4, ThreadsAssumption DEF LockThrows, Return, FlagInv
    <3>2. AutoInv'
      BY <2>4, ThreadsAssumption DEF LockThrows, Return, AutoInv, FlagInv
    <3>3. BodyInv'
      BY <2>4, ThreadsAssumption DEF LockThrows, Return, BodyInv, FlagInv, MutexInv
    <3>4. MutexInv'
      BY <2>4, ThreadsAssumption DEF LockThrows, Return, MutexInv, FlagInv, BodyInv
    <3>5. DurableInv'
      BY <2>4, ThreadsAssumption DEF LockThrows, Return, DurableInv
    <3> QED BY <1>1, <3>1, <3>2, <3>3, <3>4, <3>5
  <2>5. CASE Body(t)
    <3>1. FlagInv'
      BY <2>5, ThreadsAssumption DEF Body, Return, Unlock, FlagInv, BodyInv
    <3>2. AutoInv'
      BY <2>5, ThreadsAssumption DEF Body, Return, Unlock, AutoInv, FlagInv
    <3>3. BodyInv'
      BY <2>5, ThreadsAssumption DEF Body, Return, Unlock, BodyInv, FlagInv, MutexInv
    <3>4. MutexInv'
      BY <2>5, ThreadsAssumption DEF Body, Return, Unlock, MutexInv, FlagInv, BodyInv
    <3>5. DurableInv'
      BY <2>5, ThreadsAssumption DEF Body, Return, Unlock, DurableInv
    <3> QED BY <1>1, <3>1, <3>2, <3>3, <3>4, <3>5
  <2>6. CASE InsertBody(t)
    <3>1. FlagInv'
      BY <2>6, ThreadsAssumption DEF InsertBody, Insert, Unlock, FlagInv, BodyInv
    <3>2. AutoInv'
      BY <2>6, ThreadsAssumption DEF InsertBody, Insert, Unlock, AutoInv, FlagInv
    <3>3. BodyInv'
      BY <2>6, ThreadsAssumption DEF InsertBody, Insert, Unlock, BodyInv, FlagInv, MutexInv
    <3>4. MutexInv'
      BY <2>6, ThreadsAssumption DEF InsertBody, Insert, Unlock, MutexInv, FlagInv, BodyInv
    <3>5. DurableInv'
      BY <2>6, ThreadsAssumption DEF InsertBody, Insert, Unlock, DurableInv
    <3> QED BY <1>1, <3>1, <3>2, <3>3, <3>4, <3>5
  <2>7. CASE LastIdBody(t)
    <3>1. FlagInv'
      BY <2>7, ThreadsAssumption DEF LastIdBody, Return, Unlock, FlagInv
    <3>2. AutoInv'
      BY <2>7, ThreadsAssumption DEF LastIdBody, Return, Unlock, AutoInv, FlagInv
    <3>3. BodyInv'
      BY <2>7, ThreadsAssumption DEF LastIdBody, Return, Unlock, BodyInv, FlagInv, MutexInv
    <3>4. MutexInv'
      BY <2>7, ThreadsAssumption DEF LastIdBody, Return, Unlock, MutexInv, FlagInv, BodyInv
    <3>5. DurableInv'
      BY <2>7, ThreadsAssumption DEF LastIdBody, Return, Unlock, DurableInv
    <3> QED BY <1>1, <3>1, <3>2, <3>3, <3>4, <3>5
  <2>8. CASE BodyThrows(t)
    <3>1. FlagInv'
      BY <2>8, ThreadsAssumption DEF BodyThrows, Restore, Return, Unlock, FlagInv, BodyInv
    <3>2. AutoInv'
      BY <2>8, ThreadsAssumption DEF BodyThrows, Restore, Return, Unlock, AutoInv, FlagInv
    <3>3. BodyInv'
      BY <2>8, ThreadsAssumption DEF BodyThrows, Restore, Return, Unlock, BodyInv, FlagInv, MutexInv
    <3>4. MutexInv'
      BY <2>8, ThreadsAssumption DEF BodyThrows, Restore, Return, Unlock, MutexInv, FlagInv, BodyInv
    <3>5. DurableInv'
      BY <2>8, ThreadsAssumption DEF BodyThrows, Restore, Return, Unlock, DurableInv
    <3> QED BY <1>1, <3>1, <3>2, <3>3, <3>4, <3>5
  <2>9. CASE BeginOk(t)
    <3>1. FlagInv'
      BY <2>9, ThreadsAssumption DEF BeginOk, Free, Return, FlagInv
    <3>2. AutoInv'
      BY <2>9, ThreadsAssumption DEF BeginOk, Free, Return, AutoInv, FlagInv
    <3>3. BodyInv'
      BY <2>9, ThreadsAssumption DEF BeginOk, Free, Return, BodyInv, FlagInv, MutexInv
    <3>4. MutexInv'
      BY <2>9, ThreadsAssumption DEF BeginOk, Free, Return, MutexInv, FlagInv, BodyInv
    <3>5. DurableInv'
      BY <2>9, ThreadsAssumption DEF BeginOk, Free, Return, DurableInv
    <3> QED BY <1>1, <3>1, <3>2, <3>3, <3>4, <3>5
  <2>10. CASE BeginThrows(t)
    <3>1. FlagInv'
      BY <2>10, ThreadsAssumption DEF BeginThrows, Free, Return, FlagInv
    <3>2. AutoInv'
      BY <2>10, ThreadsAssumption DEF BeginThrows, Free, Return, AutoInv, FlagInv
    <3>3. BodyInv'
      BY <2>10, ThreadsAssumption DEF BeginThrows, Free, Return, BodyInv, FlagInv, MutexInv
    <3>4. MutexInv'
      BY <2>10, ThreadsAssumption DEF BeginThrows, Free, Return, MutexInv, FlagInv, BodyInv
    <3>5. DurableInv'
      BY <2>10, ThreadsAssumption DEF BeginThrows, Free, Return, DurableInv
    <3> QED BY <1>1, <3>1, <3>2, <3>3, <3>4, <3>5
  <2> QED BY <1>3, <2>1, <2>2, <2>3, <2>4, <2>5, <2>6, <2>7, <2>8, <2>9, <2>10 DEF Step
<1>4. ASSUME NEW t \in Threads, NEW c \in Connections, NEW o \in Ops \ {"lastId"}, Invoke(t, c, o) PROVE IInv'
  <2>1. FlagInv'
    BY <1>4, ThreadsAssumption DEF Invoke, FlagInv
  <2>2. AutoInv'
    BY <1>4, ThreadsAssumption DEF Invoke, AutoInv, FlagInv
  <2>3. BodyInv'
    BY <1>4, ThreadsAssumption DEF Invoke, BodyInv, FlagInv, MutexInv
  <2>4. MutexInv'
    BY <1>4, ThreadsAssumption DEF Invoke, MutexInv, FlagInv, BodyInv
  <2>5. DurableInv'
    BY <1>4, ThreadsAssumption DEF Invoke, DurableInv
  <2> QED BY <1>1, <2>1, <2>2, <2>3, <2>4, <2>5
<1>5. ASSUME NEW t \in Threads, NEW c \in Connections, Commit(t, c) PROVE IInv'
  <2>1. FlagInv'
    BY <1>5, ThreadsAssumption DEF Commit, Executes, FlagInv
  <2>2. AutoInv'
    BY <1>5, ThreadsAssumption DEF Commit, Executes, AutoInv, FlagInv
  <2>3. BodyInv'
    BY <1>5, ThreadsAssumption DEF Commit, Executes, BodyInv, FlagInv, MutexInv
  <2>4. MutexInv'
    BY <1>5, ThreadsAssumption DEF Commit, Executes, MutexInv, FlagInv, BodyInv
  <2>5. DurableInv'
    BY <1>5, ThreadsAssumption DEF Commit, Executes, DurableInv
  <2> QED BY <1>1, <2>1, <2>2, <2>3, <2>4, <2>5
<1>6. ASSUME NEW t \in Threads, NEW c \in Connections, Rollback(t, c) PROVE IInv'
  <2>1. FlagInv'
    BY <1>6, ThreadsAssumption DEF Rollback, Executes, Restore, FlagInv
  <2>2. AutoInv'
    BY <1>6, ThreadsAssumption DEF Rollback, Executes, Restore, AutoInv, FlagInv
  <2>3. BodyInv'
    BY <1>6, ThreadsAssumption DEF Rollback, Executes, Restore, BodyInv, FlagInv, MutexInv
  <2>4. MutexInv'
    BY <1>6, ThreadsAssumption DEF Rollback, Executes, Restore, MutexInv, FlagInv, BodyInv
  <2>5. DurableInv'
    BY <1>6, ThreadsAssumption DEF Rollback, Executes, Restore, DurableInv
  <2> QED BY <1>1, <2>1, <2>2, <2>3, <2>4, <2>5
<1>7. ASSUME NEW t \in Threads, NEW c \in Connections, End(t, c) PROVE IInv'
  <2>1. FlagInv'
    BY <1>7, ThreadsAssumption DEF End, Executes, Restore, FlagInv
  <2>2. AutoInv'
    BY <1>7, ThreadsAssumption DEF End, Executes, Restore, AutoInv, FlagInv
  <2>3. BodyInv'
    BY <1>7, ThreadsAssumption DEF End, Executes, Restore, BodyInv, FlagInv, MutexInv
  <2>4. MutexInv'
    BY <1>7, ThreadsAssumption DEF End, Executes, Restore, MutexInv, FlagInv, BodyInv
  <2>5. DurableInv'
    BY <1>7, ThreadsAssumption DEF End, Executes, Restore, DurableInv
  <2> QED BY <1>1, <2>1, <2>2, <2>3, <2>4, <2>5
<1> QED BY <1>2, <1>3, <1>4, <1>5, <1>6, <1>7 DEF Next

LEMMA Invariance == ASSUME SingleConnection PROVE Spec => []IInv
<1>1. IInv /\ [Next]_vars => IInv'
  BY InvNext
<1> QED BY InvInit, <1>1, PTL DEF Spec

(* Nobody is inside a call on a connection whose mutex another thread owns. *)
LEMMA OnlyOwnerInside ==
  ASSUME SingleConnection, IInv, NEW t \in Threads, NEW u \in Threads,
         pc[t] = "body", writer[on[t]] = u
  PROVE  t = u
<1> DEFINE c == on[t]
<1>1. c \in Connections
  BY DEF IInv, TypeOK
<1>2. readers[c] = {}
  BY <1>1, ThreadsAssumption DEF IInv, MutexInv
<1>3. CASE inTx[t]
  BY <1>1, <1>3 DEF IInv, FlagInv, SingleConnection
<1>4. CASE ~inTx[t]
  BY <1>2, <1>4 DEF IInv, BodyInv
<1> QED BY <1>3, <1>4

(* While one thread's transaction object lives, no other thread is inside   *)
(* SQLite on the connection.                                                *)
THEOREM Isolation == ASSUME SingleConnection PROVE Spec => []TransactionIsolated
<1>1. IInv => TransactionIsolated
  BY OnlyOwnerInside DEF IInv, FlagInv, TransactionIsolated
<1> QED BY Invariance, <1>1, PTL

(* Nothing overlaps a write, a reset or a finalize.                         *)
THEOREM Exclusion == ASSUME SingleConnection PROVE Spec => []WritersExclude
<1>1. ASSUME IInv, NEW t \in Threads, pc[t] = "body", op[t] \notin SharedOps
      PROVE  writer[on[t]] = t
  <2>1. op[t] \in ExclusiveOps /\ on[t] \in Connections
    BY <1>1 DEF IInv, TypeOK, BodyInv, Ops
  <2> QED BY <1>1, <2>1 DEF IInv, FlagInv, BodyInv, SingleConnection
<1>2. IInv => WritersExclude
  BY <1>1, OnlyOwnerInside DEF WritersExclude
<1> QED BY Invariance, <1>2, PTL

(* The flag, the mutex and the open SQLite transaction agree.               *)
THEOREM FlagSound == ASSUME SingleConnection PROVE Spec => []FlagTracksTransaction
<1>1. IInv => FlagTracksTransaction
  BY DEF IInv, FlagInv, AutoInv, FlagTracksTransaction, NoDanglingTransaction
<1> QED BY Invariance, <1>1, PTL

(* Of the steps that change rows, one inside SQLite is the owner's since     *)
(* nobody else is there, and one of a transaction object is that object's.  *)
LEMMA OwnWrites ==
  ASSUME SingleConnection, IInv, [Next]_vars,
         NEW t \in Threads, NEW c \in Connections,
         tx[t][c] # "none", rows'[c] # rows[c]
  PROVE  pc'[t] # pc[t] \/ tx'[t][c] # tx[t][c]
<1>1. TypeOK /\ writer[c] = t /\ \A d \in Connections : d = c
  BY DEF IInv, FlagInv, SingleConnection
<1>2. ASSUME NEW u \in Threads, pc[u] = "body" PROVE u = t
  <2>1. on[u] = c
    BY <1>1 DEF TypeOK
  <2> QED BY <1>1, <1>2, <2>1, OnlyOwnerInside
<1>3. ASSUME NEW u \in Threads, NEW d \in Connections, tx[u][d] # "none" PROVE u = t /\ d = c
  BY <1>1, <1>3 DEF IInv, FlagInv
<1>4. ASSUME NEW u \in Threads, Step(u)
      PROVE  pc'[t] # pc[t]
  <2>1. InsertBody(u) \/ BodyThrows(u)
    BY <1>4 DEF Step, EnterUnlocked, EnterExclusive, EnterShared, LockThrows, Body, LastIdBody,
                BeginOk, BeginThrows, dbVars
  <2>2. u = t /\ pc[t] = "body"
    BY <1>2, <2>1 DEF InsertBody, BodyThrows
  <2>3. pc' = [pc EXCEPT ![t] = "wait"] \/ pc' = [pc EXCEPT ![t] = "idle"]
    BY <2>1, <2>2 DEF InsertBody, BodyThrows, Return
  <2> QED BY <1>1, <2>2, <2>3 DEF TypeOK
<1>5. ASSUME NEW u \in Threads, NEW d \in Connections, Rollback(u, d) \/ End(u, d)
      PROVE  tx'[t][c] # tx[t][c]
  <2>1. u = t /\ d = c
    BY <1>3, <1>5 DEF Rollback, End
  <2>2. CASE Rollback(t, c)
    BY <1>1, <2>2 DEF Rollback, TypeOK
  <2>3. CASE End(t, c)
    BY <1>1, <2>3 DEF End, TypeOK
  <2> QED BY <1>5, <2>1, <2>2, <2>3
<1>6. ASSUME UNCHANGED rows PROVE FALSE
  BY <1>6
<1> QED BY <1>4, <1>5, <1>6 DEF Next, Invoke, Commit, dbVars, vars

(* A transaction's owner sees the rows change only by calls and endings of  *)
(* its own, for as long as its object lives.                                *)
THEOREM OwnerWrites == ASSUME SingleConnection PROVE Spec => OnlyOwnerWrites
<1>1. IInv /\ [Next]_vars
      => [\A t \in Threads, c \in Connections :
            tx[t][c] # "none" /\ rows'[c] # rows[c]
            => pc'[t] # pc[t] \/ tx'[t][c] # tx[t][c]]_vars
  BY OwnWrites
<1> QED BY Invariance, <1>1, PTL DEF Spec, OnlyOwnerWrites

-----------------------------------------------------------------------------
(* The connection implements the serial transactional store                 *)

AbstractNext == [Abstract!Next]_<<saved, rows, OpenTxn>>

LEMMA RefinesInit == Init => Abstract!Init
  BY DEF Init, Abstract!Init, OpenTxn

(* A step that moves the mutex only outside SQLite transactions stutters.   *)
LEMMA Stutters ==
  ASSUME UNCHANGED <<saved, rows, auto>>,
         \A c \in Connections : auto[c] \/ writer'[c] = writer[c]
  PROVE  AbstractNext
<1>1. OpenTxn' = OpenTxn
  BY DEF OpenTxn
<1> QED BY <1>1 DEF AbstractNext

(* Inside SQLite with a transaction open, a thread is the one that owns it. *)
LEMMA OwnTransaction ==
  ASSUME SingleConnection, IInv, NEW t \in Threads, pc[t] = "body", ~auto[on[t]]
  PROVE  inTx[t] /\ writer[on[t]] = t
<1> DEFINE c == on[t]
<1>1. c \in Connections
  BY DEF IInv, TypeOK
<1>2. PICK u \in Threads : tx[u][c] = "active"
  BY <1>1 DEF IInv, AutoInv
<1>3. writer[c] = u /\ inTx[u]
  BY <1>1, <1>2 DEF IInv, FlagInv
<1>4. readers[c] = {}
  BY <1>1, <1>3, ThreadsAssumption DEF IInv, MutexInv
<1>5. inTx[t]
  BY <1>3, <1>4 DEF IInv, BodyInv
<1> QED BY <1>1, <1>5 DEF IInv, FlagInv, SingleConnection

(* The end of a SQLite transaction by its owner, with the rows put back.    *)
LEMMA RestoreIsRollback ==
  ASSUME TypeOK, NEW t \in Threads, NEW c \in Connections,
         ~auto[c], writer[c] = t, Restore(c),
         \A d \in Connections : d = c \/ writer'[d] = writer[d]
  PROVE  AbstractNext
<1>1. OpenTxn[c] = t /\ OpenTxn' = [OpenTxn EXCEPT ![c] = NoThread]
  BY DEF OpenTxn, Restore, TypeOK
<1>2. Abstract!Rollback(t, c)
  BY <1>1 DEF Abstract!Rollback, Restore
<1> QED BY <1>2 DEF AbstractNext, Abstract!Next

LEMMA RefinesStep ==
  ASSUME SingleConnection, IInv, NEW t \in Threads, Step(t) PROVE AbstractNext
<1> DEFINE c == on[t]
<1>0. TypeOK /\ c \in Connections
  BY DEF IInv, TypeOK
<1>1. CASE EnterUnlocked(t) \/ EnterShared(t) \/ LockThrows(t) \/ BeginThrows(t)
  BY <1>1, Stutters
     DEF EnterUnlocked, EnterShared, LockThrows, BeginThrows, Return, mutexVars, dbVars
<1>2. CASE EnterExclusive(t)
  <2>1. auto[c]
    BY <1>0, <1>2, ThreadsAssumption DEF EnterExclusive, Free, IInv, AutoInv, FlagInv
  <2> QED BY <1>0, <1>2, <2>1, Stutters DEF EnterExclusive, SingleConnection, dbVars
<1>3. ASSUME pc[t] = "body", Unlock(t)
      PROVE  \A d \in Connections : auto[d] \/ writer'[d] = writer[d]
  BY <1>0, <1>3, OwnTransaction DEF Unlock, ShouldLock, SingleConnection, TypeOK
<1>4. CASE Body(t) \/ LastIdBody(t)
  BY <1>3, <1>4, Stutters DEF Body, LastIdBody, dbVars
<1>5. CASE InsertBody(t)
  <2>1. UNCHANGED auto /\ pc[t] = "body" /\ Unlock(t) /\ Insert(t, c)
    BY <1>5 DEF InsertBody, Insert
  <2>2. OpenTxn' = OpenTxn
    BY <1>3, <2>1 DEF OpenTxn
  <2>3. CASE auto[c]
    <3>1. saved[c] = rows[c] /\ OpenTxn[c] = NoThread
      BY <1>0, <2>3 DEF IInv, DurableInv, OpenTxn
    <3>2. Abstract!AutoPut(t, c)
      BY <2>1, <2>2, <2>3, <3>1 DEF Abstract!AutoPut, Insert
    <3> QED BY <1>0, <3>2 DEF AbstractNext, Abstract!Next
  <2>4. CASE ~auto[c]
    <3>1. OpenTxn[c] = t
      BY <1>0, <2>1, <2>4, OwnTransaction DEF OpenTxn
    <3>2. Abstract!Put(t, c)
      BY <2>1, <2>2, <2>4, <3>1 DEF Abstract!Put, Insert
    <3> QED BY <1>0, <3>2 DEF AbstractNext, Abstract!Next
  <2> QED BY <2>3, <2>4
<1>6. CASE BodyThrows(t)
  <2>1. pc[t] = "body" /\ Unlock(t)
    BY <1>6 DEF BodyThrows
  <2>2. CASE UNCHANGED dbVars
    BY <1>3, <2>1, <2>2, Stutters DEF dbVars
  <2>3. CASE ~auto[c] /\ Restore(c)
    <3>1. writer[c] = t
      BY <2>1, <2>3, OwnTransaction
    <3> QED BY <1>0, <2>3, <3>1, RestoreIsRollback DEF SingleConnection
  <2> QED BY <1>6, <2>2, <2>3 DEF BodyThrows
<1>7. CASE BeginOk(t)
  <2>1. OpenTxn[c] = NoThread /\ OpenTxn' = [OpenTxn EXCEPT ![c] = t]
    BY <1>0, <1>7 DEF BeginOk, OpenTxn, TypeOK
  <2>2. Abstract!Begin(t, c)
    BY <1>7, <2>1 DEF BeginOk, Abstract!Begin
  <2> QED BY <1>0, <2>2 DEF AbstractNext, Abstract!Next
<1> QED BY <1>1, <1>2, <1>4, <1>5, <1>6, <1>7 DEF Step

LEMMA RefinesNext ==
  ASSUME SingleConnection, IInv, [Next]_vars PROVE AbstractNext
<1>0. TypeOK
  BY DEF IInv
<1>1. CASE UNCHANGED vars
  BY <1>1, Stutters DEF vars, mutexVars, dbVars
<1>2. ASSUME NEW t \in Threads, Step(t) PROVE AbstractNext
  BY <1>2, RefinesStep
<1>3. ASSUME NEW t \in Threads, NEW c \in Connections, NEW o \in Ops, Invoke(t, c, o)
      PROVE  AbstractNext
  BY <1>3, Stutters DEF Invoke, mutexVars, dbVars
<1>4. ASSUME NEW t \in Threads, NEW c \in Connections, Commit(t, c) PROVE AbstractNext
  <2>1. ~auto[c] /\ writer[c] = t
    BY <1>4 DEF Commit, Executes, IInv, FlagInv
  <2>2. OpenTxn[c] = t /\ OpenTxn' = [OpenTxn EXCEPT ![c] = NoThread]
    BY <1>0, <1>4, <2>1 DEF Commit, OpenTxn, TypeOK, mutexVars
  <2>3. Abstract!Commit(t, c)
    BY <1>4, <2>2 DEF Commit, Abstract!Commit
  <2> QED BY <2>3 DEF AbstractNext, Abstract!Next
<1>5. ASSUME NEW t \in Threads, NEW c \in Connections, Rollback(t, c) PROVE AbstractNext
  <2>1. ~auto[c] /\ writer[c] = t
    BY <1>5 DEF Rollback, Executes, IInv, FlagInv
  <2> QED BY <1>0, <1>5, <2>1, RestoreIsRollback DEF Rollback, mutexVars
<1>6. ASSUME NEW t \in Threads, NEW c \in Connections, End(t, c) PROVE AbstractNext
  <2>1. writer[c] = t /\ inTx[t]
    BY <1>6 DEF End, IInv, FlagInv
  <2>2. CASE tx[t][c] = "active" /\ Executes(t, c)
    BY <1>0, <1>6, <2>1, <2>2, RestoreIsRollback DEF End, Executes, SingleConnection
  <2>3. CASE ~(tx[t][c] = "active" /\ Executes(t, c))
    <3>1. auto[c]
      BY <2>1, <2>3 DEF Executes, ShouldLock, IInv, FlagInv, AutoInv
    <3> QED BY <1>6, <2>3, <3>1, Stutters DEF End, SingleConnection, dbVars
  <2> QED BY <2>2, <2>3
<1> QED BY <1>1, <1>2, <1>3, <1>4, <1>5, <1>6 DEF Next

(* Threads that share one connection see a store whose transactions are     *)
(* atomic and serial, with failed statements, commits and begins included.  *)
THEOREM Implementation == ASSUME SingleConnection PROVE Spec => ImplementsTxStore
<1>1. IInv /\ [Next]_vars => AbstractNext
  BY RefinesNext
<1> QED BY RefinesInit, Invariance, <1>1, PTL
        DEF Spec, ImplementsTxStore, Abstract!Spec, AbstractNext
=============================================================================
