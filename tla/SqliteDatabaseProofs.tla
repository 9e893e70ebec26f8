------------------------- MODULE SqliteDatabaseProofs -------------------------
(***************************************************************************)
(* Proofs about SqliteDatabase, for any number of threads and shutdowns.   *)
(*                                                                         *)
(* What makes its properties inductive: who holds the mutex and where the  *)
(* holder is, that a thread which opens or closes a connection has it for  *)
(* itself, that users[s] are the threads that keep s alive, that a weak    *)
(* pointer which can be locked leads to a connection in use, and that all  *)
(* connections in use but that one are left over from shutdowns.           *)
(***************************************************************************)
EXTENDS SqliteDatabase, FiniteSetTheorems, TLAPS

Opening  == {"open"} \cup Pragmas \cup {"publish"}
Keeping  == Pragmas \cup {"publish", "using"}

Holder ==
    \A t \in Threads :
        /\ pc[t] \in Opening => mutex = t /\ weak = Nothing
        /\ mutex = t => pc[t] \in Opening \cup {"closing"}

Slotted ==
    \A t \in Threads :
        /\ pc[t] \in {"idle", "checked", "open"} <=> slot[t] = Nothing
        /\ \A s \in Slots : t \in users[s] <=> (slot[t] = s /\ pc[t] \in Keeping)
        /\ \A u \in Threads :
              slot[t] = slot[u] /\ slot[t] # Nothing /\ t # u => pc[t] = "using"

Lockable ==
    weak # Nothing => users[weak] # {} /\ \A t \in Threads : slot[t] = weak => pc[t] = "using"

Configured ==
    \A t \in Threads :
        /\ pc[t] = "journal_mode" => "foreign_keys" \in pragmas[slot[t]]
        /\ pc[t] = "busy_timeout" => {"foreign_keys", "journal_mode"} \subseteq pragmas[slot[t]]
        /\ pc[t] \in {"publish", "using"} => pragmas[slot[t]] = Pragmas

Bounded == owner = "stopping" => shutdowns < MaxShutdowns

IInv == TypeOK /\ Bounded /\ Holder /\ Slotted /\ Lockable /\ Configured

LEMMA Initial == Init => IInv
BY NothingAssumption, MaxShutdownsAssumption
DEF Init, IInv, TypeOK, Bounded, Holder, Slotted, Lockable, Configured, PCs, Opening, Keeping, Pragmas

LEMMA TypeStep == ASSUME IInv, Next PROVE TypeOK'
<1> USE NothingAssumption, MaxShutdownsAssumption
    DEF IInv, TypeOK, Bounded, Slotted, PCs, Pragmas
<1>1. CASE \E t \in Threads : Call(t)
  BY <1>1 DEF Call, Goto
<1>2. CASE \E t \in Threads : Reuse(t)
  BY <1>2 DEF Reuse, MutexFree, Goto
<1>3. CASE \E t \in Threads : NothingToReuse(t)
  BY <1>3 DEF NothingToReuse, MutexFree, Goto
<1>4. CASE \E t \in Threads : Open(t)
  BY <1>4 DEF Open, InSlot, Goto
<1>5. CASE \E t \in Threads : OpenThrows(t)
  BY <1>5 DEF OpenThrows, Goto
<1>6. CASE \E t \in Threads : Pragma(t)
  BY <1>6 DEF Pragma, After, Goto
<1>7. CASE \E t \in Threads : PragmaThrows(t)
  BY <1>7 DEF PragmaThrows, Goto
<1>8. CASE \E t \in Threads : Publish(t)
  BY <1>8 DEF Publish, Goto
<1>9. CASE \E t \in Threads : ReleaseLast(t)
  BY <1>9 DEF ReleaseLast, Goto
<1>10. CASE \E t \in Threads : ReleaseShared(t)
  BY <1>10 DEF ReleaseShared, Goto
<1>11. CASE \E t \in Threads : Close(t)
  BY <1>11 DEF Close, Goto
<1>12. CASE ShutdownFlag
  BY <1>12 DEF ShutdownFlag
<1>13. CASE ShutdownReset
  BY <1>13 DEF ShutdownReset
<1>14. CASE Initialize
  BY <1>14 DEF Initialize
<1>15. QED
  BY <1>1, <1>2, <1>3, <1>4, <1>5, <1>6, <1>7, <1>8, <1>9, <1>10, <1>11, <1>12, <1>13, <1>14
  DEF Next, Step

LEMMA BoundedStep == ASSUME IInv, Next PROVE Bounded'
<1> USE DEF IInv, TypeOK, Bounded
<1>1. CASE \E t \in Threads : Call(t)
  BY <1>1 DEF Call, Goto
<1>2. CASE \E t \in Threads : Reuse(t)
  BY <1>2 DEF Reuse, MutexFree, Goto
<1>3. CASE \E t \in Threads : NothingToReuse(t)
  BY <1>3 DEF NothingToReuse, MutexFree, Goto
<1>4. CASE \E t \in Threads : Open(t)
  BY <1>4 DEF Open, InSlot, Goto
<1>5. CASE \E t \in Threads : OpenThrows(t)
  BY <1>5 DEF OpenThrows, Goto
<1>6. CASE \E t \in Threads : Pragma(t)
  BY <1>6 DEF Pragma, After, Goto
<1>7. CASE \E t \in Threads : PragmaThrows(t)
  BY <1>7 DEF PragmaThrows, Goto
<1>8. CASE \E t \in Threads : Publish(t)
  BY <1>8 DEF Publish, Goto
<1>9. CASE \E t \in Threads : ReleaseLast(t)
  BY <1>9 DEF ReleaseLast, Goto
<1>10. CASE \E t \in Threads : ReleaseShared(t)
  BY <1>10 DEF ReleaseShared, Goto
<1>11. CASE \E t \in Threads : Close(t)
  BY <1>11 DEF Close, Goto
<1>12. CASE ShutdownFlag
  BY <1>12 DEF ShutdownFlag
<1>13. CASE ShutdownReset
  BY <1>13 DEF ShutdownReset
<1>14. CASE Initialize
  BY <1>14 DEF Initialize
<1>15. QED
  BY <1>1, <1>2, <1>3, <1>4, <1>5, <1>6, <1>7, <1>8, <1>9, <1>10, <1>11, <1>12, <1>13, <1>14
  DEF Next, Step

LEMMA HolderStep == ASSUME IInv, Next PROVE Holder'
<1> USE NothingAssumption DEF IInv, TypeOK, Holder, Slotted, Opening, Pragmas
<1>1. CASE \E t \in Threads : Call(t)
  BY <1>1 DEF Call, Goto
<1>2. CASE \E t \in Threads : Reuse(t)
  BY <1>2 DEF Reuse, MutexFree, Goto
<1>3. CASE \E t \in Threads : NothingToReuse(t)
  BY <1>3 DEF NothingToReuse, MutexFree, Goto
<1>4. CASE \E t \in Threads : Open(t)
  BY <1>4 DEF Open, InSlot, Goto
<1>5. CASE \E t \in Threads : OpenThrows(t)
  BY <1>5 DEF OpenThrows, Goto
<1>6. CASE \E t \in Threads : Pragma(t)
  BY <1>6 DEF Pragma, After, Goto
<1>7. CASE \E t \in Threads : PragmaThrows(t)
  BY <1>7 DEF PragmaThrows, Goto
<1>8. CASE \E t \in Threads : Publish(t)
  BY <1>8 DEF Publish, Goto
<1>9. CASE \E t \in Threads : ReleaseLast(t)
  BY <1>9 DEF ReleaseLast, Goto
<1>10. CASE \E t \in Threads : ReleaseShared(t)
  BY <1>10 DEF ReleaseShared, Goto
<1>11. CASE \E t \in Threads : Close(t)
  BY <1>11 DEF Close, Goto
<1>12. CASE ShutdownFlag
  BY <1>12 DEF ShutdownFlag
<1>13. CASE ShutdownReset
  BY <1>13 DEF ShutdownReset
<1>14. CASE Initialize
  BY <1>14 DEF Initialize
<1>15. QED
  BY <1>1, <1>2, <1>3, <1>4, <1>5, <1>6, <1>7, <1>8, <1>9, <1>10, <1>11, <1>12, <1>13, <1>14
  DEF Next, Step

LEMMA SlottedStep == ASSUME IInv, Next PROVE Slotted'
<1> USE NothingAssumption DEF IInv, TypeOK, Slotted, Lockable, Opening, Keeping, Pragmas
<1>1. CASE \E t \in Threads : Call(t)
  BY <1>1 DEF Call, Goto
<1>2. CASE \E t \in Threads : Reuse(t)
  BY <1>2 DEF Reuse, MutexFree, Goto
<1>3. CASE \E t \in Threads : NothingToReuse(t)
  BY <1>3 DEF NothingToReuse, MutexFree, Goto
<1>4. CASE \E t \in Threads : Open(t)
  BY <1>4 DEF Open, InSlot, Goto
<1>5. CASE \E t \in Threads : OpenThrows(t)
  BY <1>5 DEF OpenThrows, Goto
<1>6. CASE \E t \in Threads : Pragma(t)
  BY <1>6 DEF Pragma, After, Goto
<1>7. CASE \E t \in Threads : PragmaThrows(t)
  BY <1>7 DEF PragmaThrows, Goto
<1>8. CASE \E t \in Threads : Publish(t)
  BY <1>8 DEF Publish, Goto
<1>9. CASE \E t \in Threads : ReleaseLast(t)
  BY <1>9 DEF ReleaseLast, Goto
<1>10. CASE \E t \in Threads : ReleaseShared(t)
  BY <1>10 DEF ReleaseShared, Goto
<1>11. CASE \E t \in Threads : Close(t)
  BY <1>11 DEF Close, Goto
<1>12. CASE ShutdownFlag
  BY <1>12 DEF ShutdownFlag
<1>13. CASE ShutdownReset
  BY <1>13 DEF ShutdownReset
<1>14. CASE Initialize
  BY <1>14 DEF Initialize
<1>15. QED
  BY <1>1, <1>2, <1>3, <1>4, <1>5, <1>6, <1>7, <1>8, <1>9, <1>10, <1>11, <1>12, <1>13, <1>14
  DEF Next, Step

LEMMA LockableStep == ASSUME IInv, Next PROVE Lockable'
<1> USE NothingAssumption DEF IInv, TypeOK, Holder, Slotted, Lockable, Opening, Keeping, Pragmas
<1>1. CASE \E t \in Threads : Call(t)
  BY <1>1 DEF Call, Goto
<1>2. CASE \E t \in Threads : Reuse(t)
  BY <1>2 DEF Reuse, MutexFree, Goto
<1>3. CASE \E t \in Threads : NothingToReuse(t)
  BY <1>3 DEF NothingToReuse, MutexFree, Goto
<1>4. CASE \E t \in Threads : Open(t)
  BY <1>4 DEF Open, InSlot, Goto
<1>5. CASE \E t \in Threads : OpenThrows(t)
  BY <1>5 DEF OpenThrows, Goto
<1>6. CASE \E t \in Threads : Pragma(t)
  BY <1>6 DEF Pragma, After, Goto
<1>7. CASE \E t \in Threads : PragmaThrows(t)
  BY <1>7 DEF PragmaThrows, Goto
<1>8. CASE \E t \in Threads : Publish(t)
  BY <1>8 DEF Publish, Goto
<1>9. CASE \E t \in Threads : ReleaseLast(t)
  BY <1>9 DEF ReleaseLast, Goto
<1>10. CASE \E t \in Threads : ReleaseShared(t)
  BY <1>10 DEF ReleaseShared, Goto
<1>11. CASE \E t \in Threads : Close(t)
  BY <1>11 DEF Close, Goto
<1>12. CASE ShutdownFlag
  BY <1>12 DEF ShutdownFlag
<1>13. CASE ShutdownReset
  BY <1>13 DEF ShutdownReset
<1>14. CASE Initialize
  BY <1>14 DEF Initialize
<1>15. QED
  BY <1>1, <1>2, <1>3, <1>4, <1>5, <1>6, <1>7, <1>8, <1>9, <1>10, <1>11, <1>12, <1>13, <1>14
  DEF Next, Step

LEMMA ConfiguredStep == ASSUME IInv, Next PROVE Configured'
<1> USE NothingAssumption DEF IInv, TypeOK, Slotted, Lockable, Configured, Opening, Keeping, Pragmas
<1>1. CASE \E t \in Threads : Call(t)
  BY <1>1 DEF Call, Goto
<1>2. CASE \E t \in Threads : Reuse(t)
  BY <1>2 DEF Reuse, MutexFree, Goto
<1>3. CASE \E t \in Threads : NothingToReuse(t)
  BY <1>3 DEF NothingToReuse, MutexFree, Goto
<1>4. CASE \E t \in Threads : Open(t)
  BY <1>4 DEF Open, InSlot, Goto
<1>5. CASE \E t \in Threads : OpenThrows(t)
  BY <1>5 DEF OpenThrows, Goto
<1>6. CASE \E t \in Threads : Pragma(t)
  BY <1>6 DEF Pragma, After, Goto
<1>7. CASE \E t \in Threads : PragmaThrows(t)
  BY <1>7 DEF PragmaThrows, Goto
<1>8. CASE \E t \in Threads : Publish(t)
  BY <1>8 DEF Publish, Goto
<1>9. CASE \E t \in Threads : ReleaseLast(t)
  BY <1>9 DEF ReleaseLast, Goto
<1>10. CASE \E t \in Threads : ReleaseShared(t)
  BY <1>10 DEF ReleaseShared, Goto
<1>11. CASE \E t \in Threads : Close(t)
  BY <1>11 DEF Close, Goto
<1>12. CASE ShutdownFlag
  BY <1>12 DEF ShutdownFlag
<1>13. CASE ShutdownReset
  BY <1>13 DEF ShutdownReset
<1>14. CASE Initialize
  BY <1>14 DEF Initialize
<1>15. QED
  BY <1>1, <1>2, <1>3, <1>4, <1>5, <1>6, <1>7, <1>8, <1>9, <1>10, <1>11, <1>12, <1>13, <1>14
  DEF Next, Step

--------------------------------------------------------------------------------
(* The connections left over from shutdowns.                               *)
Left   == {s \in Slots : Using(s) # {}} \ {weak}
FewLeft == Cardinality(Left) <= shutdowns

LEMMA OneMore ==
    ASSUME NEW S, NEW x, IsFiniteSet(S)
    PROVE  /\ IsFiniteSet(S \cup {x}) /\ Cardinality(S) \in Nat
           /\ Cardinality(S \cup {x}) \in Nat /\ Cardinality(S \cup {x}) <= Cardinality(S) + 1
<1>1. Cardinality(S) \in Nat
  BY FS_CardinalityType
<1>2. IsFiniteSet(S \cup {x})
  BY FS_AddElement
<1>3. Cardinality(S \cup {x}) = Cardinality(S) \/ Cardinality(S \cup {x}) = Cardinality(S) + 1
  BY FS_AddElement
<1>4. QED
  BY <1>1, <1>2, <1>3

LEMMA FewLeftInit == Init => FewLeft
<1> SUFFICES ASSUME Init PROVE FewLeft
  OBVIOUS
<1>1. Left = {}
  BY DEF Init, Left, Using
<1>2. QED
  BY <1>1, FS_EmptySet DEF FewLeft, Init

LEMMA FewLeftStep == ASSUME IInv, FewLeft, Next PROVE FewLeft'
<1> IsFiniteSet(Left)
  BY SlotsAssumption, FS_Subset DEF Left
<1>1. CASE ShutdownReset
  <2>1. Left' \subseteq Left \cup {weak}
    BY <1>1 DEF ShutdownReset, Left, Using
  <2>2. IsFiniteSet(Left \cup {weak}) /\ Cardinality(Left \cup {weak}) <= Cardinality(Left) + 1
    BY OneMore
  <2>3. Cardinality(Left') <= Cardinality(Left) + 1
    BY <2>1, <2>2, FS_Subset, FS_CardinalityType
  <2>4. QED
    BY <1>1, <2>3, FS_CardinalityType, FS_Subset, <2>1, <2>2 DEF ShutdownReset, FewLeft, IInv, TypeOK
<1>2. ASSUME Left' \subseteq Left, shutdowns' = shutdowns
      PROVE  FewLeft'
  <2>1. Cardinality(Left') <= Cardinality(Left) /\ Cardinality(Left) \in Nat /\ Cardinality(Left') \in Nat
    BY <1>2, FS_Subset, FS_CardinalityType
  <2>2. QED
    BY <1>2, <2>1 DEF FewLeft, IInv, TypeOK
<1>3. CASE \E t \in Threads : Step(t) \/ Call(t)
  <2>1. Left' \subseteq Left
    <3> SUFFICES ASSUME NEW s \in Slots, Using(s)' # {}, s # weak'
                 PROVE  Using(s) # {} /\ s # weak
      BY DEF Left
    <3> USE NothingAssumption DEF IInv, TypeOK, Holder, Slotted, Lockable, Using, Goto, Opening,
                                  Keeping, Pragmas
    <3>1. CASE \E t \in Threads : Call(t)
      BY <3>1 DEF Call
    <3>2. CASE \E t \in Threads : Reuse(t)
      BY <3>2 DEF Reuse
    <3>3. CASE \E t \in Threads : NothingToReuse(t) \/ OpenThrows(t)
      BY <3>3 DEF NothingToReuse, OpenThrows
    <3>4. CASE \E t \in Threads : Open(t)
      BY <3>4 DEF Open
    <3>5. CASE \E t \in Threads : Pragma(t) \/ PragmaThrows(t)
      BY <3>5 DEF Pragma, PragmaThrows, After
    <3>6. CASE \E t \in Threads : Publish(t)
      BY <3>6 DEF Publish
    <3>7. CASE \E t \in Threads : ReleaseLast(t)
      BY <3>7 DEF ReleaseLast
    <3>8. CASE \E t \in Threads : ReleaseShared(t)
      BY <3>8 DEF ReleaseShared
    <3>9. CASE \E t \in Threads : Close(t)
      BY <3>9 DEF Close
    <3>10. QED
      BY <1>3, <3>1, <3>2, <3>3, <3>4, <3>5, <3>6, <3>7, <3>8, <3>9 DEF Step
  <2>2. shutdowns' = shutdowns
    BY <1>3 DEF Step, Call, Reuse, NothingToReuse, Open, OpenThrows, Pragma, PragmaThrows,
                Publish, ReleaseLast, ReleaseShared, Close
  <2>3. QED
    BY <1>2, <2>1, <2>2
<1>4. CASE ShutdownFlag \/ Initialize
  BY <1>2, <1>4 DEF ShutdownFlag, Initialize, Left, Using
<1>5. QED
  BY <1>1, <1>3, <1>4 DEF Next

--------------------------------------------------------------------------------
(* The inductive invariant holds of every behaviour.                       *)
THEOREM Invariance == Spec => [](IInv /\ FewLeft)
<1>1. Init => IInv /\ FewLeft
  BY Initial, FewLeftInit
<1>2. IInv /\ FewLeft /\ [Next]_vars => (IInv /\ FewLeft)'
  <2> SUFFICES ASSUME IInv, FewLeft, [Next]_vars PROVE IInv' /\ FewLeft'
    OBVIOUS
  <2>1. CASE Next
    BY <2>1, TypeStep, BoundedStep, HolderStep, SlottedStep, LockableStep, ConfiguredStep,
       FewLeftStep DEF IInv
  <2>2. CASE UNCHANGED vars
    BY <2>2 DEF vars, IInv, TypeOK, Bounded, Holder, Slotted, Lockable, Configured, FewLeft, Left,
                Using
  <2>3. QED
    BY <2>1, <2>2
<1>3. QED
  BY <1>1, <1>2, PTL DEF Spec

(* Every variable keeps to its values; in particular the calls of          *)
(* shutdown() keep to their bound.                                         *)
THEOREM TypeCorrect == Spec => []TypeOK
<1>1. IInv => TypeOK
  BY DEF IInv
<1>2. QED
  BY <1>1, Invariance, PTL

(* sqlite_database.cpp: however many threads call connection() and however *)
(* often it fails while opening, at most one connection is in use beside   *)
(* those left over from a shutdown().                                      *)
THEOREM OneConnection == Spec => []FewActive
<1>1. IInv /\ FewLeft => FewActive
  <2> SUFFICES ASSUME IInv, FewLeft PROVE FewActive
    OBVIOUS
  <2> DEFINE Active == {s \in Slots : Using(s) # {}}
  <2>1. IsFiniteSet(Left) /\ IsFiniteSet(Active)
    BY SlotsAssumption, FS_Subset DEF Left
  <2>2. Active \subseteq Left \cup {weak}
    BY DEF Left
  <2>3. IsFiniteSet(Left \cup {weak}) /\ Cardinality(Left \cup {weak}) <= Cardinality(Left) + 1
    BY <2>1, OneMore
  <2>4. Cardinality(Active) <= Cardinality(Left \cup {weak})
    BY <2>2, <2>3, FS_Subset
  <2>5. /\ Cardinality(Active) \in Nat /\ Cardinality(Left) \in Nat
        /\ Cardinality(Left \cup {weak}) \in Nat
    BY <2>1, <2>3, FS_CardinalityType
  <2>6. QED
    BY <2>3, <2>4, <2>5 DEF FewLeft, FewActive, IInv, TypeOK
<1>2. QED
  BY <1>1, Invariance, PTL

(* sqlite_database.cpp: no thread works with a connection that has not     *)
(* executed every PRAGMA, foreign_keys among them, or that it does not     *)
(* keep alive.                                                             *)
THEOREM Configuration == Spec => []HandedOutConfigured
<1>1. IInv => HandedOutConfigured
  BY NothingAssumption DEF IInv, TypeOK, Configured, Slotted, Keeping, HandedOutConfigured
<1>2. QED
  BY <1>1, Invariance, PTL

(* sqlite_database.cpp: whatever the order in which threads let go of a    *)
(* connection, the one that closes it is the last.                         *)
THEOREM ClosedLast == Spec => []NotClosedInUse
<1>1. IInv => NotClosedInUse
  BY NothingAssumption DEF IInv, TypeOK, Slotted, NotClosedInUse, Closing, Using
<1>2. QED
  BY <1>1, Invariance, PTL

================================================================================
