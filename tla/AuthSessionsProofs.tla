-------------------------- MODULE AuthSessionsProofs --------------------------
(***************************************************************************)
(* What AuthSessions keeps, for any users, threads, passwords and times.   *)
(*                                                                         *)
(* InvalidStaysOut is not inductive.  A thread that came in with a token   *)
(* already logged out is stopped by one of two checks, at two readings of  *)
(* the clock: at the first the token is still on the list, or has expired  *)
(* and then stays so until the second.  That it is still on the list is    *)
(* BlacklistKeeps, which in turn needs that a sweep uses a time that has   *)
(* passed (SweepsLate) and that a logout under way has its token listed.   *)
(*                                                                         *)
(* Sessions needs the moment at which a request's token was good: it is    *)
(* the look into the list, if the token has not expired by then.           *)
(***************************************************************************)
EXTENDS AuthSessions, TLAPS

Guarded == Changes \cup EditCalls

(* The requests that make a step.                                           *)
Flow ==
    \A t \in Threads :
        /\ pc[t] \in LoginPCs => req[t] \in Logins
        /\ pc[t] \in LogoutPCs => req[t] \in Logouts /\ req[t].token \in issued
        /\ pc[t] \in GuardPCs => req[t] \in Guarded
        /\ pc[t] = "edit" => req[t] \in EditCalls
        /\ pc[t] \in HandlerPCs \ {"edit"} => req[t] \in Changes

SweepsLate == \A t \in Threads : seen[t] <= clock

Listed(k) == Expired(k) \/ k \in blacklist

(* A logout past its critical section has its token on the list.            *)
LogoutsListed == \A t \in Threads : pc[t] \in {"sweep", "erase"} => Listed(req[t].token)

(* What stops a request whose token is no good any more.                    *)
LateStopped ==
    \A t \in late :
        /\ pc[t] \in LogoutPCs \cup GuardPCs
        /\ pc[t] = "listed" => req[t].token \in out
        /\ pc[t] = "validate" => Expired(req[t].token)

OverdueStopped ==
    \A t \in overdue : pc[t] \in LogoutPCs \cup GuardPCs /\ Expired(req[t].token)

(* What a login or a change of password has seen of the row.                *)
Witnessed ==
    \A t \in Threads :
        /\ pc[t] \in {"issue", "store"} => t \in match
        /\ pc[t] \in {"password", "issue"} => t \in open

IInv == TypeOK /\ Flow /\ SweepsLate /\ LogoutsListed /\ BlacklistKeeps
          /\ LateStopped /\ OverdueStopped /\ Witnessed

(* For Sessions: whoever asks for a protected route shows a token that was  *)
(* handed out.                                                              *)
Presented == \A t \in Threads : pc[t] \in GuardPCs \cup HandlerPCs => req[t].token \in issued

PInv == IInv /\ Presented

-----------------------------------------------------------------------------
(* Time                                                                     *)

LEMMA DivMonotone ==
    ASSUME NEW a \in Nat, NEW b \in Nat, NEW d \in Nat \ {0}, a <= b
    PROVE  a \div d \in 0 .. (b \div d)
  BY SMT

LEMMA ExpNat ==
    ASSUME NEW k \in Tokens
    PROVE  Exp(k) \in Nat
  BY TimeAssumption DEF Exp, Tokens

(* What has expired stays so.                                               *)
LEMMA StaysExpired ==
    ASSUME NEW k \in Tokens, clock \in Nat, clock' \in Nat, clock <= clock', Expired(k)
    PROVE  Expired(k)'
  <1>1. Exp(k)' = Exp(k)
    BY DEF Exp
  <1> QED
    BY <1>1, ExpNat DEF Expired

(* A sweep or a check of the list drops only what has expired.              *)
LEMMA DropsExpired ==
    ASSUME NEW now \in Nat, NEW k \in Tokens, clock \in Nat, now <= clock, k \in Erased(now)
    PROVE  Expired(k)
  BY ExpNat DEF Erased, Expired

-----------------------------------------------------------------------------
(* Requests                                                                 *)

LEMMA RequestTokens ==
    ASSUME NEW r \in Requests
    PROVE  /\ r.kind \in {"login", "logout", "change", "edit"}
           /\ r.kind = "login" => r \in Logins
           /\ r.kind = "logout" => r \in Logouts
           /\ r.kind \in {"change", "edit"} => r \in Guarded
           /\ r.kind # "login" => r.token \in Tokens
  BY DEF Requests, Logins, Logouts, Changes, EditCalls, Guarded

LEMMA FirstSteps ==
    ASSUME NEW r \in Requests
    PROVE  /\ r.kind = "login" => FirstStep[r.kind] = "findByLogin"
           /\ r.kind = "logout" => FirstStep[r.kind] = "verify"
           /\ r.kind \in {"change", "edit"} => FirstStep[r.kind] = "listed"
  BY DEF FirstStep

(* Observe only adds what is so now to what was so before.                  *)
LEMMA ObserveKeeps ==
    ASSUME Observe, NEW t \in Threads, pc'[t] # "idle", req'[t].kind \in {"login", "change"}
    PROVE  /\ (t \in open \/ Opens(t)') => t \in open'
           /\ (t \in match \/ Matches(t)') => t \in match'
  BY DEF Observe, Claims

LEMMA ObserveTypes ==
    ASSUME Observe
    PROVE  open' \subseteq Threads /\ match' \subseteq Threads
  BY DEF Observe, Claims

-----------------------------------------------------------------------------
(* Steps of a request                                                       *)

(* Types of what belongs to a thread.                                       *)
ThreadTypes ==
    /\ pc \in [Threads -> PCs]
    /\ req \in [Threads -> Requests \cup {NoRequest}]
    /\ seen \in [Threads -> 0..MaxClock]
    /\ out \subseteq issued /\ forgotten \subseteq issued
    /\ late \subseteq Threads /\ revived \subseteq Threads /\ overdue \subseteq Threads

LEMMA KindAt ==
    ASSUME Flow, NEW t \in Threads, pc[t] \in PCs \ {"idle"}
    PROVE  req[t].kind = "logout" => req[t].token \in issued
  BY DEF Flow, PCs, LoginPCs, LogoutPCs, GuardPCs, HandlerPCs, Logins, Guarded, Changes, EditCalls

LEMMA ReplyTypes ==
    ASSUME TypeOK, Flow, NEW t \in Threads, pc[t] # "idle", Reply(t), issued \subseteq issued'
    PROVE  ThreadTypes'
  <1>1. req[t].kind = "logout" => req[t].token \in issued
    BY KindAt DEF TypeOK
  <1>2. out' \subseteq issued'
    BY <1>1 DEF TypeOK, Reply
  <1>3. 0 \in 0..MaxClock
    BY TimeAssumption
  <1>4. pc' \in [Threads -> PCs] /\ req' \in [Threads -> Requests \cup {NoRequest}]
    BY DEF TypeOK, Reply, PCs
  <1>5. seen' \in [Threads -> 0..MaxClock]
    BY <1>3 DEF TypeOK, Reply
  <1> QED
    BY <1>2, <1>4, <1>5 DEF TypeOK, Reply, ThreadTypes

LEMMA ToTypes ==
    ASSUME TypeOK, NEW t \in Threads, NEW p \in PCs, To(t, p), issued \subseteq issued'
    PROVE  ThreadTypes'
  BY DEF TypeOK, To, pastVars, ThreadTypes

(* Types.                                                                   *)
LEMMA TypeOKStep ==
    ASSUME IInv, NEW t \in Threads, Step(t)
    PROVE  TypeOK'
  <1> USE DEF IInv, TypeOK, ThreadTypes, PCs, LoginPCs, LogoutPCs, GuardPCs, HandlerPCs
  <1>1. CASE FindByLogin(t)
    BY ObserveTypes, ReplyTypes, ToTypes, <1>1 DEF FindByLogin
  <1>2. CASE CheckPassword(t)
    BY ObserveTypes, ReplyTypes, ToTypes, <1>2 DEF CheckPassword
  <1>3. CASE GenerateToken(t)
    <2>1. [user |-> UserOf(t), iat |-> clock \div Ticks] \in Tokens
      BY <1>3, DivMonotone, TimeAssumption DEF GenerateToken, UserOf, Tokens, Flow, Logins
    <2>2. issued' \subseteq Tokens /\ issued \subseteq issued'
      BY <1>3, <2>1 DEF GenerateToken
    <2> QED
      BY <1>3, <2>2, ObserveTypes, ReplyTypes DEF GenerateToken
  <1>4. CASE VerifyForLogout(t)
    BY ObserveTypes, ReplyTypes, ToTypes, <1>4 DEF VerifyForLogout
  <1>5. CASE Insert(t)
    BY ObserveTypes, ReplyTypes, ToTypes, <1>5 DEF Insert, Flow
  <1>6. CASE Sweep(t)
    BY ObserveTypes, <1>6 DEF Sweep, pastVars
  <1>7. CASE Erase(t)
    BY ObserveTypes, ReplyTypes, <1>7 DEF Erase, Erased
  <1>8. CASE IsTokenInvalidated(t)
    BY ObserveTypes, ReplyTypes, ToTypes, <1>8 DEF IsTokenInvalidated
  <1>9. CASE Validate(t)
    BY ObserveTypes, ReplyTypes, ToTypes, <1>9 DEF Validate, Handler
  <1>10. CASE FindById(t)
    BY ObserveTypes, ReplyTypes, ToTypes, <1>10 DEF FindById
  <1>11. CASE CheckOld(t)
    BY ObserveTypes, ReplyTypes, ToTypes, <1>11 DEF CheckOld
  <1>12. CASE UpdatePassword(t)
    BY ObserveTypes, ReplyTypes, ToTypes, <1>12 DEF UpdatePassword, Rows, Owner, Flow,
       Changes, Requests
  <1>13. CASE ClearFlag(t)
    <2>1. row' \in [Users -> Rows]
      BY <1>13 DEF ClearFlag, Rows
    <2> QED
      BY <1>13, <2>1, ObserveTypes, ReplyTypes DEF ClearFlag
  <1>14. CASE Edit(t)
    <2>1. UserOf(t) \in Users /\ req[t].edit \in Edits
      BY <1>14 DEF Edit, UserOf, Flow, EditCalls
    <2>2. Edited(row[UserOf(t)], req[t].edit) \in Rows
      BY <2>1, EditsAssumption DEF Edited, Rows
    <2>3. row' \in [Users -> Rows]
      BY <1>14, <2>1, <2>2 DEF Edit
    <2> QED
      BY <1>14, <2>3, ObserveTypes, ReplyTypes DEF Edit
  <1>15. CASE StatementFails(t)
    BY ObserveTypes, ReplyTypes, <1>15 DEF StatementFails
  <1> QED
    BY <1>1, <1>2, <1>3, <1>4, <1>5, <1>6, <1>7, <1>8, <1>9, <1>10, <1>11, <1>12, <1>13,
       <1>14, <1>15 DEF Step

(* Each step is made by its own requests.                                   *)
LEMMA FlowStep ==
    ASSUME IInv, NEW t \in Threads, Step(t)
    PROVE  Flow'
  <1> USE DEF IInv, TypeOK, Flow, To, Reply, pastVars, PCs, LoginPCs, LogoutPCs, GuardPCs,
     HandlerPCs, Logins, Logouts, Guarded, Changes, EditCalls
  <1>1. CASE FindByLogin(t)
    BY <1>1 DEF FindByLogin
  <1>2. CASE CheckPassword(t)
    BY <1>2 DEF CheckPassword
  <1>3. CASE GenerateToken(t)
    BY <1>3 DEF GenerateToken, UserOf
  <1>4. CASE VerifyForLogout(t)
    BY <1>4 DEF VerifyForLogout
  <1>5. CASE Insert(t)
    BY <1>5 DEF Insert
  <1>6. CASE Sweep(t)
    BY <1>6 DEF Sweep
  <1>7. CASE Erase(t)
    BY <1>7 DEF Erase
  <1>8. CASE IsTokenInvalidated(t)
    BY <1>8 DEF IsTokenInvalidated
  <1>9. CASE Validate(t)
    BY <1>9 DEF Validate, Handler
  <1>10. CASE FindById(t)
    BY <1>10 DEF FindById
  <1>11. CASE CheckOld(t)
    BY <1>11 DEF CheckOld
  <1>12. CASE UpdatePassword(t)
    BY <1>12 DEF UpdatePassword
  <1>13. CASE ClearFlag(t)
    BY <1>13 DEF ClearFlag
  <1>14. CASE Edit(t)
    BY <1>14 DEF Edit
  <1>15. CASE StatementFails(t)
    BY <1>15 DEF StatementFails
  <1> QED
    BY <1>1, <1>2, <1>3, <1>4, <1>5, <1>6, <1>7, <1>8, <1>9, <1>10, <1>11, <1>12, <1>13,
       <1>14, <1>15 DEF Step

(* A sweep uses a time that has passed.                                     *)
LEMMA SweepsLateStep ==
    ASSUME IInv, NEW t \in Threads, Step(t)
    PROVE  SweepsLate'
  <1> USE DEF IInv, TypeOK, SweepsLate, To, Reply, pastVars
  <1>1. CASE FindByLogin(t)
    BY <1>1 DEF FindByLogin
  <1>2. CASE CheckPassword(t)
    BY <1>2 DEF CheckPassword
  <1>3. CASE GenerateToken(t)
    BY <1>3 DEF GenerateToken
  <1>4. CASE VerifyForLogout(t)
    BY <1>4 DEF VerifyForLogout
  <1>5. CASE Insert(t)
    BY <1>5 DEF Insert
  <1>6. CASE Sweep(t)
    BY <1>6 DEF Sweep
  <1>7. CASE Erase(t)
    BY <1>7 DEF Erase
  <1>8. CASE IsTokenInvalidated(t)
    BY <1>8 DEF IsTokenInvalidated
  <1>9. CASE Validate(t)
    BY <1>9 DEF Validate
  <1>10. CASE FindById(t)
    BY <1>10 DEF FindById
  <1>11. CASE CheckOld(t)
    BY <1>11 DEF CheckOld
  <1>12. CASE UpdatePassword(t)
    BY <1>12 DEF UpdatePassword
  <1>13. CASE ClearFlag(t)
    BY <1>13 DEF ClearFlag
  <1>14. CASE Edit(t)
    BY <1>14 DEF Edit
  <1>15. CASE StatementFails(t)
    BY <1>15 DEF StatementFails
  <1> QED
    BY <1>1, <1>2, <1>3, <1>4, <1>5, <1>6, <1>7, <1>8, <1>9, <1>10, <1>11, <1>12, <1>13,
       <1>14, <1>15 DEF Step

(* What a logout has put on the list stays there while it matters.          *)
LEMMA LogoutsListedStep ==
    ASSUME IInv, NEW t \in Threads, Step(t)
    PROVE  LogoutsListed'
  <1> USE DEF IInv, TypeOK, Flow, LogoutsListed, Listed, Expired, To, Reply, pastVars,
     PCs, LoginPCs, LogoutPCs, GuardPCs, HandlerPCs
  <1>1. CASE FindByLogin(t)
    BY <1>1 DEF FindByLogin
  <1>2. CASE CheckPassword(t)
    BY <1>2 DEF CheckPassword
  <1>3. CASE GenerateToken(t)
    BY <1>3 DEF GenerateToken
  <1>4. CASE VerifyForLogout(t)
    BY <1>4 DEF VerifyForLogout
  <1>5. CASE Insert(t)
    BY <1>5 DEF Insert
  <1>6. CASE Sweep(t)
    BY <1>6 DEF Sweep
  <1>7. CASE Erase(t)
    BY ExpNat, <1>7 DEF Erase, Erased, SweepsLate
  <1>8. CASE IsTokenInvalidated(t)
    BY <1>8 DEF IsTokenInvalidated
  <1>9. CASE Validate(t)
    BY <1>9 DEF Validate, Handler
  <1>10. CASE FindById(t)
    BY <1>10 DEF FindById
  <1>11. CASE CheckOld(t)
    BY <1>11 DEF CheckOld
  <1>12. CASE UpdatePassword(t)
    BY <1>12 DEF UpdatePassword
  <1>13. CASE ClearFlag(t)
    BY <1>13 DEF ClearFlag
  <1>14. CASE Edit(t)
    BY <1>14 DEF Edit
  <1>15. CASE StatementFails(t)
    BY <1>15 DEF StatementFails
  <1> QED
    BY <1>1, <1>2, <1>3, <1>4, <1>5, <1>6, <1>7, <1>8, <1>9, <1>10, <1>11, <1>12, <1>13,
       <1>14, <1>15 DEF Step

(* So the list has every token whose logout was answered.                   *)
LEMMA BlacklistKeepsStep ==
    ASSUME IInv, NEW t \in Threads, Step(t)
    PROVE  BlacklistKeeps'
  <1> USE DEF IInv, TypeOK, Flow, BlacklistKeeps, LogoutsListed, Listed, Expired, To,
     Reply, pastVars, PCs, LoginPCs, LogoutPCs, GuardPCs, HandlerPCs, Logins, Logouts,
     Guarded, Changes, EditCalls
  <1>1. CASE FindByLogin(t)
    BY <1>1 DEF FindByLogin
  <1>2. CASE CheckPassword(t)
    BY <1>2 DEF CheckPassword
  <1>3. CASE GenerateToken(t)
    BY <1>3 DEF GenerateToken
  <1>4. CASE VerifyForLogout(t)
    BY <1>4 DEF VerifyForLogout
  <1>5. CASE Insert(t)
    BY <1>5 DEF Insert
  <1>6. CASE Sweep(t)
    BY <1>6 DEF Sweep
  <1>7. CASE Erase(t)
    BY ExpNat, <1>7 DEF Erase, Erased, SweepsLate
  <1>8. CASE IsTokenInvalidated(t)
    BY <1>8 DEF IsTokenInvalidated
  <1>9. CASE Validate(t)
    BY <1>9 DEF Validate, Handler
  <1>10. CASE FindById(t)
    BY <1>10 DEF FindById
  <1>11. CASE CheckOld(t)
    BY <1>11 DEF CheckOld
  <1>12. CASE UpdatePassword(t)
    BY <1>12 DEF UpdatePassword
  <1>13. CASE ClearFlag(t)
    BY <1>13 DEF ClearFlag
  <1>14. CASE Edit(t)
    BY <1>14 DEF Edit
  <1>15. CASE StatementFails(t)
    BY <1>15 DEF StatementFails
  <1> QED
    BY <1>1, <1>2, <1>3, <1>4, <1>5, <1>6, <1>7, <1>8, <1>9, <1>10, <1>11, <1>12, <1>13,
       <1>14, <1>15 DEF Step

(* A request with a token that was logged out.                              *)
LEMMA LateStoppedStep ==
    ASSUME IInv, NEW t \in Threads, Step(t)
    PROVE  LateStopped'
  <1> USE DEF IInv, TypeOK, Flow, LateStopped, BlacklistKeeps, Expired, To, Reply,
     pastVars, PCs, LoginPCs, LogoutPCs, GuardPCs, HandlerPCs
  <1>1. CASE FindByLogin(t)
    BY <1>1 DEF FindByLogin
  <1>2. CASE CheckPassword(t)
    BY <1>2 DEF CheckPassword
  <1>3. CASE GenerateToken(t)
    BY <1>3 DEF GenerateToken
  <1>4. CASE VerifyForLogout(t)
    BY <1>4 DEF VerifyForLogout
  <1>5. CASE Insert(t)
    BY <1>5 DEF Insert
  <1>6. CASE Sweep(t)
    BY <1>6 DEF Sweep
  <1>7. CASE Erase(t)
    BY <1>7 DEF Erase
  <1>8. CASE IsTokenInvalidated(t)
    BY <1>8 DEF IsTokenInvalidated
  <1>9. CASE Validate(t)
    BY <1>9 DEF Validate, Handler
  <1>10. CASE FindById(t)
    BY <1>10 DEF FindById
  <1>11. CASE CheckOld(t)
    BY <1>11 DEF CheckOld
  <1>12. CASE UpdatePassword(t)
    BY <1>12 DEF UpdatePassword
  <1>13. CASE ClearFlag(t)
    BY <1>13 DEF ClearFlag
  <1>14. CASE Edit(t)
    BY <1>14 DEF Edit
  <1>15. CASE StatementFails(t)
    BY <1>15 DEF StatementFails
  <1> QED
    BY <1>1, <1>2, <1>3, <1>4, <1>5, <1>6, <1>7, <1>8, <1>9, <1>10, <1>11, <1>12, <1>13,
       <1>14, <1>15 DEF Step

(* A request with an expired one.                                           *)
LEMMA OverdueStoppedStep ==
    ASSUME IInv, NEW t \in Threads, Step(t)
    PROVE  OverdueStopped'
  <1> USE DEF IInv, TypeOK, Flow, OverdueStopped, Expired, To, Reply, pastVars, PCs,
     LoginPCs, LogoutPCs, GuardPCs, HandlerPCs
  <1>1. CASE FindByLogin(t)
    BY <1>1 DEF FindByLogin
  <1>2. CASE CheckPassword(t)
    BY <1>2 DEF CheckPassword
  <1>3. CASE GenerateToken(t)
    BY <1>3 DEF GenerateToken
  <1>4. CASE VerifyForLogout(t)
    BY <1>4 DEF VerifyForLogout
  <1>5. CASE Insert(t)
    BY <1>5 DEF Insert
  <1>6. CASE Sweep(t)
    BY <1>6 DEF Sweep
  <1>7. CASE Erase(t)
    BY <1>7 DEF Erase
  <1>8. CASE IsTokenInvalidated(t)
    BY <1>8 DEF IsTokenInvalidated
  <1>9. CASE Validate(t)
    BY <1>9 DEF Validate, Handler
  <1>10. CASE FindById(t)
    BY <1>10 DEF FindById
  <1>11. CASE CheckOld(t)
    BY <1>11 DEF CheckOld
  <1>12. CASE UpdatePassword(t)
    BY <1>12 DEF UpdatePassword
  <1>13. CASE ClearFlag(t)
    BY <1>13 DEF ClearFlag
  <1>14. CASE Edit(t)
    BY <1>14 DEF Edit
  <1>15. CASE StatementFails(t)
    BY <1>15 DEF StatementFails
  <1> QED
    BY <1>1, <1>2, <1>3, <1>4, <1>5, <1>6, <1>7, <1>8, <1>9, <1>10, <1>11, <1>12, <1>13,
       <1>14, <1>15 DEF Step

(* What the statements of a login or a change of password have seen.        *)
LEMMA WitnessedStep ==
    ASSUME IInv, NEW t \in Threads, Step(t)
    PROVE  Witnessed'
  <1> USE DEF IInv, TypeOK, Flow, Witnessed, Observe, Claims, To, Reply, pastVars, PCs,
     LoginPCs, LogoutPCs, GuardPCs, HandlerPCs, Logins, Changes, Logouts, EditCalls
  <1>1. CASE FindByLogin(t)
    BY <1>1 DEF FindByLogin, Opens, Claimed, UserOf
  <1>2. CASE CheckPassword(t)
    BY <1>2 DEF CheckPassword, Matches, Claimed, Verified, UserOf
  <1>3. CASE GenerateToken(t)
    BY <1>3 DEF GenerateToken
  <1>4. CASE VerifyForLogout(t)
    BY <1>4 DEF VerifyForLogout
  <1>5. CASE Insert(t)
    BY <1>5 DEF Insert
  <1>6. CASE Sweep(t)
    BY <1>6 DEF Sweep
  <1>7. CASE Erase(t)
    BY <1>7 DEF Erase
  <1>8. CASE IsTokenInvalidated(t)
    BY <1>8 DEF IsTokenInvalidated
  <1>9. CASE Validate(t)
    BY <1>9 DEF Validate, Handler
  <1>10. CASE FindById(t)
    BY <1>10 DEF FindById
  <1>11. CASE CheckOld(t)
    BY <1>11 DEF CheckOld, Matches, Claimed, Verified, Owner
  <1>12. CASE UpdatePassword(t)
    BY <1>12 DEF UpdatePassword
  <1>13. CASE ClearFlag(t)
    BY <1>13 DEF ClearFlag
  <1>14. CASE Edit(t)
    BY <1>14 DEF Edit
  <1>15. CASE StatementFails(t)
    BY <1>15 DEF StatementFails
  <1> QED
    BY <1>1, <1>2, <1>3, <1>4, <1>5, <1>6, <1>7, <1>8, <1>9, <1>10, <1>11, <1>12, <1>13,
       <1>14, <1>15 DEF Step

-----------------------------------------------------------------------------
(* The other steps                                                          *)

LEMMA InitKeeps == Init => IInv
  <1> SUFFICES ASSUME Init PROVE IInv
    OBVIOUS
  <1>1. row \in [Users -> Rows]
    BY DEF Init, Rows
  <1>2. TypeOK
    BY <1>1, TimeAssumption DEF Init, TypeOK, PCs
  <1>3. \A t \in Threads : pc[t] = "idle" /\ seen[t] = clock
    BY DEF Init
  <1> QED
    BY <1>2, <1>3 DEF Init, IInv, TypeOK, Flow, SweepsLate, LogoutsListed, BlacklistKeeps, LateStopped,
       OverdueStopped, Witnessed, LoginPCs, LogoutPCs, GuardPCs, HandlerPCs

(* Time goes on: only what has expired may change, and it stays expired.    *)
LEMMA TickKeeps == IInv /\ Tick => IInv'
  <1> SUFFICES ASSUME IInv, Tick PROVE IInv'
    OBVIOUS
  <1> USE DEF IInv, Tick, serverVars, pastVars
  <1>1. \A k \in Tokens : Expired(k) => Expired(k)'
    BY StaysExpired DEF TypeOK
  <1>2. TypeOK'
    BY ObserveTypes, TimeAssumption DEF TypeOK
  <1>3. Flow' /\ SweepsLate'
    BY DEF TypeOK, Flow, SweepsLate
  <1>4. LogoutsListed'
    BY <1>1 DEF TypeOK, Flow, LogoutsListed, Listed, LogoutPCs
  <1>5. BlacklistKeeps'
    BY <1>1 DEF TypeOK, BlacklistKeeps
  <1>6. LateStopped' /\ OverdueStopped'
    <2>1. \A t \in late \cup overdue : pc[t] \in LogoutPCs \cup GuardPCs => req[t].token \in Tokens
      BY DEF TypeOK, Flow, Guarded, Changes, EditCalls
    <2> QED
      BY <1>1, <2>1 DEF TypeOK, LateStopped, OverdueStopped, GuardPCs
  <1>7. Witnessed'
    BY DEF TypeOK, Flow, Witnessed, Observe, Claims, LoginPCs, HandlerPCs, Logins, Changes
  <1> QED
    BY <1>2, <1>3, <1>4, <1>5, <1>6, <1>7

(* A restart forgets the list, and which logouts this run answered.         *)
LEMMA RestartKeeps == IInv /\ Restart => IInv'
  <1> SUFFICES ASSUME IInv, Restart PROVE IInv'
    OBVIOUS
  <1>1. TypeOK'
    BY ObserveTypes, TimeAssumption DEF IInv, TypeOK, Restart, PCs
  <1> QED
    BY <1>1 DEF IInv, TypeOK, Restart, Flow, SweepsLate, LogoutsListed, BlacklistKeeps, LateStopped,
       OverdueStopped, Witnessed, LoginPCs, LogoutPCs, GuardPCs, HandlerPCs

(* A request starts in front of the checks.                                 *)
LEMMA ArriveKeeps ==
    ASSUME IInv, NEW t \in Threads, NEW r \in Requests, Presentable(r), Arrive(t, r)
    PROVE  IInv'
  <1> USE RequestTokens, FirstSteps DEF IInv, Arrive
  <1> USE DEF PCs, LoginPCs, LogoutPCs, GuardPCs, HandlerPCs
  <1>1. TypeOK'
    BY ObserveTypes DEF TypeOK
  <1>2. Flow'
    BY DEF TypeOK, Flow, Presentable
  <1>3. SweepsLate' /\ BlacklistKeeps'
    BY DEF TypeOK, SweepsLate, BlacklistKeeps, Expired
  <1>4. LogoutsListed'
    BY DEF TypeOK, LogoutsListed, Listed, Expired
  <1>5. LateStopped'
    BY DEF TypeOK, LateStopped, Expired
  <1>6. OverdueStopped'
    BY DEF TypeOK, OverdueStopped, Expired
  <1>7. Witnessed'
    BY DEF TypeOK, Flow, Witnessed, Observe, Claims, Logins, Changes
  <1> QED
    BY <1>1, <1>2, <1>3, <1>4, <1>5, <1>6, <1>7

LEMMA StutterKeeps == IInv /\ UNCHANGED vars => IInv'
  BY DEF IInv, vars, serverVars, pastVars, TypeOK, Flow, SweepsLate, LogoutsListed, Listed,
     BlacklistKeeps, LateStopped, OverdueStopped, Witnessed, Expired

LEMMA NextKeeps == IInv /\ [Next]_vars => IInv'
  <1> SUFFICES ASSUME IInv, [Next]_vars PROVE IInv'
    OBVIOUS
  <1>1. ASSUME NEW t \in Threads, Step(t) PROVE IInv'
    BY <1>1, TypeOKStep, FlowStep, SweepsLateStep, LogoutsListedStep, BlacklistKeepsStep,
       LateStoppedStep, OverdueStoppedStep, WitnessedStep DEF IInv
  <1> QED
    BY <1>1, TickKeeps, RestartKeeps, ArriveKeeps, StutterKeeps DEF Next

-----------------------------------------------------------------------------
(* The refinement                                                           *)

(* A thread's step leaves the others where they are, and lets no time pass. *)
LEMMA OthersStay ==
    ASSUME TypeOK, NEW t \in Threads, Step(t)
    PROVE  /\ UNCHANGED clock
           /\ \A q \in Threads \ {t} : pc'[q] = pc[q] /\ req'[q] = req[q]
  BY DEF TypeOK, Step, To, Reply, FindByLogin, CheckPassword, GenerateToken, VerifyForLogout,
     Insert, Sweep, Erase, IsTokenInvalidated, Validate, FindById, CheckOld, UpdatePassword,
     ClearFlag, Edit, StatementFails

LEMMA PresentedStep ==
    ASSUME PInv, NEW t \in Threads, Step(t)
    PROVE  Presented'
  <1> USE DEF PInv, IInv, TypeOK, Presented, GuardPCs, HandlerPCs
  <1>1. issued \subseteq issued'
    BY DEF Step, FindByLogin, CheckPassword, GenerateToken, VerifyForLogout, Insert, Sweep, Erase,
       IsTokenInvalidated, Validate, FindById, CheckOld, UpdatePassword, ClearFlag, Edit, StatementFails
  <1>2. pc'[t] \in GuardPCs \cup HandlerPCs => pc[t] \in GuardPCs \cup HandlerPCs /\ req'[t] = req[t]
    BY DEF Step, To, Reply, FindByLogin, CheckPassword, GenerateToken, VerifyForLogout, Insert, Sweep,
       Erase, IsTokenInvalidated, Validate, FindById, CheckOld, UpdatePassword, ClearFlag, Edit,
       StatementFails
  <1> QED
    BY <1>1, <1>2, OthersStay

LEMMA PInvStep == PInv /\ [Next]_vars => PInv'
  <1> SUFFICES ASSUME PInv, [Next]_vars PROVE Presented'
    BY NextKeeps DEF PInv
  <1> USE DEF PInv, IInv, TypeOK, Presented, GuardPCs, HandlerPCs
  <1>1. ASSUME NEW t \in Threads, Step(t) PROVE Presented'
    BY <1>1, PresentedStep
  <1>2. ASSUME NEW t \in Threads, NEW r \in Requests, Presentable(r), Arrive(t, r)
        PROVE  Presented'
    BY <1>2, RequestTokens, FirstSteps DEF Arrive, Presentable
  <1>3. CASE Tick \/ Restart \/ UNCHANGED vars
    BY <1>3 DEF Tick, Restart, vars, serverVars
  <1> QED
    BY <1>1, <1>2, <1>3 DEF Next

(* What Sessions sees of a thread's step.                                   *)
LEMMA Views ==
    ASSUME NEW t \in Threads, UNCHANGED clock,
           \A q \in Threads \ {t} : pc'[q] = pc[q] /\ req'[q] = req[q]
    PROVE  /\ Call' = [Call EXCEPT ![t] =
                  IF pc'[t] \in GuardPCs \cup HandlerPCs THEN {req'[t].token} ELSE {}]
           /\ Cleared' = IF pc'[t] = "validate" /\ ~Expired(req'[t].token)
                         THEN Cleared \cup {t} ELSE Cleared \ {t}
           /\ Inside' = IF pc'[t] \in HandlerPCs THEN Inside \cup {t} ELSE Inside \ {t}
  BY DEF Call, Cleared, Inside, Expired, Exp

LEMMA ViewOf ==
    ASSUME NEW t \in Threads
    PROVE  /\ Call[t] = IF pc[t] \in GuardPCs \cup HandlerPCs THEN {req[t].token} ELSE {}
           /\ t \in Cleared <=> pc[t] = "validate" /\ ~Expired(req[t].token)
           /\ t \in Inside <=> pc[t] \in HandlerPCs
  BY DEF Call, Cleared, Inside

(* ... and what of it stays.                                                *)
LEMMA CallStays ==
    ASSUME NEW t \in Threads, \A q \in Threads \ {t} : pc'[q] = pc[q] /\ req'[q] = req[q],
           pc'[t] \in GuardPCs \cup HandlerPCs <=> pc[t] \in GuardPCs \cup HandlerPCs,
           pc[t] \in GuardPCs \cup HandlerPCs => req'[t] = req[t]
    PROVE  Call' = Call
  BY DEF Call, GuardPCs, HandlerPCs

LEMMA ClearedStays ==
    ASSUME NEW t \in Threads, UNCHANGED clock,
           \A q \in Threads \ {t} : pc'[q] = pc[q] /\ req'[q] = req[q],
           pc'[t] = "validate" => Expired(req'[t].token),
           pc[t] = "validate" => Expired(req[t].token)
    PROVE  Cleared' = Cleared
  BY DEF Cleared, Expired, Exp

LEMMA InsideStays ==
    ASSUME NEW t \in Threads, \A q \in Threads \ {t} : pc'[q] = pc[q],
           pc'[t] \in HandlerPCs <=> pc[t] \in HandlerPCs
    PROVE  Inside' = Inside
  BY DEF Inside, HandlerPCs

AbstractNext == Abstract!Next \/ UNCHANGED Abstract!vars

(* A step that leaves all Sessions sees of its thread.                      *)
LEMMA Unseen ==
    ASSUME TypeOK, NEW t \in Threads, Step(t), UNCHANGED <<row, issued, out>>,
           \/ pc[t] \notin GuardPCs \cup HandlerPCs /\ pc'[t] \notin GuardPCs \cup HandlerPCs
           \/ pc[t] \in HandlerPCs /\ pc'[t] \in HandlerPCs /\ req'[t] = req[t]
    PROVE  AbstractNext
  <1> USE DEF GuardPCs, HandlerPCs
  <1>1. UNCHANGED clock /\ \A q \in Threads \ {t} : pc'[q] = pc[q] /\ req'[q] = req[q]
    BY OthersStay
  <1>2. UNCHANGED <<Call, Cleared, Inside>>
    BY <1>1, CallStays, ClearedStays, InsideStays
  <1> QED
    BY <1>1, <1>2 DEF AbstractNext, Abstract!vars, Abstract!requestVars

(* The answer to a request for a protected route.                           *)
LEMMA Answered ==
    ASSUME TypeOK, NEW t \in Threads, Step(t), Reply(t), pc[t] \in GuardPCs \cup HandlerPCs
    PROVE  Abstract!Ends(t) /\ Call[t] = {req[t].token}
  <1>1. pc'[t] = "idle"
    BY DEF TypeOK, Reply
  <1>2. Call' = [Call EXCEPT ![t] = {}] /\ Cleared' = Cleared \ {t} /\ Inside' = Inside \ {t}
    BY <1>1, OthersStay, Views DEF GuardPCs, HandlerPCs
  <1> QED
    BY <1>2, ViewOf DEF Abstract!Ends

LEMMA Refused ==
    ASSUME PInv, NEW t \in Threads, Step(t), Reply(t), UNCHANGED <<row, issued>>,
           pc[t] \in GuardPCs \cup HandlerPCs
    PROVE  AbstractNext
  <1>1. Abstract!Ends(t) /\ Call[t] # {}
    BY Answered DEF PInv, IInv
  <1>2. UNCHANGED <<clock, out>>
    BY OthersStay DEF PInv, IInv, TypeOK, Flow, Reply, GuardPCs, HandlerPCs, Guarded, Changes, EditCalls
  <1>3. Abstract!Leave(t)
    BY <1>1, <1>2 DEF Abstract!Leave
  <1> QED
    BY <1>3 DEF AbstractNext, Abstract!Next

(* The end of a logout.                                                     *)
LEMMA LogoutRefines ==
    ASSUME PInv, NEW t \in Threads, Step(t), pc[t] \in LogoutPCs
    PROVE  AbstractNext
  <1> USE DEF PInv, IInv, TypeOK, LogoutPCs
  <1>1. UNCHANGED <<row, issued>> /\ pc'[t] \notin GuardPCs \cup HandlerPCs
    BY DEF Step, To, Reply, FindByLogin, CheckPassword, GenerateToken, VerifyForLogout, Insert, Sweep,
       Erase, IsTokenInvalidated, Validate, FindById, CheckOld, UpdatePassword, ClearFlag, Edit,
       StatementFails, GuardPCs, HandlerPCs
  <1>2. CASE out' = out
    BY <1>1, <1>2, Unseen DEF GuardPCs, HandlerPCs
  <1>3. CASE out' # out
    <2>1. out' = out \cup {req[t].token} /\ req[t].token \in issued
      BY <1>3 DEF Step, To, Reply, FindByLogin, CheckPassword, GenerateToken, VerifyForLogout, Insert,
         Sweep, Erase, IsTokenInvalidated, Validate, FindById, CheckOld, UpdatePassword, ClearFlag,
         Edit, StatementFails, pastVars, Flow
    <2>2. UNCHANGED clock /\ \A q \in Threads \ {t} : pc'[q] = pc[q] /\ req'[q] = req[q]
      BY OthersStay
    <2>3. UNCHANGED <<Call, Cleared, Inside>>
      BY <1>1, <2>2, CallStays, ClearedStays, InsideStays DEF GuardPCs, HandlerPCs
    <2>4. Abstract!LogOut(req[t].token)
      BY <1>1, <2>1, <2>2, <2>3 DEF Abstract!LogOut, Abstract!requestVars
    <2> QED
      BY <2>1, <2>4 DEF AbstractNext, Abstract!Next
  <1> QED
    BY <1>2, <1>3

LEMMA LoginRefines ==
    ASSUME PInv, NEW t \in Threads, Step(t), pc[t] \in LoginPCs
    PROVE  AbstractNext
  <1> USE DEF PInv, IInv, TypeOK, LoginPCs
  <1>1. UNCHANGED <<row, out>> /\ pc'[t] \notin GuardPCs \cup HandlerPCs
    BY DEF Step, To, Reply, FindByLogin, CheckPassword, GenerateToken, VerifyForLogout, Insert, Sweep,
       Erase, IsTokenInvalidated, Validate, FindById, CheckOld, UpdatePassword, ClearFlag, Edit,
       StatementFails, GuardPCs, HandlerPCs, pastVars, Flow, Logins
  <1>2. CASE issued' = issued
    BY <1>1, <1>2, Unseen DEF GuardPCs, HandlerPCs
  <1>3. CASE GenerateToken(t)
    <2> DEFINE k == [user |-> UserOf(t), iat |-> clock \div Ticks]
    <2>1. k \in Tokens /\ issued' = issued \cup {k}
      <3>1. UserOf(t) \in Users /\ issued' = issued \cup {k}
        BY <1>3 DEF GenerateToken, UserOf, Flow, Logins
      <3>2. clock \div Ticks \in 0 .. (MaxClock \div Ticks)
        BY DivMonotone, TimeAssumption
      <3> QED
        BY <3>1, <3>2 DEF Tokens
    <2>2. UNCHANGED clock /\ \A q \in Threads \ {t} : pc'[q] = pc[q] /\ req'[q] = req[q]
      BY OthersStay
    <2>3. UNCHANGED <<Call, Cleared, Inside>>
      BY <1>1, <2>2, CallStays, ClearedStays, InsideStays DEF GuardPCs, HandlerPCs
    <2>4. Abstract!Issue(k)
      BY <1>1, <2>1, <2>2, <2>3 DEF Abstract!Issue, Abstract!requestVars
    <2> QED
      BY <2>1, <2>4 DEF AbstractNext, Abstract!Next
  <1> QED
    BY <1>2, <1>3 DEF Step, FindByLogin, CheckPassword, VerifyForLogout, Insert, Sweep, Erase,
       IsTokenInvalidated, Validate, FindById, CheckOld, UpdatePassword, ClearFlag, Edit, StatementFails

(* The middleware.  A token that is not on the list and has not expired was *)
(* not logged out either: BlacklistKeeps.                                   *)
LEMMA GuardRefines ==
    ASSUME PInv, NEW t \in Threads, Step(t), pc[t] \in GuardPCs
    PROVE  AbstractNext
  <1> USE DEF PInv, IInv, TypeOK, GuardPCs, HandlerPCs
  <1> DEFINE k == req[t].token
  <1>1. IsTokenInvalidated(t) \/ Validate(t)
    BY DEF Step, FindByLogin, CheckPassword, GenerateToken, VerifyForLogout, Insert, Sweep, Erase,
       FindById, CheckOld, UpdatePassword, ClearFlag, Edit, StatementFails
  <1>2. UNCHANGED <<row, issued>>
    BY <1>1 DEF IsTokenInvalidated, Validate
  <1>3. UNCHANGED clock /\ \A q \in Threads \ {t} : pc'[q] = pc[q] /\ req'[q] = req[q]
    BY OthersStay
  <1>4. CASE Reply(t)
    BY <1>2, <1>4, Refused
  <1>5. CASE IsTokenInvalidated(t) /\ To(t, "validate")
    <2>1. /\ pc[t] = "listed" /\ pc'[t] = "validate" /\ req'[t] = req[t] /\ out' = out
          /\ k \notin blacklist \/ Expired(k)
      BY <1>5 DEF IsTokenInvalidated, To, Reply, pastVars
    <2>2. Call' = Call /\ Inside' = Inside
      BY <1>3, <2>1, CallStays, InsideStays
    <2>3. CASE Expired(k)
      <3>1. Cleared' = Cleared
        BY <1>3, <2>1, <2>3, ClearedStays
      <3> QED
        BY <1>2, <1>3, <2>1, <2>2, <3>1 DEF AbstractNext, Abstract!vars, Abstract!requestVars
    <2>4. CASE ~Expired(k)
      <3>1. Cleared' = Cleared \cup {t}
        BY <1>3, <2>1, <2>4, Views
      <3>2. k \in issued \ out
        BY <2>1, <2>4 DEF BlacklistKeeps, Presented
      <3>3. Abstract!Good(k)
        BY <2>4, <3>2 DEF Abstract!Good, Abstract!Expired, Expired, Exp
      <3>4. Call[t] = {k} /\ t \notin Inside
        BY <2>1, ViewOf
      <3>5. Abstract!Clear(t)
        BY <1>2, <1>3, <2>1, <2>2, <3>1, <3>3, <3>4 DEF Abstract!Clear
      <3> QED
        BY <3>5 DEF AbstractNext, Abstract!Next
    <2> QED
      BY <2>3, <2>4
  <1>6. CASE Validate(t) /\ ~Expired(k) /\ To(t, Handler(req[t]))
    <2>1. /\ pc[t] = "validate" /\ pc'[t] \in HandlerPCs /\ req'[t] = req[t] /\ out' = out
      BY <1>6 DEF Validate, To, pastVars, Handler
    <2>2. Call' = Call
      BY <1>3, <2>1, CallStays
    <2>3. Cleared' = Cleared \ {t} /\ Inside' = Inside \cup {t}
      BY <1>3, <2>1, Views
    <2>4. t \in Cleared
      BY <1>6, <2>1, ViewOf
    <2>5. Abstract!Enter(t)
      BY <1>2, <1>3, <2>1, <2>2, <2>3, <2>4 DEF Abstract!Enter
    <2> QED
      BY <2>5 DEF AbstractNext, Abstract!Next
  <1> QED
    BY <1>1, <1>4, <1>5, <1>6 DEF IsTokenInvalidated, Validate

(* The rows of the users: one at a time, passwords by their users only.     *)
LEMMA RowStep ==
    ASSUME PInv, NEW t \in Threads, Step(t), row' # row
    PROVE  /\ pc[t] \in HandlerPCs /\ UNCHANGED issued /\ out' = out
           /\ Reply(t) \/ (pc'[t] \in HandlerPCs /\ req'[t] = req[t])
           /\ \E u \in Users :
                 /\ \A v \in Users \ {u} : row'[v] = row[v]
                 /\ row'[u].password # row[u].password => req[t].token.user = u
  <1> USE DEF PInv, IInv, TypeOK, HandlerPCs
  <1>1. UpdatePassword(t) \/ ClearFlag(t) \/ Edit(t)
    BY DEF Step, FindByLogin, CheckPassword, GenerateToken, VerifyForLogout, Insert, Sweep, Erase,
       IsTokenInvalidated, Validate, FindById, CheckOld, StatementFails
  <1>2. CASE UpdatePassword(t)
    <2>1. req[t] \in Changes /\ Owner(t) \in Users
      BY <1>2 DEF UpdatePassword, Flow, Changes, Owner, Tokens
    <2>2. To(t, "clear") /\ row' = [row EXCEPT ![Owner(t)].password = req[t].new]
      BY <1>2 DEF UpdatePassword
    <2> QED
      BY <1>2, <2>1, <2>2 DEF UpdatePassword, To, pastVars, Owner
  <1>3. CASE ClearFlag(t)
    <2>1. req[t] \in Changes /\ Owner(t) \in Users /\ Reply(t)
      BY <1>3 DEF ClearFlag, Flow, Changes, Owner, Tokens
    <2>2. row' = [row EXCEPT ![Owner(t)].mustChange = FALSE]
      BY <1>3 DEF ClearFlag
    <2>3. row'[Owner(t)].password = row[Owner(t)].password
      BY <2>1, <2>2 DEF Rows
    <2>4. out' = out
      BY <2>1 DEF Reply, Changes
    <2> QED
      BY <1>3, <2>1, <2>2, <2>3, <2>4 DEF ClearFlag
  <1>4. CASE Edit(t)
    <2>1. req[t] \in EditCalls /\ UserOf(t) \in Users /\ req[t].edit \in Edits /\ Reply(t)
      BY <1>4 DEF Edit, Flow, EditCalls, UserOf
    <2>2. row' = [row EXCEPT ![UserOf(t)] = Edited(@, req[t].edit)]
      BY <1>4 DEF Edit
    <2>3. Edited(row[UserOf(t)], req[t].edit).password = row[UserOf(t)].password
      BY <2>1, EditsAssumption DEF Edited, Rows
    <2>4. out' = out
      BY <2>1 DEF Reply, EditCalls
    <2> QED
      BY <1>4, <2>1, <2>2, <2>3, <2>4 DEF Edit
  <1> QED
    BY <1>1, <1>2, <1>3, <1>4

LEMMA HandlerRefines ==
    ASSUME PInv, NEW t \in Threads, Step(t), pc[t] \in HandlerPCs
    PROVE  AbstractNext
  <1> USE DEF PInv, IInv, TypeOK
  <1>1. UNCHANGED issued /\ (Reply(t) \/ (pc'[t] \in HandlerPCs /\ req'[t] = req[t] /\ out' = out))
    BY DEF Step, To, FindByLogin, CheckPassword, GenerateToken, VerifyForLogout, Insert, Sweep, Erase,
       IsTokenInvalidated, Validate, FindById, CheckOld, UpdatePassword, ClearFlag, Edit, StatementFails,
       pastVars, HandlerPCs
  <1>2. CASE row' = row /\ Reply(t)
    BY <1>1, <1>2, Refused
  <1>3. CASE row' = row /\ ~Reply(t)
    BY <1>1, <1>3, Unseen
  <1>4. CASE row' # row
    <2>1. t \in Inside /\ Call[t] = {req[t].token}
      BY ViewOf
    <2>2. UNCHANGED clock /\ \A q \in Threads \ {t} : pc'[q] = pc[q] /\ req'[q] = req[q]
      BY OthersStay
    <2>3. Abstract!Ends(t) \/ UNCHANGED <<Call, Cleared, Inside>>
      <3>1. CASE Reply(t)
        BY <3>1, Answered
      <3>2. CASE pc'[t] \in HandlerPCs /\ req'[t] = req[t]
        BY <2>2, <3>2, CallStays, ClearedStays, InsideStays DEF HandlerPCs
      <3> QED
        BY <1>4, <3>1, <3>2, RowStep
    <2>4. Abstract!Act(t)
      BY <1>4, <2>1, <2>2, <2>3, RowStep DEF Abstract!Act, Abstract!requestVars
    <2> QED
      BY <2>4 DEF AbstractNext, Abstract!Next
  <1> QED
    BY <1>2, <1>3, <1>4

(* A request that comes: seen if it is for a protected route.               *)
LEMMA ArriveRefines ==
    ASSUME PInv, NEW t \in Threads, NEW r \in Requests, Presentable(r), Arrive(t, r)
    PROVE  AbstractNext
  <1> USE DEF PInv, IInv, TypeOK, GuardPCs, HandlerPCs
  <1>1. UNCHANGED <<clock, row, issued, out>>
    BY DEF Arrive
  <1>2. /\ pc[t] = "idle" /\ pc'[t] = FirstStep[r.kind] /\ req'[t] = r
        /\ \A q \in Threads \ {t} : pc'[q] = pc[q] /\ req'[q] = req[q]
    BY DEF Arrive
  <1>3. CASE r.kind \in {"login", "logout"}
    <2>1. pc'[t] \in {"findByLogin", "verify"}
      BY <1>2, <1>3, FirstSteps
    <2>2. UNCHANGED <<Call, Cleared, Inside>>
      BY <1>1, <1>2, <2>1, CallStays, ClearedStays, InsideStays
    <2> QED
      BY <1>1, <2>2 DEF AbstractNext, Abstract!vars, Abstract!requestVars
  <1>4. CASE r.kind \in {"change", "edit"}
    <2>1. Call[t] = {} /\ t \notin Cleared /\ t \notin Inside
      BY <1>2, ViewOf
    <2>2. pc'[t] = "listed"
      BY <1>2, <1>4, FirstSteps
    <2>3. Call' = [Call EXCEPT ![t] = {r.token}]
      BY <1>1, <1>2, <2>2, Views
    <2>4. Cleared' = Cleared /\ Inside' = Inside
      BY <1>1, <1>2, <2>2, ClearedStays, InsideStays
    <2>5. r.token \in issued /\ r.token \in Tokens
      BY <1>4, RequestTokens DEF Presentable
    <2>6. Abstract!Call(t, r.token)
      BY <1>1, <2>1, <2>3, <2>4, <2>5 DEF Abstract!Call
    <2> QED
      BY <2>5, <2>6 DEF AbstractNext, Abstract!Next
  <1> QED
    BY <1>3, <1>4, RequestTokens

LEMMA TickRefines ==
    ASSUME PInv, Tick
    PROVE  AbstractNext
  <1> USE DEF PInv, IInv, TypeOK, Tick, serverVars, pastVars
  <1>1. \A k \in Tokens : Expired(k) => Expired(k)'
    BY StaysExpired
  <1>2. \A t \in Threads : pc[t] = "validate" => req[t].token \in Tokens
    BY DEF Presented, GuardPCs
  <1>3. Call' = Call /\ Inside' = Inside
    BY DEF Call, Inside
  <1>4. \A t \in Cleared : Call[t] = {req[t].token}
    BY DEF Cleared, Call, GuardPCs
  <1>5. Cleared' = {t \in Cleared : \A k \in Call[t] : ~Expired(k)'}
    BY <1>1, <1>2, <1>4 DEF Cleared
  <1>6. \A k : Expired(k)' <=> Abstract!Expired(k)'
    BY DEF Expired, Exp, Abstract!Expired
  <1>7. Abstract!Tick
    BY <1>3, <1>5, <1>6 DEF Abstract!Tick
  <1> QED
    BY <1>7 DEF AbstractNext, Abstract!Next

LEMMA RestartRefines ==
    ASSUME PInv, Restart
    PROVE  AbstractNext
  <1>1. Abstract!Restart
    BY DEF Restart, Abstract!Restart, Call, Cleared, Inside, GuardPCs, HandlerPCs
  <1> QED
    BY <1>1 DEF AbstractNext, Abstract!Next

LEMMA NextRefines == PInv /\ [Next]_vars => AbstractNext
  <1> SUFFICES ASSUME PInv, [Next]_vars PROVE AbstractNext
    OBVIOUS
  <1>1. ASSUME NEW t \in Threads, Step(t) PROVE AbstractNext
    <2>1. pc[t] \in LoginPCs \cup LogoutPCs \cup GuardPCs \cup HandlerPCs
      BY <1>1 DEF Step, FindByLogin, CheckPassword, GenerateToken, VerifyForLogout, Insert, Sweep,
         Erase, IsTokenInvalidated, Validate, FindById, CheckOld, UpdatePassword, ClearFlag, Edit,
         StatementFails, LoginPCs, LogoutPCs, GuardPCs, HandlerPCs
    <2> QED
      BY <1>1, <2>1, LoginRefines, LogoutRefines, GuardRefines, HandlerRefines
  <1>2. CASE UNCHANGED vars
    BY <1>2 DEF vars, serverVars, pastVars, AbstractNext, Abstract!vars, Abstract!requestVars, Call,
       Cleared, Inside, Expired
  <1> QED
    BY <1>1, <1>2, ArriveRefines, TickRefines, RestartRefines DEF Next

-----------------------------------------------------------------------------
(* Theorems                                                                 *)

THEOREM Invariance == Spec => []IInv
  BY InitKeeps, NextKeeps, PTL DEF Spec

(* Every variable of the authentication keeps its type, for any number of   *)
(* users, threads and restarts.                                             *)
THEOREM TypeCorrect == Spec => []TypeOK
  <1>1. IInv => TypeOK
    BY DEF IInv
  <1> QED
    BY <1>1, Invariance, PTL

(* invalidateToken, isTokenInvalidated and cleanBlacklist together: while a *)
(* token whose logout was answered could pass verifyToken, it is listed.    *)
THEOREM BlacklistComplete == Spec => []BlacklistKeeps
  <1>1. IInv => BlacklistKeeps
    BY DEF IInv
  <1> QED
    BY <1>1, Invariance, PTL

(* validateRequest: no request that came in with a logged-out or expired    *)
(* token is in a protected handler.                                         *)
THEOREM InvalidOut == Spec => []InvalidStaysOut
  <1>1. IInv => InvalidStaysOut
    BY DEF IInv, LateStopped, OverdueStopped, InvalidStaysOut, LogoutPCs, GuardPCs, HandlerPCs
  <1> QED
    BY <1>1, Invariance, PTL

(* login() and changePassword(): what they were given was right, and the    *)
(* user in use, at some moment of the request.                              *)
THEOREM CredentialsRight == Spec => []CredentialsHeld
  <1>1. IInv => CredentialsHeld
    BY DEF IInv, Witnessed, CredentialsHeld
  <1> QED
    BY <1>1, Invariance, PTL

(* validateRequest() and what is behind it: every behaviour is one of       *)
(* Sessions.  A request gets into a protected handler only if at one moment *)
(* since it came its token had neither expired nor been logged out, and     *)
(* only such requests change rows of users, each its own password at most.  *)
THEOREM Implementation == Spec => ImplementsSessions
  <1>1. Init => PInv
    BY InitKeeps DEF Init, PInv, Presented, GuardPCs, HandlerPCs
  <1>2. Init => Abstract!Init
    BY DEF Init, Abstract!Init, Call, Cleared, Inside, GuardPCs, HandlerPCs
  <1> QED
    BY <1>1, <1>2, PInvStep, NextRefines, PTL
       DEF Spec, ImplementsSessions, Abstract!Spec, AbstractNext
===============================================================================
