----------------------------- MODULE AuthSessions -----------------------------
(***************************************************************************)
(* Logging in and out, changing a password, and the check in front of      *)
(* every protected route: AuthHandler, AuthService and AuthMiddleware of   *)
(* vault-server, on the rows of User.                                      *)
(*                                                                         *)
(* Each request is served by one thread of the server's pool.  A step is   *)
(* one SQL statement, one critical section of the blacklist's mutex or one *)
(* reading of the clock, so requests interleave between any two of these.  *)
(*                                                                         *)
(* A token is a signed JWT of the user and the SECOND it was issued in:    *)
(* two logins of a user within a second get the same string.  Time runs in *)
(* ticks, several to the second, because verify() and the blacklist        *)
(* compare the clock with the expiry to less than a second.                *)
(***************************************************************************)
EXTENDS Naturals

CONSTANTS
    Users, Threads,
    Passwords,          \* sha256 is taken to tell them apart
    StrongPasswords,    \* those validatePasswordStrength lets through
    NoRequest,          \* what an idle thread serves
    Ticks,              \* ticks of the clock in a second
    Lifetime,           \* DEFAULT_TOKEN_EXPIRY, in seconds
    MaxClock,           \* bound: the last tick
    Edits               \* bound: what administrators do to users

ASSUME StrongAssumption == StrongPasswords \subseteq Passwords
ASSUME TimeAssumption ==
    Ticks \in Nat \ {0} /\ Lifetime \in Nat \ {0} /\ MaxClock \in Nat

ASSUME EditsAssumption ==
    Edits \subseteq {"block", "unblock", "mustChange", "mayKeep", "delete"}

VARIABLES
    clock,      \* std::chrono::system_clock, never set back
    row,        \* user -> its row of the table User
    issued,     \* the tokens handed out so far
    blacklist,  \* m_blacklist: a token brings its own expiry along
    pc,         \* thread -> where it is in its request
    req,        \* thread -> that request
    seen,       \* thread -> the time cleanBlacklist read before it locked
    \* What happened, for the properties; the code keeps none of it.
    out,        \* tokens whose logout this run of the server has answered
    forgotten,  \* tokens whose logout an earlier run of the server answered
    late,       \* threads whose request came in with a token in out
    revived,    \* threads whose request came in with a token in forgotten
    overdue,    \* threads whose request came in with an expired token
    open,       \* threads during whose request the user was there, not blocked
    match       \* threads during whose request the given password was right

serverVars == <<issued, blacklist, pc, req, seen>>
pastVars   == <<out, forgotten, late, revived, overdue>>
vars == <<clock, row, serverVars, pastVars, open, match>>

Tokens  == [user : Users, iat : 0..(MaxClock \div Ticks)]
Exp(k)  == (k.iat + Lifetime) * Ticks
Expired(k) == Exp(k) < clock

Logins    == [kind : {"login"}, user : Users, password : Passwords]
Logouts   == [kind : {"logout"}, token : Tokens]
Changes   == [kind : {"change"}, token : Tokens, old : Passwords, new : Passwords]
EditCalls == [kind : {"edit"}, token : Tokens, user : Users, edit : Edits]
Requests  == Logins \cup Logouts \cup Changes \cup EditCalls

Rows == [present : BOOLEAN, blocked : BOOLEAN, mustChange : BOOLEAN, password : Passwords]

(* What a request goes through: login; logout; the middleware; a protected  *)
(* handler.                                                                 *)
LoginPCs   == {"findByLogin", "password", "issue"}
LogoutPCs  == {"verify", "insert", "sweep", "erase"}
GuardPCs   == {"listed", "validate"}
HandlerPCs == {"edit", "findById", "old", "store", "clear"}
PCs == {"idle"} \cup LoginPCs \cup LogoutPCs \cup GuardPCs \cup HandlerPCs

TypeOK ==
    /\ clock \in 0..MaxClock
    /\ row \in [Users -> Rows]
    /\ issued \subseteq Tokens
    /\ blacklist \subseteq issued
    /\ pc \in [Threads -> PCs]
    /\ req \in [Threads -> Requests \cup {NoRequest}]
    /\ seen \in [Threads -> 0..MaxClock]
    /\ out \subseteq issued /\ forgotten \subseteq issued
    /\ late \subseteq Threads /\ revived \subseteq Threads /\ overdue \subseteq Threads
    /\ open \subseteq Threads /\ match \subseteq Threads

(* A user in use: not blocked, with the password an administrator gave and  *)
(* will have changed.                                                       *)
Init ==
    /\ clock = 0
    /\ row \in [Users -> [present : {TRUE}, blocked : {FALSE}, mustChange : {TRUE},
                          password : Passwords]]
    /\ issued = {} /\ blacklist = {}
    /\ pc = [t \in Threads |-> "idle"]
    /\ req = [t \in Threads |-> NoRequest]
    /\ seen = [t \in Threads |-> 0]
    /\ out = {} /\ forgotten = {}
    /\ late = {} /\ revived = {} /\ overdue = {} /\ open = {} /\ match = {}

-----------------------------------------------------------------------------
(* open and match look at the rows in every state of a request, not only at *)
(* those its own statements read.                                           *)
Claimed(r) == CASE r.kind = "login"  -> [user |-> r.user, password |-> r.password]
                [] r.kind = "change" -> [user |-> r.token.user, password |-> r.old]
Claims == {t \in Threads : pc[t] # "idle" /\ req[t].kind \in {"login", "change"}}
Opens(t) == LET u == Claimed(req[t]).user IN row[u].present /\ ~row[u].blocked
Matches(t) == LET c == Claimed(req[t]) IN row[c.user].present /\ row[c.user].password = c.password

Observe ==
    /\ open' = {t \in Claims' : t \in open \/ Opens(t)'}
    /\ match' = {t \in Claims' : t \in match \/ Matches(t)'}

-----------------------------------------------------------------------------
(* Requests come and go                                                     *)

ChangeUnlisted == [login |-> "findByLogin", logout |-> "verify",      \* seeded fault
                   change |-> "validate", edit |-> "listed"]
(* The handlers call findByLogin and verifyToken first, the middleware of a *)
(* protected route isTokenInvalidated.  A request without a well-formed     *)
(* header or body is answered at once and changes nothing.                  *)
FirstStep == [login |-> "findByLogin", logout |-> "verify",
              change |-> "listed", edit |-> "listed"]

Arrive(t, r) ==
    /\ pc[t] = "idle"
    /\ pc' = [pc EXCEPT ![t] = FirstStep[r.kind]]
    /\ req' = [req EXCEPT ![t] = r]
    /\ UNCHANGED <<clock, row, issued, blacklist, seen, out, forgotten>>
    /\ revived' = IF r.kind # "login" /\ r.token \in forgotten THEN revived \cup {t} ELSE revived
    /\ late' = IF r.kind # "login" /\ r.token \in out THEN late \cup {t} ELSE late
    /\ overdue' = IF r.kind # "login" /\ Expired(r.token) THEN overdue \cup {t} ELSE overdue
    /\ Observe

To(t, there) ==
    /\ pc' = [pc EXCEPT ![t] = there]
    /\ UNCHANGED <<req, seen, pastVars>>

Reply(t) ==
    /\ pc' = [pc EXCEPT ![t] = "idle"]
    /\ req' = [req EXCEPT ![t] = NoRequest]
    /\ seen' = [seen EXCEPT ![t] = 0]
    /\ late' = late \ {t}
    /\ revived' = revived \ {t}
    /\ overdue' = overdue \ {t}
    /\ out' = IF req[t].kind = "logout" THEN out \cup {req[t].token} ELSE out
    /\ UNCHANGED forgotten

Tick ==
    /\ clock < MaxClock
    /\ clock' = clock + 1
    /\ UNCHANGED <<row, serverVars, pastVars>>
    /\ Observe

-----------------------------------------------------------------------------
(* login: findByLogin brings isBlocked, passwordHash is a second statement, *)
(* the token is made after both.                                            *)

UserOf(t) == req[t].user

FindByLogin(t) ==
    /\ pc[t] = "findByLogin"
    /\ IF row[UserOf(t)].present /\ ~row[UserOf(t)].blocked
       THEN To(t, "password") ELSE Reply(t)
    /\ UNCHANGED <<clock, row, issued, blacklist>>
    /\ Observe

HashThere(u, p) == row[u].present              \* seeded fault: any password will do
Verified(u, p)  == row[u].present /\ row[u].password = p

CheckPassword(t) ==
    /\ pc[t] = "password"
    /\ IF Verified(UserOf(t), req[t].password) THEN To(t, "issue") ELSE Reply(t)
    /\ UNCHANGED <<clock, row, issued, blacklist>>
    /\ Observe

GenerateToken(t) ==
    /\ pc[t] = "issue"
    /\ issued' = issued \cup {[user |-> UserOf(t), iat |-> clock \div Ticks]}
    /\ Reply(t)
    /\ UNCHANGED <<clock, row, blacklist>>
    /\ Observe

-----------------------------------------------------------------------------
(* logout: invalidateToken                                                  *)

(* A token that does not verify is not put on the list; the answer is 204   *)
(* all the same.                                                            *)
VerifyForLogout(t) ==
    /\ pc[t] = "verify"
    /\ IF Expired(req[t].token) THEN Reply(t) ELSE To(t, "insert")
    /\ UNCHANGED <<clock, row, issued, blacklist>>
    /\ Observe

InsertSkipped(t) ==                            \* seeded fault
    /\ pc[t] = "insert"
    /\ Reply(t)
    /\ UNCHANGED <<clock, row, issued, blacklist>>
    /\ Observe
(* Every tenth invalidation sweeps the list.  The static counter is not     *)
(* under the mutex: a data race, so any invalidation may be the tenth.      *)
Insert(t) ==
    /\ pc[t] = "insert"
    /\ blacklist' = blacklist \cup {req[t].token}
    /\ To(t, "sweep") \/ Reply(t)
    /\ UNCHANGED <<clock, row, issued>>
    /\ Observe

(* cleanBlacklist looks at the clock before it locks the mutex.             *)
Sweep(t) ==
    /\ pc[t] = "sweep"
    /\ seen' = [seen EXCEPT ![t] = clock]
    /\ pc' = [pc EXCEPT ![t] = "erase"]
    /\ UNCHANGED <<clock, row, issued, blacklist, req, pastVars>>
    /\ Observe

ErasedUpTo(now) == {k \in blacklist : Exp(k) <= now}    \* seeded fault
Erased(now)     == {k \in blacklist : Exp(k) < now}

Erase(t) ==
    /\ pc[t] = "erase"
    /\ blacklist' = blacklist \ Erased(seen[t])
    /\ Reply(t)
    /\ UNCHANGED <<clock, row, issued>>
    /\ Observe

-----------------------------------------------------------------------------
(* validateRequest in front of a protected route                            *)

(* isTokenInvalidated drops an entry that has expired and then knows        *)
(* nothing of the token any more.                                           *)
IsTokenInvalidated(t) ==
    LET k == req[t].token IN
    /\ pc[t] = "listed"
    /\ blacklist' = IF Expired(k) THEN blacklist \ {k} ELSE blacklist
    /\ IF k \in blacklist' THEN Reply(t) ELSE To(t, "validate")
    /\ UNCHANGED <<clock, row, issued>>
    /\ Observe

Handler(r) == IF r.kind = "edit" THEN "edit" ELSE "findById"

(* verifyToken, with a clock of its own; the row of the user is not read.   *)
Validate(t) ==
    /\ pc[t] = "validate"
    /\ IF Expired(req[t].token) THEN Reply(t) ELSE To(t, Handler(req[t]))
    /\ UNCHANGED <<clock, row, issued, blacklist>>
    /\ Observe

-----------------------------------------------------------------------------
(* changePassword                                                           *)

Owner(t) == req[t].token.user

FindById(t) ==
    /\ pc[t] = "findById"
    /\ IF row[Owner(t)].present THEN To(t, "old") ELSE Reply(t)
    /\ UNCHANGED <<clock, row, issued, blacklist>>
    /\ Observe

CheckOld(t) ==
    /\ pc[t] = "old"
    /\ IF /\ Verified(Owner(t), req[t].old)
          /\ req[t].new # req[t].old /\ req[t].new \in StrongPasswords
       THEN To(t, "store") ELSE Reply(t)
    /\ UNCHANGED <<clock, row, issued, blacklist>>
    /\ Observe

(* An UPDATE of a row that is gone touches none: 500.                       *)
UpdatePassword(t) ==
    /\ pc[t] = "store"
    /\ IF row[Owner(t)].present
       THEN /\ row' = [row EXCEPT ![Owner(t)].password = req[t].new]
            /\ To(t, "clear")
       ELSE UNCHANGED row /\ Reply(t)
    /\ UNCHANGED <<clock, issued, blacklist>>
    /\ Observe

(* A statement of its own; whether it worked is not looked at.              *)
ClearFlag(t) ==
    /\ pc[t] = "clear"
    /\ \/ row[Owner(t)].present /\ row' = [row EXCEPT ![Owner(t)].mustChange = FALSE]
       \/ UNCHANGED row
    /\ Reply(t)
    /\ UNCHANGED <<clock, issued, blacklist>>
    /\ Observe

-----------------------------------------------------------------------------
(* updateUser and deleteUser: one statement on any user's row               *)

Edited(r, edit) ==
    CASE edit = "block"      -> [r EXCEPT !.blocked = TRUE]
      [] edit = "unblock"    -> [r EXCEPT !.blocked = FALSE]
      [] edit = "mustChange" -> [r EXCEPT !.mustChange = TRUE]
      [] edit = "mayKeep"    -> [r EXCEPT !.mustChange = FALSE]
      [] edit = "delete"     -> [r EXCEPT !.present = FALSE]

Edit(t) ==
    /\ pc[t] = "edit"
    /\ row' = IF row[UserOf(t)].present
              THEN [row EXCEPT ![UserOf(t)] = Edited(@, req[t].edit)] ELSE row
    /\ Reply(t)
    /\ UNCHANGED <<clock, issued, blacklist>>
    /\ Observe

(* A statement fails: the answer is 4xx or 500 and nothing was changed.     *)
StatementFails(t) ==
    /\ pc[t] \in {"findByLogin", "password", "findById", "old", "store", "edit"}
    /\ Reply(t)
    /\ UNCHANGED <<clock, row, issued, blacklist>>
    /\ Observe

-----------------------------------------------------------------------------

(* The server is killed and started again.  The blacklist is memory only,   *)
(* the key that signs tokens a constant.                                    *)
Restart ==
    /\ pc' = [t \in Threads |-> "idle"]
    /\ req' = [t \in Threads |-> NoRequest]
    /\ seen' = [t \in Threads |-> 0]
    /\ blacklist' = {}
    /\ out' = {}
    /\ forgotten' = forgotten \cup out
    /\ late' = {} /\ revived' = {} /\ overdue' = {}
    /\ UNCHANGED <<clock, row, issued>>
    /\ Observe

Step(t) ==
    \/ FindByLogin(t) \/ CheckPassword(t) \/ GenerateToken(t)
    \/ VerifyForLogout(t) \/ Insert(t) \/ Sweep(t) \/ Erase(t)
    \/ IsTokenInvalidated(t) \/ Validate(t)
    \/ FindById(t) \/ CheckOld(t) \/ UpdatePassword(t) \/ ClearFlag(t)
    \/ Edit(t) \/ StatementFails(t)

(* Clients hold tokens they were given.                                     *)
Presentable(r) == r.kind # "login" => r.token \in issued

Next ==
    \/ Tick
    \/ Restart
    \/ \E t \in Threads :
          \/ \E r \in Requests : Presentable(r) /\ Arrive(t, r)
          \/ Step(t)

Spec == Init /\ [][Next]_vars

-----------------------------------------------------------------------------
(* Properties                                                               *)

(* A request that comes in with an expired token, or after a logout of its  *)
(* token was answered, never reaches a protected handler while this run of  *)
(* the server lasts, however logouts, sweeps of the blacklist and the       *)
(* token's expiry interleave: isTokenInvalidated forgets expired tokens.    *)
InvalidStaysOut == \A t \in late \cup overdue : pc[t] \notin HandlerPCs

(* The same in every later run of the server as well: "invalidated tokens   *)
(* cannot be used for authentication" (auth_middleware.h).                  *)
LoggedOutForGood == \A t \in late \cup revived : pc[t] \notin HandlerPCs

(* Nobody is given a token, and no password is replaced, by a request       *)
(* during which the password it gave was never the user's; nor is anybody   *)
(* given a token who was blocked or deleted throughout.  The row is read in *)
(* two statements, so both need not have held at one time.                  *)
CredentialsHeld ==
    /\ \A t \in Threads : pc[t] \in {"issue", "store"} => t \in match
    /\ \A t \in Threads : pc[t] = "issue" => t \in open

(* The list never loses an entry it still needs: while a logged-out token   *)
(* could pass verifyToken it is in m_blacklist, whoever sweeps with         *)
(* whatever reading of the clock.                                           *)
BlacklistKeeps == \A k \in out : ~Expired(k) => k \in blacklist

(* Who asks for a protected route, whose token was found good, who is in.   *)
Call    == [t \in Threads |-> IF pc[t] \in GuardPCs \cup HandlerPCs THEN {req[t].token} ELSE {}]
Cleared == {t \in Threads : pc[t] = "validate" /\ ~Expired(req[t].token)}
Inside  == {t \in Threads : pc[t] \in HandlerPCs}

Abstract == INSTANCE Sessions WITH call <- Call, cleared <- Cleared, inside <- Inside

(* isTokenInvalidated() and verifyToken() look at different moments, and    *)
(* the list they rely on is swept meanwhile.  Still a request that gets in  *)
(* had, at one moment since it came, a token whose logout was not answered  *)
(* and that had not expired; and only those that are in change users' rows. *)
ImplementsSessions == Abstract!Spec
=============================================================================
