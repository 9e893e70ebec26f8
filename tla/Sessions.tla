------------------------------- MODULE Sessions -------------------------------
(***************************************************************************)
(* What authentication promises (auth_middleware.h, auth_service.h) with   *)
(* the blacklist, its sweeps and the two readings of the clock forgotten.  *)
(* A token is good from the moment it is handed out until it expires or    *)
(* its logout is answered, whichever comes first.  A request for a         *)
(* protected route gets in only if its token was good at one moment since  *)
(* the request came, and only such requests touch the users' rows.         *)
(***************************************************************************)
EXTENDS Naturals

CONSTANTS Users, Threads, Tokens, Ticks, Lifetime

VARIABLES
    clock,      \* in ticks, several to the second
    row,        \* user -> its row
    issued,     \* tokens handed out
    out,        \* tokens whose logout was answered since the last start
    call,       \* thread -> the token its request came with, in a set
    cleared,    \* threads whose token was found good
    inside      \* threads in the handler of a protected route

requestVars == <<call, cleared, inside>>
vars == <<clock, row, issued, out, requestVars>>

Expired(k) == (k.iat + Lifetime) * Ticks < clock
Good(k) == k \in issued \ out /\ ~Expired(k)

Init ==
    /\ clock = 0
    /\ issued = {} /\ out = {}
    /\ call = [t \in Threads |-> {}]
    /\ cleared = {} /\ inside = {}

(* Who has not got in before the token expires does not get in.             *)
Tick ==
    /\ clock' = clock + 1
    /\ cleared' = {t \in cleared : \A k \in call[t] : ~Expired(k)'}
    /\ UNCHANGED <<row, issued, out, call, inside>>

Issue(k) ==
    /\ k.iat = clock \div Ticks
    /\ issued' = issued \cup {k}
    /\ UNCHANGED <<clock, row, out, requestVars>>

LogOut(k) ==
    /\ k \in issued
    /\ out' = out \cup {k}
    /\ UNCHANGED <<clock, row, issued, requestVars>>

Call(t, k) ==
    /\ call[t] = {} /\ k \in issued
    /\ call' = [call EXCEPT ![t] = {k}]
    /\ UNCHANGED <<clock, row, issued, out, cleared, inside>>

Clear(t) ==
    /\ t \notin inside
    /\ \E k \in call[t] : Good(k)
    /\ cleared' = cleared \cup {t}
    /\ UNCHANGED <<clock, row, issued, out, call, inside>>

Enter(t) ==
    /\ t \in cleared
    /\ cleared' = cleared \ {t}
    /\ inside' = inside \cup {t}
    /\ UNCHANGED <<clock, row, issued, out, call>>

Ends(t) ==
    /\ call' = [call EXCEPT ![t] = {}]
    /\ cleared' = cleared \ {t}
    /\ inside' = inside \ {t}

(* One row at a time; a password only by the request of its user.           *)
Act(t) ==
    /\ t \in inside
    /\ \E u \in Users :
          /\ \A v \in Users \ {u} : row'[v] = row[v]
          /\ row'[u].password # row[u].password => \A k \in call[t] : k.user = u
    /\ UNCHANGED requestVars \/ Ends(t)
    /\ UNCHANGED <<clock, issued, out>>

Leave(t) ==
    /\ call[t] # {}
    /\ Ends(t)
    /\ UNCHANGED <<clock, row, issued, out>>

Restart ==
    /\ out' = {}
    /\ call' = [t \in Threads |-> {}]
    /\ cleared' = {} /\ inside' = {}
    /\ UNCHANGED <<clock, row, issued>>

Next ==
    \/ Tick \/ Restart
    \/ \E k \in Tokens : Issue(k) \/ LogOut(k) \/ \E t \in Threads : Call(t, k)
    \/ \E t \in Threads : Clear(t) \/ Enter(t) \/ Act(t) \/ Leave(t)

Spec == Init /\ [][Next]_vars
=============================================================================
