---------------------------- MODULE SchemaVersions ----------------------------
(***************************************************************************)
(* What MigrationManager promises (migration_manager.h) with transactions, *)
(* locks and statements forgotten: the file is at one version of the       *)
(* schema, and a command of the migrator changes it at once or not at all. *)
(* upgradeOne() and downgradeOne() decide by a version they read some time *)
(* ago and never compare it again; an upgrade takes effect nevertheless    *)
(* from exactly the version before its own, like a compare-and-swap.  A    *)
(* downgrade promises less: it goes from whatever version it finds, if     *)
(* that is not below where it leads.                                       *)
(***************************************************************************)
EXTENDS Integers

CONSTANTS
    Procs,      \* processes of the migrator
    Max,        \* the last version
    Parts       \* statements of a migration

VARIABLES
    rows,       \* migration -> how much of it the file holds
    wish,       \* process -> the migration it has decided on, in a set
    granted     \* the processes that have reached their version

vars == <<rows, wish, granted>>

Wishes == [up : BOOLEAN, to : 0 .. Max]

(* The schema of version v: the migrations up to v, whole.                  *)
Schema(v) == [m \in 1 .. Max |-> IF m <= v THEN Parts ELSE 0]

Init ==
    /\ rows = Schema(0)
    /\ wish = [p \in Procs |-> {}]
    /\ granted = {}

Decide(p) ==
    /\ wish[p] = {} /\ p \notin granted
    /\ \E w \in Wishes : wish' = [wish EXCEPT ![p] = {w}]
    /\ UNCHANGED <<rows, granted>>

Reaches(w) ==
    /\ \E v \in 0 .. Max : rows = Schema(v) /\ (IF w.up THEN v = w.to - 1 ELSE v >= w.to)
    /\ rows' = Schema(w.to)

(* The migration is there.  upgradeAll() goes on with the next one.         *)
Grant(p) ==
    \E w \in wish[p] :
        /\ Reaches(w)
        /\ \/ /\ wish' = [wish EXCEPT ![p] = {}]
              /\ granted' = granted \cup {p}
           \/ /\ w.up /\ w.to < Max
              /\ wish' = [wish EXCEPT ![p] = {[up |-> TRUE, to |-> w.to + 1]}]
              /\ UNCHANGED granted

(* An exception, a rollback or the end of the process: nothing has changed. *)
GiveUp(p) ==
    /\ wish[p] # {}
    /\ wish' = [wish EXCEPT ![p] = {}]
    /\ UNCHANGED <<rows, granted>>

Leave(p) ==
    /\ p \in granted
    /\ granted' = granted \ {p}
    /\ UNCHANGED <<rows, wish>>

Next == \E p \in Procs : Decide(p) \/ Grant(p) \/ GiveUp(p) \/ Leave(p)

Spec == Init /\ [][Next]_vars
=============================================================================
