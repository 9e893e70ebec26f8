--------------------------- MODULE MigrationManager ---------------------------
(***************************************************************************)
(* The migrator (tools/migrator): processes that bring one SQLite file to  *)
(* another version of the schema.  Each process runs main() of main.cpp:   *)
(* it makes sure the table ".schema" is there, reads the version, and runs *)
(* migrations, each in a transaction of its own.  The version is read      *)
(* before the transaction that relies on it, and the table and its row are *)
(* made by two statements outside any transaction.                         *)
(*                                                                         *)
(* A migration is Parts statements; rows[m] counts the parts of migration  *)
(* m that are in the database.  A transaction works on a copy (work) that  *)
(* is the database's at COMMIT.                                            *)
(***************************************************************************)
EXTENDS Integers

CONSTANTS
    Procs,          \* migrator processes
    Max,            \* MigrationManager::maxVersion(): migrations are 1 .. Max
    Parts,          \* statements of a migration
    NoProc,
    SharedFirstRun, \* whether a process may start while another makes ".schema"
    Failures,       \* whether a database call may throw
    Kills           \* whether a process may be killed

ASSUME ProcsAssumption == NoProc \notin Procs
ASSUME MaxAssumption   == Max \in Nat \ {0}
ASSUME PartsAssumption == Parts \in Nat \ {0}

Migrations == 1 .. Max
Commands   == {"current", "upgrade", "upgradeAll", "downgrade"}

VARIABLES
    db,        \* the committed database
    work,      \* the database the writing transaction sees
    writer,    \* the process that holds SQLite's write lock
    pc, cmd,   \* process -> where it is in main(), and its command
    target,    \* process -> version its migration leads to
    part       \* process -> statements of the migration already executed

vars == <<db, work, writer, pc, cmd, target, part>>

Database == [table : {"none", "empty", "row"}, version : 0 .. Max, rows : [Migrations -> 0 .. Parts]]
InTransaction == {"statement", "setVersion", "commit"}
Places == {"idle", "check", "createTable", "insertRow", "look", "read", "begin", "report"} \cup InTransaction

TypeOK ==
    /\ db \in Database /\ work \in Database
    /\ writer \in Procs \cup {NoProc}
    /\ pc \in [Procs -> Places]
    /\ cmd \in [Procs -> Commands]
    /\ target \in [Procs -> 0 .. Max]
    /\ part \in [Procs -> 0 .. Parts]

NewFile == [table |-> "none", version |-> 0, rows |-> [m \in Migrations |-> 0]]

Init ==
    /\ db = NewFile /\ work = NewFile
    /\ writer = NoProc
    /\ pc = [p \in Procs |-> "idle"]
    /\ cmd = [p \in Procs |-> "current"]
    /\ target = [p \in Procs |-> 0]
    /\ part = [p \in Procs |-> 0]

-----------------------------------------------------------------------------

Goto(p, place) == pc' = [pc EXCEPT ![p] = place]
Upgrading(p)   == cmd[p] \in {"upgrade", "upgradeAll"}

(* currentVersion(): an empty table is version 0.                           *)
CurrentVersion == IF db.table = "row" THEN db.version ELSE 0

(* A write outside a transaction, or the first of a transaction, needs the  *)
(* file's write lock.                                                       *)
Lockable(p) == writer \in {NoProc, p}

Start(p, c) ==
    /\ pc[p] = "idle"
    /\ SharedFirstRun \/ \A q \in Procs : pc[q] \notin {"check", "createTable", "insertRow"}
    /\ cmd' = [cmd EXCEPT ![p] = c]
    /\ Goto(p, "check")
    /\ UNCHANGED <<db, work, writer, target, part>>

AfterTable(p) == IF cmd[p] = "upgradeAll" THEN "read" ELSE "look"

(* initializeSchemaTable(): any failure of its SELECT means "no table".     *)
Check(p) ==
    /\ pc[p] = "check"
    /\ \/ db.table # "none" /\ Goto(p, AfterTable(p))
       \/ (db.table = "none" \/ Failures) /\ Goto(p, "createTable")
    /\ UNCHANGED <<db, work, writer, cmd, target, part>>

CreateTable(p) ==
    /\ pc[p] = "createTable" /\ Lockable(p) /\ db.table = "none"
    /\ db' = [db EXCEPT !.table = "empty"]
    /\ Goto(p, "insertRow")
    /\ UNCHANGED <<work, writer, cmd, target, part>>

InsertRow(p) ==
    /\ pc[p] = "insertRow" /\ Lockable(p)
    /\ db' = [db EXCEPT !.table = "row", !.version = 0]
    /\ Goto(p, AfterTable(p))
    /\ UNCHANGED <<work, writer, cmd, target, part>>

(* main() looks at the version itself, and may have nothing to do.          *)
Look(p) ==
    /\ pc[p] = "look"
    /\ \/ cmd[p] = "current" /\ Goto(p, "idle")
       \/ cmd[p] = "upgrade" /\ Goto(p, IF CurrentVersion >= Max THEN "idle" ELSE "read")
       \/ cmd[p] = "downgrade" /\ Goto(p, IF CurrentVersion = 0 THEN "idle" ELSE "read")
    /\ UNCHANGED <<db, work, writer, cmd, target, part>>

(* The version upgradeOne(), upgradeAll() or downgradeOne() relies on.      *)
Read(p) ==
    /\ pc[p] = "read"
    /\ IF CurrentVersion = (IF Upgrading(p) THEN Max ELSE 0)
       THEN Goto(p, "idle") /\ UNCHANGED target
       ELSE /\ target' = [target EXCEPT ![p] = CurrentVersion + (IF Upgrading(p) THEN 1 ELSE -1)]
            /\ Goto(p, "begin")
    /\ UNCHANGED <<db, work, writer, cmd, part>>

(* BEGIN TRANSACTION is deferred: it takes no lock.                         *)
Begin(p) ==
    /\ pc[p] = "begin"
    /\ part' = [part EXCEPT ![p] = 0]
    /\ Goto(p, "statement")
    /\ UNCHANGED <<db, work, writer, cmd, target>>

(* What the first write of a transaction sees is the database of then.      *)
Seen(p) == IF writer = p THEN work ELSE db

(* up() creates what may not exist yet (CREATE TABLE, UNIQUE), in tables    *)
(* of the migrations before it.                                             *)
AlwaysCreatable(d, m, k) == TRUE                 \* seeded fault
CanCreate(d, m, k) == d.rows[m] = k /\ \A n \in 1 .. m - 1 : d.rows[n] = Parts

Created(d, m, k) == [d EXCEPT !.rows[m] = k + 1]

(* down() deletes whatever is there (IF EXISTS), later migrations' rows     *)
(* with their tables.                                                       *)
AlwaysDroppable(d, m) == TRUE                    \* seeded fault
CanDrop(d, m) == \A n \in 1 .. m - 1 : d.rows[n] = Parts
Dropped(d, m, k) ==
    [d EXCEPT !.rows = [n \in Migrations |->
        IF n < m THEN @[n]
        ELSE IF n > m THEN 0
        ELSE IF @[m] < Parts - k - 1 THEN @[m] ELSE Parts - k - 1]]

Statement(p) ==
    /\ pc[p] = "statement" /\ Lockable(p)
    /\ \/ /\ Upgrading(p) /\ CanCreate(Seen(p), target[p], part[p])
          /\ work' = Created(Seen(p), target[p], part[p])
       \/ /\ ~Upgrading(p) /\ CanDrop(Seen(p), target[p] + 1)
          /\ work' = Dropped(Seen(p), target[p] + 1, part[p])
    /\ writer' = p
    /\ part' = [part EXCEPT ![p] = @ + 1]
    /\ Goto(p, IF part[p] + 1 = Parts THEN "setVersion" ELSE "statement")
    /\ UNCHANGED <<db, cmd, target>>

(* UPDATE ".schema" SET version: nothing to update in an empty table.       *)
SetCurrentVersion(p) ==
    /\ pc[p] = "setVersion"
    /\ work' = IF work.table = "row" THEN [work EXCEPT !.version = target[p]] ELSE work
    /\ Goto(p, "commit")
    /\ UNCHANGED <<db, writer, cmd, target, part>>

Commit(p) ==
    /\ pc[p] = "commit"
    /\ db' = work /\ writer' = NoProc
    /\ \/ /\ cmd[p] = "upgradeAll" /\ target[p] < Max
          /\ target' = [target EXCEPT ![p] = @ + 1]
          /\ Goto(p, "begin")
       \/ /\ ~(cmd[p] = "upgradeAll" /\ target[p] < Max)
          /\ Goto(p, "report") /\ UNCHANGED target
    /\ UNCHANGED <<work, cmd, part>>

Report(p) ==
    /\ pc[p] = "report"
    /\ Goto(p, "idle")
    /\ UNCHANGED <<db, work, writer, cmd, target, part>>

-----------------------------------------------------------------------------
(* Failures                                                                 *)

(* The transaction ends with its process: ROLLBACK, or the file's recovery. *)
CommitsHalf(p) ==                                \* seeded fault: no transaction
    /\ db' = Seen(p)
    /\ writer' = IF writer = p THEN NoProc ELSE writer
RolledBack(p) ==
    /\ writer' = IF writer = p THEN NoProc ELSE writer
    /\ UNCHANGED db

Exit(p) ==
    /\ Goto(p, "idle")
    /\ RolledBack(p)
    /\ UNCHANGED <<work, cmd, target, part>>

(* Statements the database refuses: the table exists already, a migration's *)
(* statement finds what it does not expect, busy_timeout runs out.          *)
Refused(p) ==
    \/ pc[p] = "createTable" /\ db.table # "none"
    \/ pc[p] = "statement" /\ Upgrading(p) /\ ~CanCreate(Seen(p), target[p], part[p])
    \/ pc[p] = "statement" /\ ~Upgrading(p) /\ ~CanDrop(Seen(p), target[p] + 1)
    \/ pc[p] \in {"createTable", "insertRow", "statement"} /\ ~Lockable(p)

(* The exception goes through rollback() to main(), which ends.             *)
NeverThrows(p) == FALSE                          \* seeded fault
Throw(p) ==
    /\ pc[p] \notin {"idle", "check"}
    /\ Failures \/ Refused(p)
    /\ Exit(p)

Kill(p) == Kills /\ pc[p] # "idle" /\ Exit(p)

Step(p) ==
    \/ Check(p) \/ CreateTable(p) \/ InsertRow(p) \/ Look(p) \/ Read(p)
    \/ Begin(p) \/ Statement(p) \/ SetCurrentVersion(p) \/ Commit(p) \/ Report(p)
    \/ Throw(p)

Next == \E p \in Procs : Step(p) \/ Kill(p) \/ \E c \in Commands : Start(p, c)

Spec     == Init /\ [][Next]_vars
(* A running process goes on.                                               *)
FairSpec == Spec /\ \A p \in Procs : WF_vars(Step(p))

-----------------------------------------------------------------------------
(* Properties                                                               *)

(* The database holds whole migrations only, each on top of the ones before *)
(* it, wherever processes fail or are killed and whatever version they read *)
(* before their transaction.                                                *)
WholeMigrations ==
    /\ \A m \in Migrations : db.rows[m] \in {0, Parts}
    /\ \A m, n \in Migrations : n < m /\ db.rows[m] = Parts => db.rows[n] = Parts

(* The version row tells what the database holds, although it is read       *)
(* outside the transaction that changes both: a process that read a stale   *)
(* version is refused by the tables themselves.                             *)
VersionMatches ==
    db.table = "row" => \A m \in Migrations : db.rows[m] = (IF m <= db.version THEN Parts ELSE 0)

(* The migration a process has decided on and not yet made.                 *)
Decided(p) == pc[p] \in {"begin"} \cup InTransaction
Wish == [p \in Procs |-> IF Decided(p) THEN {[up |-> Upgrading(p), to |-> target[p]]} ELSE {}]
Done == {p \in Procs : pc[p] = "report"}

Abstract == INSTANCE SchemaVersions WITH rows <- db.rows, wish <- Wish, granted <- Done

(* Although a version is read before the transaction that relies on it, each *)
(* commit is a step of SchemaVersions: an upgrade from exactly the version   *)
(* before its own, a downgrade from one no lower than where it leads.  What  *)
(* fails, is refused or is killed changes nothing.                           *)
ImplementsSchemaVersions == Abstract!Spec

(* Every run of the migrator ends, with whomever it shares the file.        *)
RunsEnd == \A p \in Procs : (pc[p] # "idle") ~> (pc[p] = "idle")

(* setCurrentVersion() sets the version: when a migration is committed,     *)
(* currentVersion() is where it leads.                                      *)
CommitSetsVersion ==
    [][\A p \in Procs :
          pc[p] = "commit" /\ pc'[p] \in {"begin", "report"} => CurrentVersion' = target[p]]_vars
=============================================================================
