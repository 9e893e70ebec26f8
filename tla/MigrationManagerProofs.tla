------------------------ MODULE MigrationManagerProofs ------------------------
(***************************************************************************)
(* The migrator leaves whole migrations and a version that tells which,    *)
(* for any number of processes, migrations and statements.                 *)
(*                                                                         *)
(* A process decides on its migration by a version read earlier, so        *)
(* nothing is known of the database when its transaction begins.  The      *)
(* invariant says what the statements that were not refused have shown     *)
(* since: the copy the writer works on holds the migrations before its own *)
(* whole, none after it, and of its own what it has done so far (Working). *)
(***************************************************************************)
EXTENDS MigrationManager, TLAPS

(* The migration a process makes or takes back.                             *)
Own(p) == IF Upgrading(p) THEN target[p] ELSE target[p] + 1

Aimed == \A p \in Procs : pc[p] \in {"begin"} \cup InTransaction => Own(p) \in Migrations

(* Who writes is in its transaction, and has executed part of it.           *)
Counted ==
    \A p \in Procs :
        /\ pc[p] = "statement" => part[p] < Parts /\ (part[p] > 0 => writer = p)
        /\ pc[p] \in {"setVersion", "commit"} => part[p] = Parts /\ writer = p
        /\ writer = p => pc[p] \in InTransaction /\ part[p] > 0

WholeBut(d, m) ==
    \A n \in Migrations : (n < m => d.rows[n] = Parts) /\ (n > m => d.rows[n] = 0)

Working ==
    \A p \in Procs : writer = p =>
        /\ WholeBut(work, Own(p))
        /\ Upgrading(p) => work.rows[Own(p)] = part[p]
        /\ ~Upgrading(p) => work.rows[Own(p)] <= Parts - part[p]

IInv == TypeOK /\ Aimed /\ Counted /\ Working /\ WholeMigrations

(* The version, where one process makes ".schema" with its row before the   *)
(* next one starts.                                                         *)
FirstPlaces == {"check", "createTable", "insertRow"}
Untouched   == \A m \in Migrations : db.rows[m] = 0

FirstAlone == \A p, q \in Procs : pc[p] \in FirstPlaces /\ pc[q] \in FirstPlaces => p = q

Fresh ==
    /\ \A p \in Procs : pc[p] = "insertRow" => db.table = "empty"
    /\ (db.table = "none" \/ \E p \in Procs : pc[p] = "insertRow") =>
          Untouched /\ \A q \in Procs : pc[q] \in {"idle"} \cup FirstPlaces

Versioned ==
    \A p \in Procs :
        /\ writer = p => work.table = db.table
        /\ pc[p] = "commit" /\ work.table = "row" => work.version = target[p]

VInv == IInv /\ FirstAlone /\ Fresh /\ Versioned /\ VersionMatches

(* For SchemaVersions: the file is at one version, and while a process      *)
(* writes, it is one its migration can start from.  Nobody compares it: the *)
(* first statement was not refused, and the lock has kept the file since.   *)
AtVersion == \E v \in 0 .. Max : db.rows = Abstract!Schema(v)
Based ==
    \A p \in Procs : writer = p =>
        /\ \A n \in Migrations : n < Own(p) => db.rows[n] = Parts
        /\ Upgrading(p) => db.rows[Own(p)] = 0

RInv == IInv /\ AtVersion /\ Based

-----------------------------------------------------------------------------
(* The steps of a process                                                   *)

Moves(p) ==
    \/ \E c \in Commands : Start(p, c)
    \/ Check(p) \/ CreateTable(p) \/ InsertRow(p) \/ Look(p) \/ Read(p)
    \/ Begin(p) \/ Statement(p) \/ SetCurrentVersion(p) \/ Commit(p) \/ Report(p)
    \/ (pc[p] # "idle" /\ Exit(p))

LEMMA RowInserted ==
    ASSUME NEW d \in Database
    PROVE  [d EXCEPT !.table = "row", !.version = 0] \in Database
  <1>1. d.rows \in [Migrations -> 0 .. Parts] /\ 0 \in 0 .. Max
    BY MaxAssumption DEF Database
  <1>2. ASSUME NEW R, d.rows \in R, NEW V, 0 \in V
        PROVE  [d EXCEPT !.table = "row", !.version = 0] \in
                  [table : {"none", "empty", "row"}, version : V, rows : R]
    BY <1>2 DEF Database
  <1> QED
    BY <1>1, <1>2 DEF Database

(* What the next statement of a migration leaves of whole ones before it.   *)
LEMMA CreatedWhole ==
    ASSUME NEW d \in Database, NEW m \in Migrations, NEW k \in Nat, WholeBut(d, m)
    PROVE  WholeBut(Created(d, m, k), m) /\ Created(d, m, k).rows[m] = k + 1
  <1>1. Created(d, m, k).rows = [d.rows EXCEPT ![m] = k + 1]
    BY DEF Created, Database
  <1>2. d.rows \in [Migrations -> 0 .. Parts]
    BY DEF Database
  <1> QED
    BY <1>1, <1>2, MaxAssumption DEF WholeBut, Migrations

LEMMA DroppedWhole ==
    ASSUME NEW d \in Database, NEW m \in Migrations, NEW k \in Nat, CanDrop(d, m)
    PROVE  WholeBut(Dropped(d, m, k), m) /\ Dropped(d, m, k).rows[m] <= Parts - (k + 1)
  <1> DEFINE e == Dropped(d, m, k)
  <1>1. \A n \in Migrations : n < m => e.rows[n] = Parts
    BY DEF Dropped, CanDrop, Database, Migrations
  <1>2. \A n \in Migrations : n > m => e.rows[n] = 0
    BY DEF Dropped, Database, Migrations
  <1>3. e.rows[m] = IF d.rows[m] < Parts - k - 1 THEN d.rows[m] ELSE Parts - k - 1
    BY DEF Dropped, Database, Migrations
  <1>4. e.rows[m] <= Parts - (k + 1)
    BY <1>3, PartsAssumption DEF Database
  <1> QED
    BY <1>1, <1>2, <1>4 DEF WholeBut

LEMMA NextMoves == Next => \E p \in Procs : Moves(p)
  BY DEF Next, Step, Throw, Kill, Moves

(* Types.                                                                   *)
LEMMA TypeOKStep ==
    ASSUME IInv, NEW p \in Procs, Moves(p)
    PROVE  TypeOK'
  <1> USE DEF IInv, TypeOK, Goto, Places, InTransaction, Commands
  <1>1. ASSUME NEW c \in Commands, Start(p, c) PROVE TypeOK'
    BY MaxAssumption, PartsAssumption, <1>1 DEF Start
  <1>2. CASE Check(p)
    BY MaxAssumption, PartsAssumption, <1>2 DEF Check, AfterTable
  <1>3. CASE CreateTable(p)
    BY MaxAssumption, PartsAssumption, <1>3 DEF CreateTable, Database
  <1>4. CASE InsertRow(p)
    <2>1. db' \in Database
      BY <1>4, RowInserted DEF InsertRow
    <2> QED
      BY <1>4, <2>1 DEF InsertRow, AfterTable
  <1>5. CASE Look(p)
    BY MaxAssumption, PartsAssumption, <1>5 DEF Look
  <1>6. CASE Read(p)
    BY MaxAssumption, PartsAssumption, <1>6 DEF Read, CurrentVersion, Database
  <1>7. CASE Begin(p)
    BY MaxAssumption, PartsAssumption, <1>7 DEF Begin
  <1>8. CASE Statement(p)
    <2>1. Seen(p) \in Database
      BY DEF Seen
    <2>2. Own(p) \in Migrations /\ part[p] \in 0 .. Parts /\ part[p] + 1 \in 0 .. Parts
      BY <1>8, PartsAssumption DEF Statement, Aimed, Counted
    <2>3. work' \in Database
      <3>1. CASE Upgrading(p) /\ work' = Created(Seen(p), Own(p), part[p])
        BY <2>1, <2>2, <3>1 DEF Created, Database
      <3>2. CASE ~Upgrading(p) /\ work' = Dropped(Seen(p), Own(p), part[p])
        BY <2>1, <2>2, <3>2, PartsAssumption DEF Dropped, Database
      <3> QED
        BY <1>8, <3>1, <3>2 DEF Statement, Own
    <2> QED
      BY <1>8, <2>2, <2>3 DEF Statement
  <1>9. CASE SetCurrentVersion(p)
    BY MaxAssumption, PartsAssumption, <1>9 DEF SetCurrentVersion, Database
  <1>10. CASE Commit(p)
    BY MaxAssumption, PartsAssumption, <1>10 DEF Commit
  <1>11. CASE Report(p)
    BY MaxAssumption, PartsAssumption, <1>11 DEF Report
  <1>12. CASE pc[p] # "idle" /\ Exit(p)
    BY MaxAssumption, PartsAssumption, <1>12 DEF Exit, RolledBack
  <1> QED
    BY <1>1, <1>2, <1>3, <1>4, <1>5, <1>6, <1>7, <1>8, <1>9, <1>10, <1>11, <1>12 DEF Moves

(* A process is about a migration there is.                                 *)
LEMMA AimedStep ==
    ASSUME IInv, NEW p \in Procs, Moves(p)
    PROVE  Aimed'
  <1> USE DEF IInv, TypeOK, Aimed, Own, Upgrading, Goto, Migrations, InTransaction
  <1>1. ASSUME NEW c \in Commands, Start(p, c) PROVE Aimed'
    BY MaxAssumption, <1>1 DEF Start
  <1>2. CASE Check(p)
    BY MaxAssumption, <1>2 DEF Check, AfterTable
  <1>3. CASE CreateTable(p)
    BY MaxAssumption, <1>3 DEF CreateTable
  <1>4. CASE InsertRow(p)
    BY MaxAssumption, <1>4 DEF InsertRow, AfterTable
  <1>5. CASE Look(p)
    BY MaxAssumption, <1>5 DEF Look
  <1>6. CASE Read(p)
    <2>1. CurrentVersion \in 0 .. Max
      BY MaxAssumption DEF CurrentVersion, Database
    <2>2. CASE Upgrading(p) /\ CurrentVersion # Max
      BY <1>6, <2>1, <2>2, MaxAssumption DEF Read
    <2>3. CASE ~Upgrading(p) /\ CurrentVersion # 0
      BY <1>6, <2>1, <2>3, MaxAssumption DEF Read
    <2> QED
      BY <1>6, <2>2, <2>3 DEF Read
  <1>7. CASE Begin(p)
    BY MaxAssumption, <1>7 DEF Begin
  <1>8. CASE Statement(p)
    BY MaxAssumption, <1>8 DEF Statement
  <1>9. CASE SetCurrentVersion(p)
    BY MaxAssumption, <1>9 DEF SetCurrentVersion
  <1>10. CASE Commit(p)
    BY MaxAssumption, <1>10 DEF Commit
  <1>11. CASE Report(p)
    BY MaxAssumption, <1>11 DEF Report
  <1>12. CASE pc[p] # "idle" /\ Exit(p)
    BY MaxAssumption, <1>12 DEF Exit, RolledBack
  <1> QED
    BY <1>1, <1>2, <1>3, <1>4, <1>5, <1>6, <1>7, <1>8, <1>9, <1>10, <1>11, <1>12 DEF Moves

(* Counting the statements of a transaction.                                *)
LEMMA CountedStep ==
    ASSUME IInv, NEW p \in Procs, Moves(p)
    PROVE  Counted'
  <1> USE DEF IInv, TypeOK, Counted, Goto, InTransaction
  <1>1. ASSUME NEW c \in Commands, Start(p, c) PROVE Counted'
    BY PartsAssumption, ProcsAssumption, <1>1 DEF Start
  <1>2. CASE Check(p)
    BY PartsAssumption, ProcsAssumption, <1>2 DEF Check, AfterTable
  <1>3. CASE CreateTable(p)
    BY PartsAssumption, ProcsAssumption, <1>3 DEF CreateTable
  <1>4. CASE InsertRow(p)
    BY PartsAssumption, ProcsAssumption, <1>4 DEF InsertRow, AfterTable
  <1>5. CASE Look(p)
    BY PartsAssumption, ProcsAssumption, <1>5 DEF Look
  <1>6. CASE Read(p)
    BY PartsAssumption, ProcsAssumption, <1>6 DEF Read
  <1>7. CASE Begin(p)
    BY PartsAssumption, ProcsAssumption, <1>7 DEF Begin
  <1>8. CASE Statement(p)
    BY PartsAssumption, ProcsAssumption, <1>8 DEF Statement, Lockable
  <1>9. CASE SetCurrentVersion(p)
    BY PartsAssumption, ProcsAssumption, <1>9 DEF SetCurrentVersion
  <1>10. CASE Commit(p)
    BY PartsAssumption, ProcsAssumption, <1>10 DEF Commit
  <1>11. CASE Report(p)
    BY PartsAssumption, ProcsAssumption, <1>11 DEF Report
  <1>12. CASE pc[p] # "idle" /\ Exit(p)
    BY PartsAssumption, ProcsAssumption, <1>12 DEF Exit, RolledBack
  <1> QED
    BY <1>1, <1>2, <1>3, <1>4, <1>5, <1>6, <1>7, <1>8, <1>9, <1>10, <1>11, <1>12 DEF Moves

(* The copy the writer works on.                                            *)
LEMMA WorkingStep ==
    ASSUME IInv, NEW p \in Procs, Moves(p)
    PROVE  Working'
  <1> USE DEF IInv, TypeOK, Counted, Working, WholeBut, Own, Upgrading, Goto,
     InTransaction
  <1>1. ASSUME NEW c \in Commands, Start(p, c) PROVE Working'
    BY ProcsAssumption, <1>1 DEF Start
  <1>2. CASE Check(p)
    BY ProcsAssumption, <1>2 DEF Check
  <1>3. CASE CreateTable(p)
    BY ProcsAssumption, <1>3 DEF CreateTable
  <1>4. CASE InsertRow(p)
    BY ProcsAssumption, <1>4 DEF InsertRow
  <1>5. CASE Look(p)
    BY ProcsAssumption, <1>5 DEF Look
  <1>6. CASE Read(p)
    BY ProcsAssumption, <1>6 DEF Read
  <1>7. CASE Begin(p)
    BY ProcsAssumption, <1>7 DEF Begin
  <1>8. CASE Statement(p)
    <2> DEFINE m == Own(p)
    <2>1. /\ m \in Migrations /\ Own(p)' = m /\ Upgrading(p)' = Upgrading(p)
          /\ part[p] \in 0 .. Parts - 1 /\ part'[p] = part[p] + 1
      BY <1>8, PartsAssumption DEF Statement, Aimed
    <2>2. Seen(p) \in Database /\ (\A n \in Migrations : n < m => Seen(p).rows[n] = Parts)
      BY <1>8 DEF Statement, Seen, CanCreate, CanDrop, Migrations
    <2>3. CASE Upgrading(p)
      <3>1. Seen(p).rows[m] = part[p] /\ work' = Created(Seen(p), m, part[p])
        BY <1>8, <2>3 DEF Statement, CanCreate
      <3>2. \A n \in Migrations : n > m => Seen(p).rows[n] = 0
        <4>1. CASE writer = p
          BY <4>1 DEF Seen
        <4>2. CASE writer # p
          BY <2>1, <2>3, <3>1, <4>2, PartsAssumption DEF Seen, WholeMigrations, Database, Migrations
        <4> QED
          BY <4>1, <4>2
      <3>3. WholeBut(work', m) /\ work'.rows[m] = part[p] + 1
        BY <2>1, <2>2, <3>1, <3>2, CreatedWhole
      <3> QED
        BY <1>8, <2>1, <2>3, <3>3 DEF Statement
    <2>4. CASE ~Upgrading(p)
      <3>1. work' = Dropped(Seen(p), m, part[p]) /\ CanDrop(Seen(p), m)
        BY <1>8, <2>4 DEF Statement
      <3>2. WholeBut(work', m) /\ work'.rows[m] <= Parts - (part[p] + 1)
        BY <2>1, <2>2, <3>1, DroppedWhole
      <3> QED
        BY <1>8, <2>1, <2>4, <3>2 DEF Statement
    <2> QED
      BY <2>3, <2>4
  <1>9. CASE SetCurrentVersion(p)
    BY ProcsAssumption, <1>9 DEF SetCurrentVersion
  <1>10. CASE Commit(p)
    BY ProcsAssumption, <1>10 DEF Commit
  <1>11. CASE Report(p)
    BY ProcsAssumption, <1>11 DEF Report
  <1>12. CASE pc[p] # "idle" /\ Exit(p)
    BY ProcsAssumption, <1>12 DEF Exit, RolledBack
  <1> QED
    BY <1>1, <1>2, <1>3, <1>4, <1>5, <1>6, <1>7, <1>8, <1>9, <1>10, <1>11, <1>12 DEF Moves

(* What is committed is whole.                                              *)
LEMMA WholeMigrationsStep ==
    ASSUME IInv, NEW p \in Procs, Moves(p)
    PROVE  WholeMigrations'
  <1> USE DEF IInv, TypeOK, WholeMigrations
  <1>1. ASSUME NEW c \in Commands, Start(p, c) PROVE WholeMigrations'
    BY PartsAssumption, <1>1 DEF Start
  <1>2. CASE Check(p)
    BY PartsAssumption, <1>2 DEF Check
  <1>3. CASE CreateTable(p)
    BY PartsAssumption, <1>3 DEF CreateTable
  <1>4. CASE InsertRow(p)
    BY PartsAssumption, <1>4 DEF InsertRow
  <1>5. CASE Look(p)
    BY PartsAssumption, <1>5 DEF Look
  <1>6. CASE Read(p)
    BY PartsAssumption, <1>6 DEF Read
  <1>7. CASE Begin(p)
    BY PartsAssumption, <1>7 DEF Begin
  <1>8. CASE Statement(p)
    BY PartsAssumption, <1>8 DEF Statement
  <1>9. CASE SetCurrentVersion(p)
    BY PartsAssumption, <1>9 DEF SetCurrentVersion
  <1>10. CASE Commit(p)
    <2>1. /\ db' = work /\ Own(p) \in Migrations /\ WholeBut(work, Own(p))
          /\ work.rows[Own(p)] = Parts \/ work.rows[Own(p)] <= 0
      BY <1>10, PartsAssumption DEF Commit, Aimed, InTransaction, Counted, Working
    <2>2. work.rows[Own(p)] \in {0, Parts}
      BY <2>1, PartsAssumption DEF Database
    <2> QED
      BY <2>1, <2>2, PartsAssumption DEF WholeBut, Migrations
  <1>11. CASE Report(p)
    BY PartsAssumption, <1>11 DEF Report
  <1>12. CASE pc[p] # "idle" /\ Exit(p)
    BY PartsAssumption, <1>12 DEF Exit, RolledBack
  <1> QED
    BY <1>1, <1>2, <1>3, <1>4, <1>5, <1>6, <1>7, <1>8, <1>9, <1>10, <1>11, <1>12 DEF Moves

-----------------------------------------------------------------------------
(* The version                                                              *)

(* One process at a time makes the table.                                   *)
LEMMA FirstAloneStep ==
    ASSUME ~SharedFirstRun, VInv, NEW p \in Procs, Moves(p)
    PROVE  FirstAlone'
  <1> USE DEF VInv, IInv, TypeOK, FirstAlone, FirstPlaces, Goto, InTransaction
  <1>1. ASSUME NEW c \in Commands, Start(p, c) PROVE FirstAlone'
    BY <1>1 DEF Start
  <1>2. CASE Check(p)
    BY <1>2 DEF Check, AfterTable
  <1>3. CASE CreateTable(p)
    BY <1>3 DEF CreateTable
  <1>4. CASE InsertRow(p)
    BY <1>4 DEF InsertRow, AfterTable
  <1>5. CASE Look(p)
    BY <1>5 DEF Look
  <1>6. CASE Read(p)
    BY <1>6 DEF Read
  <1>7. CASE Begin(p)
    BY <1>7 DEF Begin
  <1>8. CASE Statement(p)
    BY <1>8 DEF Statement
  <1>9. CASE SetCurrentVersion(p)
    BY <1>9 DEF SetCurrentVersion
  <1>10. CASE Commit(p)
    BY <1>10 DEF Commit
  <1>11. CASE Report(p)
    BY <1>11 DEF Report
  <1>12. CASE pc[p] # "idle" /\ Exit(p)
    BY <1>12 DEF Exit, RolledBack
  <1> QED
    BY <1>1, <1>2, <1>3, <1>4, <1>5, <1>6, <1>7, <1>8, <1>9, <1>10, <1>11, <1>12 DEF Moves

(* Until its row is there nobody has gone on to a migration.                *)
LEMMA FreshStep ==
    ASSUME ~SharedFirstRun, VInv, NEW p \in Procs, Moves(p)
    PROVE  Fresh'
  <1> USE DEF VInv, IInv, TypeOK, FirstAlone, Fresh, FirstPlaces, Untouched, Goto,
     InTransaction
  <1>1. ASSUME NEW c \in Commands, Start(p, c) PROVE Fresh'
    BY <1>1 DEF Start
  <1>2. CASE Check(p)
    BY <1>2 DEF Check, AfterTable
  <1>3. CASE CreateTable(p)
    BY <1>3 DEF CreateTable
  <1>4. CASE InsertRow(p)
    BY <1>4 DEF InsertRow, AfterTable
  <1>5. CASE Look(p)
    BY <1>5 DEF Look
  <1>6. CASE Read(p)
    BY <1>6 DEF Read
  <1>7. CASE Begin(p)
    BY <1>7 DEF Begin
  <1>8. CASE Statement(p)
    BY <1>8 DEF Statement
  <1>9. CASE SetCurrentVersion(p)
    BY <1>9 DEF SetCurrentVersion
  <1>10. CASE Commit(p)
    BY <1>10 DEF Commit, Counted, Working, Versioned
  <1>11. CASE Report(p)
    BY <1>11 DEF Report
  <1>12. CASE pc[p] # "idle" /\ Exit(p)
    BY <1>12 DEF Exit, RolledBack
  <1> QED
    BY <1>1, <1>2, <1>3, <1>4, <1>5, <1>6, <1>7, <1>8, <1>9, <1>10, <1>11, <1>12 DEF Moves

(* The version the writer is about to commit.                               *)
LEMMA VersionedStep ==
    ASSUME ~SharedFirstRun, VInv, NEW p \in Procs, Moves(p)
    PROVE  Versioned'
  <1> USE DEF VInv, IInv, TypeOK, Counted, Versioned, Goto, InTransaction
  <1>1. ASSUME NEW c \in Commands, Start(p, c) PROVE Versioned'
    BY ProcsAssumption, <1>1 DEF Start
  <1>2. CASE Check(p)
    BY ProcsAssumption, <1>2 DEF Check, AfterTable
  <1>3. CASE CreateTable(p)
    BY ProcsAssumption, <1>3 DEF CreateTable, Lockable
  <1>4. CASE InsertRow(p)
    BY ProcsAssumption, <1>4 DEF InsertRow, Lockable, AfterTable
  <1>5. CASE Look(p)
    BY ProcsAssumption, <1>5 DEF Look
  <1>6. CASE Read(p)
    BY ProcsAssumption, <1>6 DEF Read
  <1>7. CASE Begin(p)
    BY ProcsAssumption, <1>7 DEF Begin
  <1>8. CASE Statement(p)
    <2>1. Seen(p) \in Database /\ Seen(p).table = db.table
      BY DEF Seen
    <2>2. work'.table = Seen(p).table
      BY <1>8, <2>1 DEF Statement, Created, Dropped, Database
    <2>3. writer' = p /\ UNCHANGED db /\ \A q \in Procs : pc'[q] = "commit" => pc[q] = "commit" /\ q # p
      BY <1>8 DEF Statement
    <2>4. \A q \in Procs : pc[q] = "commit" => q = p
      BY <1>8, <2>3, ProcsAssumption DEF Statement, Lockable
    <2> QED
      BY <2>1, <2>2, <2>3, <2>4
  <1>9. CASE SetCurrentVersion(p)
    BY ProcsAssumption, <1>9 DEF SetCurrentVersion, Database
  <1>10. CASE Commit(p)
    BY ProcsAssumption, <1>10 DEF Commit
  <1>11. CASE Report(p)
    BY ProcsAssumption, <1>11 DEF Report
  <1>12. CASE pc[p] # "idle" /\ Exit(p)
    BY ProcsAssumption, <1>12 DEF Exit, RolledBack
  <1> QED
    BY <1>1, <1>2, <1>3, <1>4, <1>5, <1>6, <1>7, <1>8, <1>9, <1>10, <1>11, <1>12 DEF Moves

(* What is committed has the version that was set.                          *)
LEMMA VersionMatchesStep ==
    ASSUME ~SharedFirstRun, VInv, NEW p \in Procs, Moves(p)
    PROVE  VersionMatches'
  <1> USE DEF VInv, IInv, TypeOK, VersionMatches, Goto
  <1>1. ASSUME NEW c \in Commands, Start(p, c) PROVE VersionMatches'
    BY PartsAssumption, <1>1 DEF Start
  <1>2. CASE Check(p)
    BY PartsAssumption, <1>2 DEF Check
  <1>3. CASE CreateTable(p)
    BY PartsAssumption, <1>3 DEF CreateTable
  <1>4. CASE InsertRow(p)
    <2>1. db'.version = 0 /\ db'.rows = db.rows
      BY <1>4 DEF InsertRow, Database
    <2>2. \A m \in Migrations : db.rows[m] = 0 /\ ~(m <= 0)
      BY <1>4, MaxAssumption DEF InsertRow, Fresh, Untouched, Migrations
    <2> QED
      BY <2>1, <2>2
  <1>5. CASE Look(p)
    BY PartsAssumption, <1>5 DEF Look
  <1>6. CASE Read(p)
    BY PartsAssumption, <1>6 DEF Read
  <1>7. CASE Begin(p)
    BY PartsAssumption, <1>7 DEF Begin
  <1>8. CASE Statement(p)
    BY PartsAssumption, <1>8 DEF Statement
  <1>9. CASE SetCurrentVersion(p)
    BY PartsAssumption, <1>9 DEF SetCurrentVersion
  <1>10. CASE Commit(p)
    <2>1. /\ db' = work /\ Own(p) \in Migrations /\ WholeBut(work, Own(p))
          /\ work.table = "row" => work.version = target[p]
          /\ Upgrading(p) => work.rows[Own(p)] = Parts
          /\ ~Upgrading(p) => work.rows[Own(p)] <= 0
      BY <1>10, PartsAssumption DEF Commit, Aimed, InTransaction, Counted, Working, Versioned
    <2>2. work.rows[Own(p)] \in Nat
      BY <2>1 DEF Database
    <2>3. \A m \in Migrations : work.rows[m] = IF m <= target[p] THEN Parts ELSE 0
      BY <2>1, <2>2 DEF WholeBut, Own, Migrations
    <2> QED
      BY <2>1, <2>3
  <1>11. CASE Report(p)
    BY PartsAssumption, <1>11 DEF Report
  <1>12. CASE pc[p] # "idle" /\ Exit(p)
    BY PartsAssumption, <1>12 DEF Exit, RolledBack
  <1> QED
    BY <1>1, <1>2, <1>3, <1>4, <1>5, <1>6, <1>7, <1>8, <1>9, <1>10, <1>11, <1>12 DEF Moves

-----------------------------------------------------------------------------
(* The refinement                                                           *)

(* A process that commits has brought its copy to the version it wanted.    *)
LEMMA CommitReaches ==
    ASSUME IInv, NEW p \in Procs, Commit(p)
    PROVE  target[p] \in 0 .. Max /\ db'.rows = Abstract!Schema(target[p])
  <1>1. /\ db' = work /\ work \in Database /\ Own(p) \in Migrations /\ WholeBut(work, Own(p))
        /\ target[p] \in 0 .. Max
        /\ Upgrading(p) => work.rows[Own(p)] = Parts
        /\ ~Upgrading(p) => work.rows[Own(p)] <= 0
    BY PartsAssumption DEF IInv, TypeOK, Commit, Aimed, InTransaction, Counted, Working
  <1>2. work.rows \in [Migrations -> 0 .. Parts]
    BY <1>1 DEF Database
  <1>3. \A m \in Migrations : work.rows[m] = IF m <= target[p] THEN Parts ELSE 0
    BY <1>1, <1>2, MaxAssumption, PartsAssumption DEF WholeBut, Own, Migrations
  <1>4. work.rows = [m \in Migrations |-> IF m <= target[p] THEN Parts ELSE 0]
    BY <1>2, <1>3
  <1> QED
    BY <1>1, <1>4 DEF Abstract!Schema, Migrations

(* Only a commit changes what the file holds.                               *)
LEMMA RowsKept ==
    ASSUME IInv, NEW p \in Procs, Moves(p), ~Commit(p)
    PROVE  db'.rows = db.rows
  BY DEF IInv, TypeOK, Database, Moves, Start, Check, CreateTable, InsertRow, Look, Read, Begin,
     Statement, SetCurrentVersion, Report, Exit, RolledBack

LEMMA AtVersionStep ==
    ASSUME RInv, NEW p \in Procs, Moves(p)
    PROVE  AtVersion'
  <1>1. CASE Commit(p)
    BY <1>1, CommitReaches DEF RInv, AtVersion, Abstract!Schema
  <1>2. CASE ~Commit(p)
    BY <1>2, RowsKept DEF RInv, AtVersion, Abstract!Schema
  <1> QED
    BY <1>1, <1>2

(* The version a transaction starts from stays while it writes.             *)
LEMMA BasedStep ==
    ASSUME RInv, NEW p \in Procs, Moves(p)
    PROVE  Based'
  <1> USE DEF RInv, IInv, TypeOK, Counted, Based, Own, Upgrading, Goto, InTransaction
  <1>1. ASSUME NEW c \in Commands, Start(p, c) PROVE Based'
    BY ProcsAssumption, <1>1 DEF Start
  <1>2. CASE Check(p)
    BY ProcsAssumption, <1>2 DEF Check
  <1>3. CASE CreateTable(p)
    BY ProcsAssumption, <1>3 DEF CreateTable, Lockable
  <1>4. CASE InsertRow(p)
    BY ProcsAssumption, <1>4 DEF InsertRow, Lockable
  <1>5. CASE Look(p)
    BY ProcsAssumption, <1>5 DEF Look
  <1>6. CASE Read(p)
    BY ProcsAssumption, <1>6 DEF Read
  <1>7. CASE Begin(p)
    BY ProcsAssumption, <1>7 DEF Begin
  <1>8. CASE Statement(p)
    <2>1. UNCHANGED <<db, cmd, target>> /\ writer' = p /\ Own(p) \in Migrations
      BY <1>8 DEF Statement, Aimed
    <2>2. CASE writer = p
      BY <2>1, <2>2
    <2>3. CASE writer # p
      <3>1. part[p] = 0 /\ Seen(p) = db
        BY <1>8, <2>3 DEF Statement, Seen
      <3>2. CASE Upgrading(p)
        BY <1>8, <2>1, <3>1, <3>2 DEF Statement, CanCreate, Migrations
      <3>3. CASE ~Upgrading(p)
        BY <1>8, <2>1, <3>1, <3>3 DEF Statement, CanDrop, Migrations
      <3> QED
        BY <3>2, <3>3
    <2> QED
      BY <2>2, <2>3
  <1>9. CASE SetCurrentVersion(p)
    BY ProcsAssumption, <1>9 DEF SetCurrentVersion
  <1>10. CASE Commit(p)
    BY ProcsAssumption, <1>10 DEF Commit
  <1>11. CASE Report(p)
    BY ProcsAssumption, <1>11 DEF Report
  <1>12. CASE pc[p] # "idle" /\ Exit(p)
    BY ProcsAssumption, <1>12 DEF Exit, RolledBack
  <1> QED
    BY <1>1, <1>2, <1>3, <1>4, <1>5, <1>6, <1>7, <1>8, <1>9, <1>10, <1>11, <1>12 DEF Moves

(* What the file is at when a process commits, as SchemaVersions wants it.  *)
LEMMA CommitFrom ==
    ASSUME RInv, NEW p \in Procs, Commit(p)
    PROVE  \E v \in 0 .. Max :
              /\ db.rows = Abstract!Schema(v)
              /\ IF Upgrading(p) THEN v = target[p] - 1 ELSE v >= target[p]
  <1>1. /\ writer = p /\ Own(p) \in Migrations /\ target[p] \in 0 .. Max
        /\ \A n \in Migrations : n < Own(p) => db.rows[n] = Parts
        /\ Upgrading(p) => db.rows[Own(p)] = 0
    BY DEF RInv, IInv, TypeOK, Commit, Aimed, Counted, Based, InTransaction
  <1>2. PICK v \in 0 .. Max : db.rows = Abstract!Schema(v)
    BY DEF RInv, AtVersion
  <1>3. \A m \in Migrations : db.rows[m] = IF m <= v THEN Parts ELSE 0
    BY <1>2 DEF Abstract!Schema, Migrations
  <1>4. Own(p) > 1 => v >= Own(p) - 1
    <2> SUFFICES ASSUME Own(p) > 1 PROVE v >= Own(p) - 1
      OBVIOUS
    <2>1. Own(p) - 1 \in Migrations /\ Own(p) - 1 < Own(p)
      BY <1>1, MaxAssumption DEF Migrations
    <2> QED
      BY <1>1, <1>3, <2>1, PartsAssumption DEF Migrations
  <1>5. v >= Own(p) - 1
    BY <1>1, <1>4 DEF Migrations
  <1>6. CASE Upgrading(p)
    BY <1>1, <1>2, <1>3, <1>5, <1>6, PartsAssumption DEF Own, Migrations
  <1>7. CASE ~Upgrading(p)
    BY <1>1, <1>2, <1>5, <1>7 DEF Own, Migrations
  <1> QED
    BY <1>6, <1>7

AbstractNext == Abstract!Next \/ UNCHANGED <<db.rows, Wish, Done>>

(* What SchemaVersions sees of the other processes stays.                   *)
LEMMA WishOf ==
    ASSUME TypeOK, NEW p \in Procs,
           \A q \in Procs \ {p} : pc'[q] = pc[q] /\ cmd'[q] = cmd[q] /\ target'[q] = target[q]
    PROVE  /\ Wish' = [Wish EXCEPT ![p] =
                  IF Decided(p)' THEN {[up |-> Upgrading(p)', to |-> target'[p]]} ELSE {}]
           /\ Done' = IF pc'[p] = "report" THEN Done \cup {p} ELSE Done \ {p}
  BY DEF Wish, Done, Decided, Upgrading

LEMMA OthersStay ==
    ASSUME IInv, NEW p \in Procs, Moves(p)
    PROVE  \A q \in Procs \ {p} : pc'[q] = pc[q] /\ cmd'[q] = cmd[q] /\ target'[q] = target[q]
  BY DEF IInv, TypeOK, Moves, Goto, Start, Check, CreateTable, InsertRow, Look, Read, Begin,
     Statement, SetCurrentVersion, Commit, Report, Exit

(* The steps of a process that has decided on nothing.                      *)
LEMMA IdleRefines ==
    ASSUME RInv, NEW p \in Procs, ~Decided(p), pc[p] # "report", Moves(p)
    PROVE  AbstractNext
  <1> USE DEF RInv, IInv, TypeOK, Decided, InTransaction
  <1>1. db'.rows = db.rows
    BY RowsKept DEF Commit
  <1>2. Wish[p] = {} /\ p \notin Done
    BY DEF Wish, Done
  <1>3. CASE Read(p) /\ pc'[p] = "begin"
    <2>1. /\ target' \in [Procs -> 0 .. Max]
          /\ Upgrading(p)' = Upgrading(p) /\ Decided(p)' /\ pc'[p] # "report"
      BY <1>3, TypeOKStep DEF Read, Upgrading
    <2>2. Done' = Done \ {p} /\ Wish' = [Wish EXCEPT ![p] = {[up |-> Upgrading(p), to |-> target'[p]]}]
      BY <2>1, WishOf, OthersStay
    <2>3. [up |-> Upgrading(p), to |-> target'[p]] \in Abstract!Wishes
      BY <2>1 DEF Abstract!Wishes, Upgrading
    <2>4. Abstract!Decide(p)
      BY <1>1, <1>2, <2>2, <2>3 DEF Abstract!Decide
    <2> QED
      BY <2>4 DEF AbstractNext, Abstract!Next
  <1>4. CASE ~(Read(p) /\ pc'[p] = "begin")
    <2>1. ~Decided(p)' /\ pc'[p] # "report"
      BY <1>4 DEF Moves, Goto, Start, Check, CreateTable, InsertRow, AfterTable, Look, Read, Begin,
         Statement, SetCurrentVersion, Commit, Report, Exit
    <2>2. Wish' = [Wish EXCEPT ![p] = {}] /\ Done' = Done \ {p}
      BY <2>1, WishOf, OthersStay
    <2>3. Wish \in [Procs -> SUBSET Abstract!Wishes]
      BY DEF Wish, Abstract!Wishes, Upgrading
    <2> QED
      BY <1>1, <1>2, <2>2, <2>3 DEF AbstractNext
  <1> QED
    BY <1>3, <1>4

(* The steps of a process with a migration to make: it goes on with it      *)
(* unseen, it commits, or it gives up.                                      *)
LEMMA DecidedRefines ==
    ASSUME RInv, NEW p \in Procs, Decided(p), Moves(p)
    PROVE  AbstractNext
  <1> USE DEF RInv, IInv, TypeOK, Decided, InTransaction
  <1> DEFINE w == [up |-> Upgrading(p), to |-> target[p]]
  <1>1. Wish[p] = {w} /\ p \notin Done /\ w \in Abstract!Wishes
    BY DEF Wish, Done, Upgrading, Abstract!Wishes
  <1>2. Wish \in [Procs -> SUBSET Abstract!Wishes]
    BY DEF Wish, Abstract!Wishes, Upgrading
  <1>3. CASE Begin(p) \/ Statement(p) \/ SetCurrentVersion(p)
    <2>1. UNCHANGED <<cmd, target>> /\ Decided(p)' /\ pc'[p] # "report" /\ db'.rows = db.rows
      BY <1>3 DEF Begin, Statement, SetCurrentVersion, Goto
    <2>2. Wish' = [Wish EXCEPT ![p] = {w}] /\ Done' = Done \ {p}
      BY <2>1, WishOf, OthersStay DEF Upgrading
    <2> QED
      BY <1>1, <1>2, <2>1, <2>2 DEF AbstractNext
  <1>4. CASE Commit(p)
    <2>1. Abstract!Reaches(w)
      BY <1>4, CommitFrom, CommitReaches DEF Abstract!Reaches
    <2>2. CASE cmd[p] = "upgradeAll" /\ target[p] < Max
      <3>1. /\ Upgrading(p) /\ Upgrading(p)' /\ Decided(p)' /\ pc'[p] # "report"
            /\ target'[p] = target[p] + 1
        BY <1>4, <2>2 DEF Commit, Goto, Upgrading
      <3>2. Upgrading(p)' = TRUE /\ target'[p] = w.to + 1
        BY <3>1 DEF Upgrading
      <3>3. Wish' = [Wish EXCEPT ![p] = {[up |-> TRUE, to |-> w.to + 1]}]
        BY <3>1, <3>2, WishOf, OthersStay
      <3>4. Done' = Done
        BY <1>1, <3>1, WishOf, OthersStay
      <3>5. Abstract!Grant(p)
        BY <1>1, <2>1, <2>2, <3>1, <3>3, <3>4 DEF Abstract!Grant
      <3> QED
        BY <3>5 DEF AbstractNext, Abstract!Next
    <2>3. CASE ~(cmd[p] = "upgradeAll" /\ target[p] < Max)
      <3>1. ~Decided(p)' /\ pc'[p] = "report"
        BY <1>4, <2>3 DEF Commit, Goto
      <3>2. Wish' = [Wish EXCEPT ![p] = {}] /\ Done' = Done \cup {p}
        BY <3>1, WishOf, OthersStay
      <3>3. Abstract!Grant(p)
        BY <1>1, <2>1, <3>2 DEF Abstract!Grant
      <3> QED
        BY <3>3 DEF AbstractNext, Abstract!Next
    <2> QED
      BY <2>2, <2>3
  <1>5. CASE Exit(p)
    <2>1. ~Decided(p)' /\ pc'[p] # "report" /\ db'.rows = db.rows
      BY <1>5 DEF Exit, RolledBack, Goto
    <2>2. Wish' = [Wish EXCEPT ![p] = {}] /\ Done' = Done
      BY <1>1, <2>1, WishOf, OthersStay
    <2>3. Abstract!GiveUp(p)
      BY <1>1, <2>1, <2>2 DEF Abstract!GiveUp
    <2> QED
      BY <2>3 DEF AbstractNext, Abstract!Next
  <1> QED
    BY <1>3, <1>4, <1>5 DEF Moves, Start, Check, CreateTable, InsertRow, Look, Read, Report

(* The end of a process that has made its migration.                        *)
LEMMA DoneRefines ==
    ASSUME RInv, NEW p \in Procs, pc[p] = "report", Moves(p)
    PROVE  AbstractNext
  <1> USE DEF RInv, IInv, TypeOK
  <1>1. pc' = [pc EXCEPT ![p] = "idle"] /\ UNCHANGED <<db, cmd, target>>
    BY DEF Moves, Goto, Start, Check, CreateTable, InsertRow, Look, Read, Begin, Statement,
       SetCurrentVersion, Commit, Report, Exit, RolledBack
  <1>2. p \in Done /\ Wish[p] = {} /\ Wish \in [Procs -> SUBSET Abstract!Wishes]
    BY DEF Done, Wish, Decided, InTransaction, Abstract!Wishes, Upgrading
  <1>3. Done' = Done \ {p} /\ Wish' = [Wish EXCEPT ![p] = {}]
    BY <1>1, WishOf, OthersStay DEF Decided, InTransaction
  <1>4. Abstract!Leave(p)
    BY <1>1, <1>2, <1>3 DEF Abstract!Leave
  <1> QED
    BY <1>4 DEF AbstractNext, Abstract!Next

LEMMA NextRefines == RInv /\ [Next]_vars => AbstractNext
  <1> SUFFICES ASSUME RInv, [Next]_vars PROVE AbstractNext
    OBVIOUS
  <1>1. ASSUME NEW p \in Procs, Moves(p) PROVE AbstractNext
    BY <1>1, IdleRefines, DecidedRefines, DoneRefines
  <1>2. CASE UNCHANGED vars
    BY <1>2 DEF vars, AbstractNext, Wish, Done, Decided, Upgrading
  <1> QED
    BY <1>1, <1>2, NextMoves

-----------------------------------------------------------------------------
(* Theorems                                                                 *)

LEMMA InitKeeps == Init => VInv
  <1> SUFFICES ASSUME Init PROVE VInv
    OBVIOUS
  <1>1. NewFile \in Database
    BY MaxAssumption, PartsAssumption DEF NewFile, Database
  <1>2. TypeOK
    BY <1>1, MaxAssumption, PartsAssumption DEF Init, TypeOK, Places, Commands
  <1> QED
    BY <1>2, ProcsAssumption DEF Init, VInv, IInv, Aimed, Counted, Working, WholeMigrations, FirstAlone,
       Fresh, FirstPlaces, Untouched, Versioned, VersionMatches, NewFile, InTransaction

LEMMA NextKeeps == IInv /\ [Next]_vars => IInv'
  <1> SUFFICES ASSUME IInv, [Next]_vars PROVE IInv'
    OBVIOUS
  <1>1. ASSUME NEW p \in Procs, Moves(p) PROVE IInv'
    BY <1>1, TypeOKStep, AimedStep, CountedStep, WorkingStep, WholeMigrationsStep DEF IInv
  <1>2. CASE UNCHANGED vars
    BY <1>2 DEF vars, IInv, TypeOK, Aimed, Own, Upgrading, Counted, Working, WholeBut, WholeMigrations
  <1> QED
    BY <1>1, <1>2, NextMoves

LEMMA NextVersion == ASSUME ~SharedFirstRun PROVE VInv /\ [Next]_vars => VInv'
  <1> SUFFICES ASSUME VInv, [Next]_vars PROVE VInv'
    OBVIOUS
  <1>1. IInv'
    BY NextKeeps DEF VInv
  <1>2. ASSUME NEW p \in Procs, Moves(p) PROVE VInv'
    BY <1>1, <1>2, FirstAloneStep, FreshStep, VersionedStep, VersionMatchesStep DEF VInv
  <1>3. CASE UNCHANGED vars
    BY <1>1, <1>3 DEF vars, VInv, FirstAlone, Fresh, Untouched, Versioned, VersionMatches
  <1> QED
    BY <1>2, <1>3, NextMoves

LEMMA Invariance == Spec => []IInv
  <1>1. Init => IInv
    BY InitKeeps DEF VInv
  <1> QED
    BY <1>1, NextKeeps, PTL DEF Spec

(* Every variable keeps its type, for any number of migrator processes.     *)
THEOREM TypeCorrect == Spec => []TypeOK
  <1>1. IInv => TypeOK
    BY DEF IInv
  <1> QED
    BY <1>1, Invariance, PTL

(* upgradeOne(), upgradeAll() and downgradeOne() commit whole migrations,   *)
(* each on top of the ones before it, whatever fails, is killed or runs     *)
(* beside them, first runs that share the file included.                    *)
THEOREM MigrationsWhole == Spec => []WholeMigrations
  <1>1. IInv => WholeMigrations
    BY DEF IInv
  <1> QED
    BY <1>1, Invariance, PTL

(* setCurrentVersion(): when no two processes make ".schema" at once, the   *)
(* version row tells which migrations the database holds.                   *)
THEOREM VersionTells == ASSUME ~SharedFirstRun PROVE Spec => []VersionMatches
  <1>1. VInv /\ [Next]_vars => VInv'
    BY NextVersion
  <1>2. VInv => VersionMatches
    BY DEF VInv
  <1> QED
    BY <1>1, <1>2, InitKeeps, PTL DEF Spec

(* upgradeOne(), upgradeAll() and downgradeOne(): every behaviour of the    *)
(* processes on one file is one of SchemaVersions.  A migration happens at  *)
(* once, or not at all when it fails, is refused or is killed; an upgrade   *)
(* starts from exactly the version before its own, although the version     *)
(* was read outside its transaction and is not compared in it.              *)
THEOREM Implementation == Spec => ImplementsSchemaVersions
  <1>1. Init => RInv
    <2> SUFFICES ASSUME Init PROVE RInv
      OBVIOUS
    <2>1. db.rows = Abstract!Schema(0) /\ 0 \in 0 .. Max
      BY MaxAssumption DEF Init, NewFile, Abstract!Schema, Migrations
    <2> QED
      BY <2>1, InitKeeps, ProcsAssumption DEF Init, VInv, RInv, AtVersion, Based
  <1>2. RInv /\ [Next]_vars => RInv'
    <2> SUFFICES ASSUME RInv, [Next]_vars PROVE RInv'
      OBVIOUS
    <2>1. IInv'
      BY NextKeeps DEF RInv
    <2>2. ASSUME NEW p \in Procs, Moves(p) PROVE RInv'
      BY <2>1, <2>2, AtVersionStep, BasedStep DEF RInv
    <2>3. CASE UNCHANGED vars
      BY <2>1, <2>3 DEF vars, RInv, AtVersion, Based, Own, Upgrading, Abstract!Schema
    <2> QED
      BY <2>2, <2>3, NextMoves
  <1>3. Init => Abstract!Init
    BY DEF Init, NewFile, Abstract!Init, Abstract!Schema, Wish, Done, Decided, InTransaction,
       Migrations
  <1> QED
    BY <1>1, <1>2, <1>3, NextRefines, PTL
       DEF Spec, ImplementsSchemaVersions, Abstract!Spec, Abstract!vars, AbstractNext
===============================================================================
