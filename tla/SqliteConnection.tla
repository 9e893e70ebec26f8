--------------------------- MODULE SqliteConnection ---------------------------
(***************************************************************************)
(* Threads sharing SqliteConnection objects: the shared_mutex and the      *)
(* thread_local flag isInTransaction of vault-server/src/storage/sqlite,   *)
(* the transaction object of sqlite_transaction.cpp, and the statements    *)
(* and result sets that run under ScopedLock.                              *)
(*                                                                         *)
(* A call on a connection is split where another thread can get in: it is  *)
(* invoked, it waits for the mutex, its body runs (one SQLite call) and    *)
(* returns or throws.  COMMIT, ROLLBACK and the transaction's destructor   *)
(* never wait - their thread owns the mutex - so each is a single step.    *)
(* The caller is any program: it may use a connection in any legal order,  *)
(* also after an exception.                                                *)
(***************************************************************************)
EXTENDS Naturals, Sequences

CONSTANTS
    Threads,        \* the threads of the process
    Connections,    \* SqliteConnection objects, each on a database of its own
    NoThread,       \* "nobody" as the owner of a mutex
    MaxRow          \* bound: rows a database may hold

ASSUME ThreadsAssumption == NoThread \notin Threads
ASSUME MaxRowAssumption == MaxRow \in Nat

VARIABLES
    pc,         \* thread -> where its current call is
    op,         \* thread -> which call that is
    on,         \* thread -> the connection it was made on
    inTx,       \* thread -> isInTransaction (thread_local, one for all connections)
    tx,         \* thread, connection -> its SqliteTransaction object
    writer,     \* connection -> exclusive owner of m_mutex
    readers,    \* connection -> shared owners of m_mutex
    auto,       \* connection -> SQLite is in autocommit mode
    rows,       \* connection -> its rows in rowid order, each the thread that wrote it
    saved,      \* connection -> the durable rows: what a rollback returns to
    lastRow,    \* connection -> sqlite3_last_insert_rowid
    created,    \* thread -> the row its last create() inserted, 0 if none
    returned    \* thread -> the identifier that create() returned, 0 if none

mutexVars == <<writer, readers>>
dbVars    == <<auto, rows, saved, lastRow>>
callVars  == <<pc, op, on>>
idVars    == <<created, returned>>
vars == <<callVars, inTx, tx, mutexVars, dbVars, idVars>>

(* The step of an INSERT or other write takes the exclusive lock, as reset  *)
(* and finalize do; prepare and next() ("read") and lastInsertId() take the *)
(* shared one.                                                              *)
ExclusiveOps == {"insert", "finalize"}
SharedOps    == {"read", "lastId"}
Ops          == ExclusiveOps \cup SharedOps \cup {"begin"}
PCs          == {"idle", "wait", "body"}
TxStates     == {"none", "active", "finished"}

TypeOK ==
    /\ pc \in [Threads -> PCs]
    /\ op \in [Threads -> Ops]
    /\ on \in [Threads -> Connections]
    /\ inTx \in [Threads -> BOOLEAN]
    /\ tx \in [Threads -> [Connections -> TxStates]]
    /\ writer \in [Connections -> Threads \cup {NoThread}]
    /\ readers \in [Connections -> SUBSET Threads]
    /\ auto \in [Connections -> BOOLEAN]
    /\ rows \in [Connections -> Seq(Threads)]
    /\ saved \in [Connections -> Seq(Threads)]
    /\ lastRow \in [Connections -> Nat]
    /\ created \in [Threads -> Nat]
    /\ returned \in [Threads -> Nat]

Init ==
    /\ pc = [t \in Threads |-> "idle"]
    /\ op = [t \in Threads |-> "read"]
    /\ on \in [Threads -> Connections]
    /\ inTx = [t \in Threads |-> FALSE]
    /\ tx = [t \in Threads |-> [c \in Connections |-> "none"]]
    /\ writer = [c \in Connections |-> NoThread]
    /\ readers = [c \in Connections |-> {}]
    /\ auto = [c \in Connections |-> TRUE]
    /\ rows = [c \in Connections |-> <<>>]
    /\ saved = [c \in Connections |-> <<>>]
    /\ lastRow = [c \in Connections |-> 0]
    /\ created = [t \in Threads |-> 0]
    /\ returned = [t \in Threads |-> 0]

-----------------------------------------------------------------------------
(* std::shared_mutex                                                        *)

FreeOfWriter(c) == writer[c] = NoThread    \* seeded fault, for the mutant runs
Free(c)         == writer[c] = NoThread /\ readers[c] = {}

FreeToAnyReader(c) == TRUE                 \* seeded fault
ReaderFree(c)      == writer[c] = NoThread

(* An idle thread's op means nothing; it is set back to keep states few.    *)
Return(t) ==
    /\ pc' = [pc EXCEPT ![t] = "idle"]
    /\ op' = [op EXCEPT ![t] = "read"]
    /\ UNCHANGED on

-----------------------------------------------------------------------------
(* ScopedLock                                                               *)

NeverLocks(t) == FALSE                     \* seeded fault
ShouldLock(t) == ~inTx[t]

(* Some thread calls the connection; create() of a repository starts with   *)
(* its INSERT.                                                              *)
Invoke(t, c, o) ==
    /\ pc[t] = "idle"
    /\ pc' = [pc EXCEPT ![t] = "wait"]
    /\ op' = [op EXCEPT ![t] = o]
    /\ on' = [on EXCEPT ![t] = c]
    /\ created' = [created EXCEPT ![t] = IF o = "insert" THEN 0 ELSE @]
    /\ returned' = [returned EXCEPT ![t] = IF o = "insert" THEN 0 ELSE @]
    /\ UNCHANGED <<inTx, tx, mutexVars, dbVars>>

EnterUnlocked(t) ==
    /\ pc[t] = "wait" /\ op[t] # "begin" /\ ~ShouldLock(t)
    /\ pc' = [pc EXCEPT ![t] = "body"]
    /\ UNCHANGED <<op, on, inTx, tx, mutexVars, dbVars, idVars>>

EnterExclusive(t) ==
    /\ pc[t] = "wait" /\ op[t] \in ExclusiveOps /\ ShouldLock(t)
    /\ Free(on[t])
    /\ writer' = [writer EXCEPT ![on[t]] = t]
    /\ pc' = [pc EXCEPT ![t] = "body"]
    /\ UNCHANGED <<op, on, inTx, tx, readers, dbVars, idVars>>

EnterShared(t) ==
    /\ pc[t] = "wait" /\ op[t] \in SharedOps /\ ShouldLock(t)
    /\ ReaderFree(on[t])
    /\ readers' = [readers EXCEPT ![on[t]] = @ \cup {t}]
    /\ pc' = [pc EXCEPT ![t] = "body"]
    /\ UNCHANGED <<op, on, inTx, tx, writer, dbVars, idVars>>

(* Locking a mutex the thread already owns: pthread_rwlock answers EDEADLK  *)
(* and std::shared_mutex throws std::system_error out of the call.          *)
LockThrows(t) ==
    /\ pc[t] = "wait" /\ writer[on[t]] = t
    /\ op[t] = "begin" \/ ShouldLock(t)
    /\ Return(t)
    /\ UNCHANGED <<inTx, tx, mutexVars, dbVars, idVars>>

(* ~ScopedLock                                                              *)
Unlock(t) ==
    /\ writer' = [writer EXCEPT ![on[t]] =
                     IF ShouldLock(t) /\ op[t] \in ExclusiveOps THEN NoThread ELSE @]
    /\ readers' = [readers EXCEPT ![on[t]] = @ \ {t}]

-----------------------------------------------------------------------------
(* Bodies: one SQLite call under the lock (or inside the thread's own       *)
(* transaction), then the return that releases the ScopedLock.              *)

(* prepare, next() over a SELECT, finalize and reset leave the data alone.  *)
Body(t) ==
    /\ pc[t] = "body" /\ op[t] \in {"read", "finalize"}
    /\ Return(t) /\ Unlock(t)
    /\ UNCHANGED <<inTx, tx, dbVars, idVars>>

(* A row written in autocommit mode is durable at once.  AUTOINCREMENT ids  *)
(* follow each other, and a rollback takes the sequence back with the rows, *)
(* so a rowid is a position in rows.                                        *)
Insert(t, c) ==
    /\ Len(rows[c]) < MaxRow
    /\ rows' = [rows EXCEPT ![c] = Append(@, t)]
    /\ saved' = IF auto[c] THEN [saved EXCEPT ![c] = Append(rows[c], t)] ELSE saved
    /\ lastRow' = [lastRow EXCEPT ![c] = Len(rows[c]) + 1]
    /\ created' = [created EXCEPT ![t] = Len(rows[c]) + 1]
    /\ UNCHANGED auto

(* create(): stmt->execute() of the INSERT, then conn->lastInsertId(), a    *)
(* call of its own with a lock of its own.                                  *)
InsertBody(t) ==
    /\ pc[t] = "body" /\ op[t] = "insert"
    /\ Insert(t, on[t])
    /\ Unlock(t)
    /\ pc' = [pc EXCEPT ![t] = "wait"]
    /\ op' = [op EXCEPT ![t] = "lastId"]
    /\ UNCHANGED <<on, inTx, tx, returned>>

LastIdBody(t) ==
    /\ pc[t] = "body" /\ op[t] = "lastId"
    /\ returned' = [returned EXCEPT ![t] = lastRow[on[t]]]
    /\ Return(t) /\ Unlock(t)
    /\ UNCHANGED <<inTx, tx, dbVars, created>>

(* ROLLBACK, asked for or done by SQLite itself.                            *)
Restore(c) ==
    /\ rows' = [rows EXCEPT ![c] = saved[c]]
    /\ auto' = [auto EXCEPT ![c] = TRUE]
    /\ UNCHANGED <<saved, lastRow>>

(* checkError throws.  A constraint error undoes the statement only; an I/O *)
(* error or a full disk makes SQLite roll the whole transaction back.       *)
BodyThrows(t) ==
    /\ pc[t] = "body" /\ op[t] # "lastId"
    /\ \/ UNCHANGED dbVars
       \/ op[t] = "insert" /\ ~auto[on[t]] /\ Restore(on[t])
    /\ Return(t) /\ Unlock(t)
    /\ UNCHANGED <<inTx, tx, idVars>>

-----------------------------------------------------------------------------
(* SqliteTransaction                                                        *)

BeginOk(t) ==
    LET c == on[t] IN
    /\ pc[t] = "wait" /\ op[t] = "begin"
    /\ Free(c) /\ auto[c]
    /\ writer' = [writer EXCEPT ![c] = t]
    /\ inTx' = [inTx EXCEPT ![t] = TRUE]
    /\ auto' = [auto EXCEPT ![c] = FALSE]
    /\ tx' = [tx EXCEPT ![t][c] = "active"]
    /\ Return(t)
    /\ UNCHANGED <<readers, rows, saved, lastRow, idVars>>

(* BEGIN fails: the catch clears the flag, the unwinding frees the mutex.   *)
BeginThrowsKeepingMutex(t) ==              \* seeded fault
    /\ pc[t] = "wait" /\ op[t] = "begin" /\ Free(on[t])
    /\ writer' = [writer EXCEPT ![on[t]] = t]
    /\ inTx' = [inTx EXCEPT ![t] = FALSE]
    /\ Return(t)
    /\ UNCHANGED <<tx, readers, dbVars, idVars>>
BeginThrowsKeepingFlag(t) ==               \* seeded fault
    /\ pc[t] = "wait" /\ op[t] = "begin" /\ Free(on[t])
    /\ inTx' = [inTx EXCEPT ![t] = TRUE]
    /\ Return(t)
    /\ UNCHANGED <<tx, mutexVars, dbVars, idVars>>
BeginThrows(t) ==
    /\ pc[t] = "wait" /\ op[t] = "begin" /\ Free(on[t])
    /\ inTx' = [inTx EXCEPT ![t] = FALSE]
    /\ Return(t)
    /\ UNCHANGED <<tx, mutexVars, dbVars, idVars>>

(* execute() of COMMIT or ROLLBACK gets through only with the flag set: the *)
(* thread owns the mutex, so a lock attempt throws.                         *)
Executes(t, c) == ~ShouldLock(t) /\ ~auto[c]

Commit(t, c) ==
    /\ pc[t] = "idle" /\ tx[t][c] = "active" /\ Executes(t, c)
    /\ saved' = [saved EXCEPT ![c] = rows[c]]
    /\ auto' = [auto EXCEPT ![c] = TRUE]
    /\ tx' = [tx EXCEPT ![t][c] = "finished"]
    /\ UNCHANGED <<callVars, inTx, mutexVars, rows, lastRow, idVars>>

Rollback(t, c) ==
    /\ pc[t] = "idle" /\ tx[t][c] = "active" /\ Executes(t, c)
    /\ Restore(c)
    /\ tx' = [tx EXCEPT ![t][c] = "finished"]
    /\ UNCHANGED <<callVars, inTx, mutexVars, idVars>>

(* The destructor: an active transaction is rolled back, whatever that      *)
(* throws is swallowed; then the flag, then (a member) the mutex.           *)
EndWithoutRollback(t, c) ==                \* seeded fault
    /\ pc[t] = "idle" /\ tx[t][c] # "none"
    /\ UNCHANGED dbVars
    /\ tx' = [tx EXCEPT ![t][c] = "none"]
    /\ inTx' = [inTx EXCEPT ![t] = FALSE]
    /\ writer' = [writer EXCEPT ![c] = NoThread]
    /\ UNCHANGED <<callVars, readers, idVars>>
End(t, c) ==
    /\ pc[t] = "idle" /\ tx[t][c] # "none"
    /\ IF tx[t][c] = "active" /\ Executes(t, c) THEN Restore(c) ELSE UNCHANGED dbVars
    /\ tx' = [tx EXCEPT ![t][c] = "none"]
    /\ inTx' = [inTx EXCEPT ![t] = FALSE]
    /\ writer' = [writer EXCEPT ![c] = NoThread]
    /\ UNCHANGED <<callVars, readers, idVars>>

-----------------------------------------------------------------------------

Step(t) ==
    \/ EnterUnlocked(t) \/ EnterExclusive(t) \/ EnterShared(t) \/ LockThrows(t)
    \/ Body(t) \/ InsertBody(t) \/ LastIdBody(t) \/ BodyThrows(t)
    \/ BeginOk(t) \/ BeginThrows(t)

Next ==
    \E t \in Threads :
        \/ \E c \in Connections, o \in Ops \ {"lastId"} : Invoke(t, c, o)
        \/ Step(t)
        \/ \E c \in Connections : Commit(t, c) \/ Rollback(t, c) \/ End(t, c)

Spec == Init /\ [][Next]_vars

(* A running thread finishes its SQLite call; a transaction object goes out *)
(* of scope however its block is left; and a thread for whom the mutex      *)
(* keeps becoming free gets it some day.                                    *)
Fairness ==
    \A t \in Threads :
        /\ WF_vars(Body(t) \/ InsertBody(t) \/ LastIdBody(t) \/ BodyThrows(t))
        /\ WF_vars(EnterUnlocked(t) \/ LockThrows(t))
        /\ SF_vars(EnterExclusive(t) \/ EnterShared(t) \/ BeginOk(t) \/ BeginThrows(t))
        /\ \A c \in Connections : SF_vars(End(t, c))

(* An assumption on the load, not on the code: glibc's rwlock prefers       *)
(* readers, so readers that always overlap would keep every writer out.     *)
NoReaderMonopoly == \A c \in Connections : []<>(readers[c] = {})

FairSpec == Spec /\ Fairness /\ NoReaderMonopoly

-----------------------------------------------------------------------------
(* Refinement: the transaction open in SQLite is the one of the mutex's     *)
(* owner.                                                                   *)
OpenTxn == [c \in Connections |-> IF auto[c] THEN NoThread ELSE writer[c]]

Abstract == INSTANCE TxStore WITH store <- saved, view <- rows, txn <- OpenTxn

(* Every step of the connection is a step of the serial transactional store *)
(* or changes nothing in it.                                                *)
ImplementsTxStore == Abstract!Spec

-----------------------------------------------------------------------------
(* Properties                                                               *)

(* While a transaction object of one thread lives on a connection, no call  *)
(* of another thread is inside SQLite on that connection: the comment on    *)
(* ScopedLock, "the transaction already owns the mutex exclusively".        *)
TransactionIsolated ==
    \A t, u \in Threads, c \in Connections :
        t # u /\ tx[u][c] # "none" => ~(pc[t] = "body" /\ on[t] = c)

(* Only shared calls overlap: while a write, a reset or a finalize is in    *)
(* SQLite, no other call is on the same connection.                         *)
WritersExclude ==
    \A t, u \in Threads :
        /\ t # u /\ pc[t] = "body" /\ pc[u] = "body" /\ on[t] = on[u]
        => op[t] \in SharedOps /\ op[u] \in SharedOps

(* No SQLite transaction stays open without the active transaction object   *)
(* that will end it: the destructor "guarantees" it (sqlite_transaction.h). *)
NoDanglingTransaction ==
    \A c \in Connections : ~auto[c] => \E t \in Threads : tx[t][c] = "active"

(* The thread_local flag is up exactly while the thread has a transaction   *)
(* object, whose mutex it then owns; an open SQLite transaction always has  *)
(* such an object - also after a failed BEGIN, COMMIT or INSERT.            *)
FlagTracksTransaction ==
    /\ \A t \in Threads : inTx[t] <=> \E c \in Connections : tx[t][c] # "none"
    /\ \A t \in Threads, c \in Connections : tx[t][c] # "none" => writer[c] = t
    /\ NoDanglingTransaction

(* Between the construction and the destruction of a transaction object the *)
(* rows change only by steps of the thread that has it.                     *)
OnlyOwnerWrites ==
    [][\A t \in Threads, c \in Connections :
         tx[t][c] # "none" /\ rows'[c] # rows[c]
         => pc'[t] # pc[t] \/ tx'[t][c] # tx[t][c]]_vars

(* create() of the repositories: "@return ID of the created ..." - the row  *)
(* the call itself inserted.                                                *)
CreateReturnsOwnId ==
    \A t \in Threads : returned[t] # 0 => returned[t] = created[t]

(* Every call gets past the mutex: no self-deadlock, no lost unlock.        *)
CallsServed ==
    \A t \in Threads : pc[t] = "wait" ~> pc[t] # "wait"
=============================================================================
