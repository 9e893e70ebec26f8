---------------------------- MODULE SqliteDatabase ----------------------------
(***************************************************************************)
(* SqliteDatabase::connection(): threads that share one connection through *)
(* a weak_ptr, open it when nobody has one, and close it when the last one *)
(* lets go; initialize() and shutdown() by the thread that owns the        *)
(* database.  A repository method calls connection(), works with it and    *)
(* drops it when it returns.                                               *)
(***************************************************************************)
EXTENDS Naturals, FiniteSets

CONSTANTS
    Threads,        \* request threads
    Slots,          \* places for SqliteConnection objects, one per thread is enough
    Nothing,        \* no slot, no thread
    MaxShutdowns    \* bound: calls of shutdown(), which may come while requests run

ASSUME NothingAssumption == Nothing \notin Threads \cup Slots
ASSUME SlotsAssumption == IsFiniteSet(Slots)
ASSUME MaxShutdownsAssumption == MaxShutdowns \in Nat

VARIABLES
    initialized,    \* m_initialized
    weak,           \* m_activeConnection: the connection it can lock, or Nothing
    mutex,          \* owner of m_connectionMutex
    owner,          \* where the owner of the database is: "up", "stopping", "down"
    shutdowns,      \* calls of shutdown() that reset m_activeConnection
    users,          \* slot -> threads with a shared_ptr to the connection in it
    pragmas,        \* slot -> PRAGMAs executed on the connection in it
    pc,             \* thread -> where its call of connection() is
    slot            \* thread -> the connection it opens, uses or closes

vars == <<initialized, weak, mutex, owner, shutdowns, users, pragmas, pc, slot>>

Pragmas  == {"foreign_keys", "journal_mode", "busy_timeout"}
PCs      == {"idle", "checked", "open"} \cup Pragmas \cup {"publish", "using", "closing"}

TypeOK ==
    /\ initialized \in BOOLEAN
    /\ weak \in Slots \cup {Nothing}
    /\ mutex \in Threads \cup {Nothing}
    /\ owner \in {"up", "stopping", "down"}
    /\ shutdowns \in 0 .. MaxShutdowns
    /\ users \in [Slots -> SUBSET Threads]
    /\ pragmas \in [Slots -> SUBSET Pragmas]
    /\ pc \in [Threads -> PCs]
    /\ slot \in [Threads -> Slots \cup {Nothing}]

(* initialize() was called before the first request.                        *)
Init ==
    /\ initialized = TRUE
    /\ weak = Nothing
    /\ mutex = Nothing
    /\ owner = "up"
    /\ shutdowns = 0
    /\ users = [s \in Slots |-> {}]
    /\ pragmas = [s \in Slots |-> {}]
    /\ pc = [t \in Threads |-> "idle"]
    /\ slot = [t \in Threads |-> Nothing]

-----------------------------------------------------------------------------
(* connection()                                                             *)

Goto(t, l) == pc' = [pc EXCEPT ![t] = l]

(* m_initialized is read before the mutex is taken.                         *)
Call(t) ==
    /\ pc[t] = "idle"
    /\ initialized      \* else it throws at once
    /\ Goto(t, "checked")
    /\ UNCHANGED <<initialized, weak, mutex, owner, shutdowns, users, pragmas, slot>>

NoMutex   == TRUE                          \* seeded fault, for the mutant runs
MutexFree == mutex = Nothing

(* lock_guard, then weak_ptr::lock(): share the active connection ...       *)
Reuse(t) ==
    /\ pc[t] = "checked" /\ MutexFree /\ weak # Nothing
    /\ users' = [users EXCEPT ![weak] = @ \cup {t}]
    /\ slot' = [slot EXCEPT ![t] = weak]
    /\ Goto(t, "using")
    /\ UNCHANGED <<initialized, weak, mutex, owner, shutdowns, pragmas>>

(* ... or, keeping the mutex, go on to open one.                            *)
NothingToReuse(t) ==
    /\ pc[t] = "checked" /\ MutexFree /\ weak = Nothing
    /\ mutex' = t
    /\ Goto(t, "open")
    /\ UNCHANGED <<initialized, weak, owner, shutdowns, users, pragmas, slot>>

InSlot(s) == {t \in Threads : slot[t] = s}

Open(t) ==
    /\ pc[t] = "open"
    /\ \E s \in Slots :
         /\ InSlot(s) = {}
         /\ slot' = [slot EXCEPT ![t] = s]
         /\ users' = [users EXCEPT ![s] = {t}]
         /\ pragmas' = [pragmas EXCEPT ![s] = {}]
    /\ Goto(t, "foreign_keys")
    /\ UNCHANGED <<initialized, weak, mutex, owner, shutdowns>>

OpenThrows(t) ==
    /\ pc[t] = "open"
    /\ mutex' = Nothing
    /\ Goto(t, "idle")
    /\ UNCHANGED <<initialized, weak, owner, shutdowns, users, pragmas, slot>>

PublishedEarly(p) ==                       \* seeded fault
    IF p = "foreign_keys" THEN "publish" ELSE "busy_timeout"
After(p) ==
    CASE p = "foreign_keys" -> "journal_mode"
      [] p = "journal_mode" -> "busy_timeout"
      [] p = "busy_timeout" -> "publish"

Pragma(t) ==
    /\ pc[t] \in Pragmas
    /\ pragmas' = [pragmas EXCEPT ![slot[t]] = @ \cup {pc[t]}]
    /\ Goto(t, After(pc[t]))
    /\ UNCHANGED <<initialized, weak, mutex, owner, shutdowns, users, slot>>

(* A PRAGMA throws; journal_mode does so at once when another connection of *)
(* the process is closing and has locked the file, for busy_timeout comes   *)
(* after it.  result dies before the lock_guard: the close runs under the   *)
(* mutex.                                                                   *)
PragmaThrows(t) ==
    /\ pc[t] \in Pragmas
    /\ users' = [users EXCEPT ![slot[t]] = {}]
    /\ Goto(t, "closing")
    /\ UNCHANGED <<initialized, weak, mutex, owner, shutdowns, pragmas, slot>>

Publish(t) ==
    /\ pc[t] = "publish"
    /\ weak' = slot[t]
    /\ mutex' = Nothing
    /\ Goto(t, "using")
    /\ UNCHANGED <<initialized, owner, shutdowns, users, pragmas, slot>>

-----------------------------------------------------------------------------
(* The caller lets go of its shared_ptr                                     *)

(* With the last user the weak_ptr expires; the destructor runs afterwards, *)
(* in that thread and outside the mutex.                                    *)
ReleaseLast(t) ==
    /\ pc[t] = "using" /\ users[slot[t]] = {t}
    /\ users' = [users EXCEPT ![slot[t]] = {}]
    /\ weak' = IF weak = slot[t] THEN Nothing ELSE weak
    /\ Goto(t, "closing")
    /\ UNCHANGED <<initialized, mutex, owner, shutdowns, pragmas, slot>>

FirstReleaseCloses(t) ==                   \* seeded fault
    /\ pc[t] = "using" /\ users[slot[t]] # {t}
    /\ users' = [users EXCEPT ![slot[t]] = {}]
    /\ weak' = IF weak = slot[t] THEN Nothing ELSE weak
    /\ Goto(t, "closing")
    /\ UNCHANGED <<initialized, mutex, owner, shutdowns, pragmas, slot>>
ReleaseShared(t) ==
    /\ pc[t] = "using" /\ users[slot[t]] # {t}
    /\ users' = [users EXCEPT ![slot[t]] = @ \ {t}]
    /\ slot' = [slot EXCEPT ![t] = Nothing]
    /\ Goto(t, "idle")
    /\ UNCHANGED <<initialized, weak, mutex, owner, shutdowns, pragmas>>

(* sqlite3_close; inside a failed connection() the mutex follows.           *)
CloseKeepingMutex(t) ==                    \* seeded fault
    /\ pc[t] = "closing"
    /\ pragmas' = [pragmas EXCEPT ![slot[t]] = {}]
    /\ slot' = [slot EXCEPT ![t] = Nothing]
    /\ Goto(t, "idle")
    /\ UNCHANGED <<initialized, weak, mutex, owner, shutdowns, users>>
Close(t) ==
    /\ pc[t] = "closing"
    /\ pragmas' = [pragmas EXCEPT ![slot[t]] = {}]
    /\ slot' = [slot EXCEPT ![t] = Nothing]
    /\ mutex' = IF mutex = t THEN Nothing ELSE mutex
    /\ Goto(t, "idle")
    /\ UNCHANGED <<initialized, weak, owner, shutdowns, users>>

-----------------------------------------------------------------------------
(* The owner of the database; neither method takes the mutex.               *)

ShutdownFlag ==
    /\ owner = "up" /\ shutdowns < MaxShutdowns
    /\ initialized' = FALSE
    /\ owner' = "stopping"
    /\ UNCHANGED <<shutdowns, weak, mutex, users, pragmas, pc, slot>>

(* weak_ptr::reset().  Against a connection() that holds the mutex this is  *)
(* a data race; the outcomes kept here are those of either order.           *)
ShutdownReset ==
    /\ owner = "stopping"
    /\ weak' = Nothing
    /\ owner' = "down"
    /\ shutdowns' = shutdowns + 1
    /\ UNCHANGED <<initialized, mutex, users, pragmas, pc, slot>>

Initialize ==
    /\ owner = "down"
    /\ initialized' = TRUE
    /\ owner' = "up"
    /\ UNCHANGED <<shutdowns, weak, mutex, users, pragmas, pc, slot>>

-----------------------------------------------------------------------------

Step(t) ==
    \/ Reuse(t) \/ NothingToReuse(t)
    \/ Open(t) \/ OpenThrows(t) \/ Pragma(t) \/ PragmaThrows(t) \/ Publish(t)
    \/ ReleaseLast(t) \/ ReleaseShared(t) \/ Close(t)

Next ==
    \/ \E t \in Threads : Call(t) \/ Step(t)
    \/ ShutdownFlag \/ ShutdownReset \/ Initialize

Spec == Init /\ [][Next]_vars

(* A thread that is scheduled goes on; the mutex is not kept from one       *)
(* thread for ever.                                                         *)
Fairness ==
    \A t \in Threads :
        /\ WF_vars(Step(t))
        /\ SF_vars(Reuse(t) \/ NothingToReuse(t))

FairSpec == Spec /\ Fairness

-----------------------------------------------------------------------------
(* Properties                                                               *)

(* Threads inside sqlite3_close for the connection.                         *)
Closing(s) == \E t \in Threads : slot[t] = s /\ pc[t] = "closing"
Using(s) == {t \in Threads : slot[t] = s /\ pc[t] = "using"}

(* Without a shutdown all threads that work with the database work on one   *)
(* SqliteConnection, the one whose mutex and transaction flag keep them     *)
(* apart ("the only active connection"); each shutdown() that comes while   *)
(* requests run adds at most one more beside it.                            *)
FewActive ==
    Cardinality({s \in Slots : Using(s) # {}}) <= shutdowns + 1

(* A connection somebody works with is open, has foreign keys enforced (the *)
(* cascades of the schema rely on it), WAL and the busy timeout.            *)
HandedOutConfigured ==
    \A t \in Threads : pc[t] = "using" =>
        pragmas[slot[t]] = Pragmas /\ t \in users[slot[t]]

(* No connection is closed under a thread that still works with it.         *)
NotClosedInUse ==
    \A s \in Slots : Closing(s) => Using(s) = {}

(* Every call of connection() ends, and the connection is let go of.        *)
CallsEnd == \A t \in Threads : pc[t] = "checked" ~> pc[t] = "idle"
=============================================================================
