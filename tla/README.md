# Verification of «Биом»

TLA+ models of the server, the storage layer and the migrator of «Биом», their
model checking with TLC, and proofs with TLAPS. The modules follow the C++ code;
`PROJECT.json` maps every definition to the lines it stands for.

## The system

One process, `vault-server`, answers REST requests on the threads of cpprestsdk's
pool and keeps its data in one SQLite file. A second program, the migrator, creates
and changes that file's schema.

| Component | State | Operations | Talks to |
|---|---|---|---|
| `SqliteConnection`, `SqliteTransaction`, `SqliteStatement`, `SqliteResultSet` (`storage/sqlite`) | `m_mutex` (shared_mutex), `isInTransaction` (thread_local), SQLite's autocommit mode, rows, last rowid | prepare, step, reset, finalize, execute, lastInsertId, begin, commit, rollback, destructor | SQLite |
| `SqliteDatabase` | `m_initialized`, `m_connectionMutex`, `m_activeConnection` (weak_ptr) | initialize, connection, shutdown, the release of the last shared_ptr | `SqliteConnection` |
| repositories (`repo/sqlite`) | none | one SQL statement per call (two in `create` and `findAll`) | `SqliteDatabase` |
| workflow, state and edge services and handlers | none: tables Workflow, State, Edge, Item | create, update, delete with checks in statements of their own | repositories |
| project, phase, item type, field type, user services and handlers | none: their tables | list, get, create, update, delete or archive | repositories |
| DTOs (`common/dto`) | the fields of one object | fromJson, toJson, isValid | |
| `AuthService`, `AuthHandler` | none: table User | login, logout, changePassword | user repository, `AuthMiddleware` |
| `AuthMiddleware` | `m_blacklist` under `m_blacklistMutex`, a static counter without one | generateToken, validateRequest, invalidateToken, cleanBlacklist | the clock |
| `RestServer` | routes, listener, `m_isRunning` | start, stop, dispatch, authentication in front of protected routes | handlers |
| `Application`, `main` | `m_isRunning`, owner of server and database | initialize, run, stop, cleanup, signal handler | all of the above |
| migrator | the table `.schema`, the whole schema | current, upgradeOne, upgradeAll, downgradeOne | its own `SqliteConnection` |
| helpers, log, config, client, generators | none shared | conversion, output, input | |

What is hard about it:

* **threads**: all request threads share one connection object; a service method is
  a chain of single statements with no transaction around it, so the rows may change
  between a check and the statement that relies on it;
* **failure**: every statement may throw; some repository methods swallow the
  exception and answer `false`, others pass it on; constructors and destructors
  must give back the mutex and the flag while unwinding;
* **crashes and processes**: the migrator may be killed, or run twice at once;
  the server keeps logged-out tokens in memory only;
* **time**: tokens expire, the blacklist forgets what has expired, the two compare
  the same instant in different places;
* **the end**: a signal handler stops the server and closes the database on the main
  thread, wherever that thread is, while pool threads are in requests, and handlers
  that wait for a body hold a pool thread while they need another.

What makes each component correct:

* connection: transactions are isolated and atomic, the flag never survives its
  transaction, the mutex is always given back, an id belongs to the row inserted;
* database: one connection at a time, configured before it is handed out, closed
  only when nobody uses it;
* services: nothing dangles, edges stay within a workflow and differ, a deleted row
  stays deleted, a deletion that is checked for use takes nothing along that the
  check should have seen, an answer of success is about a write of the request's
  own, every request is answered;
* lists: pages cover the table, but for rows their ORDER BY cannot tell apart; DTOs:
  what could be read of a body gets through columns and back, as its field can hold it;
* migrator: whole migrations only, the version tells which;
* authentication: logged-out and expired tokens stay out, nobody gets in on
  credentials that never held;
* process: nothing is closed under a request, a signal to stop is heeded once there is
  something to stop, the exit code tells the truth.

## Modules

| Module | Stands for | Proofs |
|---|---|---|
| `SqliteConnection` | threads on `SqliteConnection` objects | `SqliteConnectionProofs` |
| `TxStore` | what it promises: a serial transactional store | |
| `SqliteDatabase` | `connection()`, release and shutdown | `SqliteDatabaseProofs` |
| `WorkflowServices` | workflow, state and edge services, handlers, repositories, tables | `WorkflowServicesProofs` |
| `WorkflowGraph` | what they promise: workflows as graphs | |
| `Dtos` | the classes of `common/dto` | `DtosProofs` |
| `Catalog` (extends `Dtos`) | projects, phases, item types, field types and users, from the body to the answer | `CatalogProofs` |
| `MigrationManager` | the migrator's processes on one file | `MigrationManagerProofs` |
| `SchemaVersions` | what they promise: one version, changed at once or not at all | |
| `AuthSessions` | login, logout, change-password, protected routes | `AuthSessionsProofs` |
| `Sessions` | what they promise: tokens that are good or not | |
| `RestRoutes` | `RestServer`'s route table and `matchRoute()` | |
| `AppLifecycle` (extends `RestRoutes`) | `main()`, the signal handler, `Application`, `RestServer` and its pool | `AppLifecycleProofs` |
| `MC…` | constants for TLC | |

The layers are composed by granularity: `SqliteConnection` shows that a statement
runs alone (shared reads apart), so in `WorkflowServices`, `Catalog` and `AuthSessions` a
statement is one step, and threads interleave between statements only.

Each module lists, at its beginning, what its variables are in the code. Operators
marked *seeded fault* are never used by a specification: each is a plausible
mistake in the definition after it, and `PROJECT.json` ("mutants") says which
property notices it.

### SqliteConnection

`pc[t]` is where a call is: `wait` before the mutex, `body` inside SQLite. `op[t]`
says which call. The actions are `Invoke`, the three ways into the body
(`EnterUnlocked` with the flag up, `EnterExclusive`, `EnterShared`), `LockThrows`
(a thread that locks a mutex it owns: glibc answers EDEADLK and libstdc++ throws), the bodies, and the transaction's
`BeginOk`, `BeginThrows`, `Commit`, `Rollback`, `End`. A failing statement leaves
the rows as they were or makes SQLite roll the whole transaction back
(`BodyThrows`). `create()` of a repository is `insert` followed by `lastId`, two
separately locked calls. A SELECT that is read row by row is one `read`: no
property looks between its rows.

`TxStore` is the abstract store: durable rows, a view, the thread whose transaction
is open. `ImplementsTxStore` maps the open transaction to the owner of the mutex
whenever SQLite is out of autocommit.

### SqliteDatabase

The body of `connection()` step by step: the flag is read before the mutex, a live
connection is shared, else one is opened, configured by three PRAGMAs and
published. The last user makes the weak_ptr expire and closes the connection
outside the mutex. `shutdown()` takes no mutex; both orders of its race with
`connection()` are modelled.

### WorkflowServices

A request goes through the repository calls of its service method; `pc[t]` names the
next one. Tables are functions from identifiers to rows; `Constraints`, `NextId` and
the cascades are those of the schema and of AUTOINCREMENT. `Rethrowing` lists the
repository methods that pass an exception on; the others answer a default.
`Failures` is the set of calls that may fail: all of them in `svc`, in `svc_serial` all
but two whose failure is answered like a success (`isUsedByItems()` says "not used",
the last look-up of a create loses what it wrote). `Placing` lets another program put items into states. `WorkflowGraph` forgets requests
and promises only what the rows do.

### Dtos and Catalog

`Dtos` gives every class of `common/dto` as the table of its fields and says once what
`fromJson()`, `toJson()` and `isValid()` do with such a table. A value of a type the
field does not take is `Wrong`: the field keeps what it had and the next ones are
read; the constructor does not look at the result. What the library takes without a word
is not `Wrong`: `get<int64_t>()` of a number with a fraction cuts it (`Cut`), of one above
the range wraps it (`Long`); `secondsToTimePoint()` multiplies by the clock's `Ticks` in an
`int64_t` and wraps, its inverse cuts toward zero; a loop over a list that is a string or an
object finds strings in it (`Single`). Values that cannot be held come back as others, and
the properties say which do not.

In `Catalog` a request is a document (or a filter and a page) that goes through
handler, service and repository; `pc[t]` names the repository call the thread makes
next, as in `WorkflowServices`. The five resources are built alike. What differs —
columns, references, UNIQUE columns, what a body must have, what PUT may set, filters,
order, the first call, status codes — is a section of definitions for each; the actions are
written once. `CallFails` and `CallFailsQuietly` are the methods that pass an exception
on and those that answer `false`. `Pointing` names the tables whose rows point at an item type, a
field type or a user, and `Delete` takes their rows along with what hangs on them
(`Cascade`), users' included, for which nothing is counted first. `DropWorkflow` and `Use` are
the rest of the system: a workflow deleted with its cascade, rows of those tables (`Writers`)
that come to point at a type or a user. Offsets are computed in an `int` of `2 * Half` values,
as the code does.

The order of a list is the one its ORDER BY gives, and no more: `Orders` are all the ways to list
a table that keep to it, and each SELECT takes any of them. Item types of one kind and caption, and
field types of one caption, are equal in theirs.

`note[t]` is a ghost: whether the request had the database to itself and no call failed
(`calm`), what its own statements wrote, whether `usageCount()` could be asked (`counted`), in
which tables rows pointing at the one to delete have come since (`fresh`), and of which its DELETE took
rows along (`spilled`). It decides no step.

### MigrationManager

`main()` and the commands, statement by statement. A migration is `Parts`
statements; `rows[m]` counts those in the database, so a half-done migration is
visible if it ever gets out. `Lockable` is SQLite's single writer, `work` the
transaction's private copy, `Kill` the loss of a process at any point.

`SchemaVersions` has whole versions only. A process wishes for one and gets there at once, or
gives up and nothing has changed. An upgrade is a compare-and-swap, from exactly the version
before; a downgrade starts from any version not below its own, which is what the code does when
another process upgraded since the version was read. `ImplementsSchemaVersions` maps the wish to the
command and target of a process between its reading of the version and its commit, and the rows to the rows:
a half migration would be no state of `SchemaVersions`.

### AuthSessions

Each request is one thread's walk through SQL statements, critical sections and
readings of the clock. A token is the user and the *second* of issue. `clock` counts
ticks, several to the second, so that the instant of expiry itself is a state.
`out`, `forgotten`, `late`, `revived`, `overdue`, `open` and `match` record what
happened; they decide no step. `open` and `match` look at the rows in every state
of a request, not only at those its statements read. The clock is never set back
and signatures cannot be forged: assumptions about the environment.

`Sessions` forgets the blacklist, its sweeps and `verifyToken()`'s own clock: a token is good until it
expires or its logout is answered, a request enters only with a token that was good at one moment
since the request came, and only such requests change rows of users, at most their own password.
`ImplementsSessions` puts that moment at the look into the blacklist, when the token has not
expired by then; who has not entered before the expiry drops out of `cleared` with the tick.

### RestRoutes and AppLifecycle

`Routes` is the table `registerRoutes()` leaves, in its order; a path is a sequence of
segments, and `Matched` is the first route whose pattern fits.

The main thread is a stack of frames: `main()` and up to two signal handlers, which run
`Application::stop()` on top of whatever they interrupt. `pc[f]` is the next step of
frame `f`, `now` the one on top. Everything the handlers touch is there: `m_isRunning` of
both classes, the server, the listener, the database, `applicationPtr`. A step that uses
a destroyed object is `Crash`. Requests come while the listener is open and a thread
of the pool is free: `routing` (the match and the middleware), `handling`, or, when
a body is read, `waiting` in `extract_json().then(..).wait()` until the continuation
gets a thread too. `http_listener::close().wait()` is modelled as waiting for the requests in
flight; this is what cpprestsdk is taken to promise, not something its code was read for. Each
of the two signals comes at most once, to the main thread.

`NothingInUse` and `CleanExit` are about signals at the moments of `Interruptible`: `main()` is in its loop
or the cleanup after it, or a first handler has not looked at the server yet or has closed it. A
second signal may thus run `stop()` on top of the first one's, and both properties hold. Between the first handler's
look at the server and its closing, a second signal destroys the server whose `stop()` it interrupted: the model
crashes there, as it does for signals during the initialisation and after `main()` has left its
cleanup. That `signalHandler()` calls functions no handler may call (log, mutexes, `new`, `wait()` are not
async-signal-safe) is not modelled: a handler here interrupts between steps, never inside one of the library's.

## Runs

| Run | Question | Bounds |
|---|---|---|
| `conn` | is a transaction isolated and atomic on every failing path, does the connection implement `TxStore`, and does every call get past the mutex? | 3 threads, 1 connection, 1 row |
| `conn_create_id` | does `create()` return its own row's id? **No** | 2 threads, 2 rows |
| `db` | is there one configured connection, closed by its last user, with shutdown at any time, and does every call end? | 3 threads, 3 connection objects, 2 shutdowns |
| `svc` | do interleaved creates and deletes with failures keep the graphs whole and implement `WorkflowGraph`? | 2 requests at a time, 2 workflows, 3 states, up to 4 identifiers per table |
| `svc_serial` | do the checks of the services do their work when requests do not overlap; is each request answered? | 1 thread, any call failing but the two above, a caption that reads like a date, archived states, 2 identifiers per table |
| `svc_cascade` | does `deleteState` spare edges when requests overlap? **No** | 2 threads |
| `mig` | whole migrations, matching version, `SchemaVersions` implemented, no lock left, every run ends? | 2 processes, 2 migrations of 2 statements, failures, kills, any commands |
| `mig_first` | does a commit set the version on a first run? **No** | 2 processes, one may be killed |
| `auth` | do logged-out and expired tokens stay out, do credentials hold, is `Sessions` implemented? | 1 user, 2 requests at a time, 2 passwords of which 1 strong, 2 ticks per second, lifetime 1 s, clock to 3, any number of restarts |
| `auth_restart` | also after a restart? **No** | the same |
| `app` | is the process stopped cleanly under its requests, by one signal or two nested ones, is a signal heeded, is every request answered? | 2 requests at a time, pool of 2, 6 kinds of request, 2 signals, every initialising step may fail |
| `catalog` | are the tables whole, is no success hollow, do deletions last, does `usageCount()` see what the cascade would take, do bodies get through, do pages cover? | 2 threads, 3 requests or changes from elsewhere in all, 4 workloads of 8 to 19 requests, 2 rows in each table at first, up to 5 identifiers, 4 of the tables that point at types and users, `int` and `int64_t` of 32 values, 2 ticks per second, failures; 289,159 states |

Why these bounds are enough to be of use: every race in the code is between two
actors; a third is there where it matters who else is present (`conn`, `db`). Two
statements per migration are a first and a last. Two ticks per second with a lifetime
of one second give tokens of two seconds, the instant of expiry, and a moment after it.
`Edits` in `auth` leaves out the two edits of `mustChange`, which no property reads. Its
VIEW drops `forgotten` and `revived`, which only `auth_restart` asks about.
In `catalog`, `Patience` = 3 is two requests that meet and one more that sees what they
left (or a workflow that goes between two statements of each); a workload keeps together
requests that meet on the same rows; `MaxId` = 5 is out of reach of two rows and
three creates. `Writers` has one table that only item types are pointed at from, one that lists two
of them, one for field types and one for users; the others are in the proofs. `Half` = 16 leaves the
offsets of the runs inside an `int` (where they wrap is noted below), and `LongHalf` = 16 with two ticks
per second leaves a date of 15 seconds outside the clock and one of 3 inside. `PagesCover` is asked when
no request is under way (`Quiet`), for every page size at once. `Failures` of
`svc_serial` lets a request fail at any of its calls but the two named above. In `app` a pool of two is exhausted by two handlers that wait
for a body, and served by fewer. Deadlock is
checked in all runs but `app`, where the process ends, and `catalog`, where the requests
are used up.

### Findings

* `conn_create_id`: outside a transaction another thread's INSERT comes between
  `execute()` and `lastInsertId()`, so `create()` returns another row's id.
* `svc_cascade`: an edge made between `canDeleteState()` and the DELETE goes with
  the cascade; both clients are told of success.
* `mig_first`: a migrator that finds `.schema` without its row commits migration 1
  and leaves the version at 0; the next run fails on tables that exist. One kill on
  the first run, or two first runs at once, suffice.
* `auth_restart`: a token logged out before a restart is accepted after it.

Also seen while modelling, without a run of their own:

* `sqlite_result_set.cpp:133`: `value()` takes a caption such as `2024-01-01 10:00:00` for a
  date and `valueString()` throws. A create inserts the row and answers 400; every
  list page with that row, and a get of it, is answered 500. `Dated` has these
  texts in both modules of services;
* `workflow_service.cpp:61`: two overlapping creates make two workflows of one
  caption; `edge_service.cpp:160`: a state archived after the check gets its edge
  (both promises hold serially, the second in run `svc_serial`);
* `state_service.cpp:222`: the bounds of a weight are checked when a state is made
  and not when it is updated; `WorkflowGraph!ChangeState` therefore promises
  nothing of the weight;
* `state_repository.h:57` calls remove() "мягкое удаление - архивация"; it is a
  DELETE with cascades;
* `sqlite_state_repository.cpp:335`: a failing check counts as "not used", and so does a
  failing `usageCount()` of item and field types;
* `sqlite_user_repository.cpp:433`: deleting a user is checked by nothing and takes along the
  user's comments, documents, messages, team roles and item history
  (`v1_initial_schema.h:67`, `290`, `348`, `372`, `464`);
* `sqlite_item_type_repository.cpp:117` orders by kind and caption and
  `sqlite_field_type_repository.cpp:116` by caption, and neither is unique: SQLite may list equal rows in another
  order for the next page, so that one is shown twice and another never. Projects, phases and
  users have the identifier in their ORDER BY;
* `project.cpp:70` and its like: `is_number()` lets `1.9` through and `get<int64_t>()` reads 1;
* `time_helpers.h:27`: seconds become ticks of the clock in an `int64_t`, so a date of today sent
  in milliseconds wraps to another date;
* `page_response.cpp:64`: a string or an object for `items` is read as a list;
* `sqlite_project_repository.cpp:247`: PUT may make a project its own ancestor, and
  `parentId: null` cannot take it out of its parent, for null is no value to set;
* `users_handler.cpp:131` answers 409 with "login or email already exists"; an email that
  exists passes `existsByLogin()`, violates UNIQUE and is answered 400;
* `sqlite_project_repository.cpp:96`: `(page - 1) * pageSize` overflows `int` for large numbers
  of the query string; a negative OFFSET is the first page to SQLite. Between COUNT and
  SELECT, and between one page and the next, rows may shift while others write;
* `auth_handler.cpp:124` and every handler with a body: as many of them as the pool has
  threads, each waiting for its continuation, wait for ever, and then so does `close()`;
  `StopHeeded` and `Answered` name this case (`Exhausted`);
* `application.cpp:150`: a signal before `run()` raises the flag is overwritten; the
  process goes on to use, or crashes on, what `stop()` has destroyed. `StopHeeded` says
  that it ends one way or another once there is a database; before that, the signal is lost;
* `main.cpp:18`: a second signal while the first one's handler is inside `RestServer::stop()`
  destroys the server under it (`application.cpp:189`);
* `idatabase.h:76` says the destructor does not roll back; it does
  (`sqlite_transaction.h:17` says so);
* `sqlite_connection.h:95`: the flag is per thread, not per connection: with a
  transaction on one connection, calls on another run unlocked;
* `sqlite_database.cpp:71`: `journal_mode` comes before `busy_timeout`, so it does
  not wait for a file another connection is closing;
* `sqlite_database.h:16` speaks of a single connection; a `shutdown()` while
  requests run lets a second one be opened (`FewActive` says how many);
* the migrator's downgrade trusts a version read before its transaction: with
  another process upgrading meanwhile it takes back a migration it did not mean;
  `v2_default_data.h:325` deletes users' states and edges with the default ones;
* `auth_service.cpp:174`: of two overlapping password changes both are answered 204
  and the last wins; `:185` also clears a flag raised since;
* `auth_middleware.cpp:87`: logging in within the second of a logout returns the
  token that was logged out; one logout ends all sessions begun in that second;
* `validateRequest` does not look at the user: a blocked or deleted user's token
  works until it expires.

## Fairness

* `conn`: a thread inside SQLite returns (weak); a transaction object goes out of
  scope however its block is left (strong, for calls come in between); the mutex goes
  some day to a thread for which it keeps becoming free (strong). glibc's rwlock
  prefers readers, so for writers this would be false if readers overlapped for ever:
  `NoReaderMonopoly` states the load that is assumed. With two threads the assumption
  is not noticed; with three, TLC shows the starvation without it.
* `db`: a scheduled thread goes on (weak), the mutex is not kept from one thread
  for ever (strong).
* `svc_serial`: each thread's next call happens (weak). `mig`: a running process goes
  on (weak; SQLite's busy timeout turns a wait for the lock into an error).
* `app`: the main thread runs the frame on top (weak), a pool thread goes on with its
  request (weak), and the pool takes its tasks in order, so a continuation for which
  threads keep coming free gets one (strong). No client has to ask and nobody has to
  send a signal.

## Proofs

All theorems hold for any number of threads, processes, requests and rows; they
assume only the named ASSUMEs of the modules, which TLC evaluates in the runs, and
what is said below. None of the safety properties is inductive; each module of proofs has
an invariant that is, TLC was asked about it first, and one lemma per action or group of actions.
Every safety property of the passing runs is stated by a theorem; where a type invariant is
proved for every instance (`conn`, `auth` and others), the run does not repeat it.

`SqliteConnectionProofs`: `TypeCorrect`, and, under `SingleConnection` (one connection
object, the normal state of the process), `Isolation`, `Exclusion`, `FlagSound`,
`OwnerWrites` (an action property) and `Implementation` (every behaviour is one of
`TxStore`). The assumption is needed: the flag is per thread. The inductive invariant adds to the
checked properties who owns the mutex at each `pc`: a thread in a body without the
flag holds the mutex in the mode of its call, a transaction's owner is its
exclusive owner and has the flag up, and nobody else is in a body then.

`SqliteDatabaseProofs`: `OneConnection`, `Configuration`, `ClosedLast` and
`TypeCorrect`, for any finite set of connection objects (`SlotsAssumption`). The invariant
says who holds `m_connectionMutex` at each `pc`, what a thread's shared_ptr keeps alive
(`Slotted`), how far the PRAGMAs of each connection are (`Configured`), and, for the count, that a connection in
use which is not the published one was left behind by a shutdown (`FewLeft`).

`WorkflowServicesProofs`: `TypeCorrect`, `NothingDangles`, `EdgesStayWithin`,
`EdgesDiffer`, `DeletedGone` and `Implementation`. That an edge stays within a
workflow rests on what a thread knows after its checks, although the rows it looked
at may be gone by then. The invariant is

* `TypeOK`;
* `IdsGiven`: every identifier in a table was given out by its sequence;
* `ChecksHold`: after validateEdge(), each of the two states is still in the
  workflow it was found in, or is gone, and then its identifier will not come back;
* `DeletesHold`: a row whose deletion is being answered is gone, and its identifier
  was given out, so it cannot come back;
* `Graph`: the rows are a graph in the sense of the properties.

Two theorems are about requests that do not overlap (`Alone`, one thread), as in `svc_serial`, while any other call
fails. `SerialDeletesSpare` needs an `isUsedByItems()` that does not fail and `~Placing`: `deleteState()` then takes no
edge and no item along, because what `canDeleteState()` saw is still so at the DELETE.
`SerialInsertsAnswered` needs that the last look-up does not fail: a create
that has inserted its row is answered 201 with it, or, when its caption reads like a date (see *Findings*), 400
with the row in place. With two threads `svc_cascade` shows the first false, and an INSERT of
another thread before `lastInsertId()` makes the second false.

The proof goes through the abstraction: each action is a step of `WorkflowGraph` or
a stutter (`StepRefines`), steps of `WorkflowGraph` keep `Graph` (`AbstractKeeps`)
and what threads know (`KnowledgeStep`). So the refinement is not an afterthought:
it carries the invariant.

`CatalogProofs`: `TablesSound`, `GoneForGood`, `DeletesAlone`, `AnswersHold`, from a database
that is sound at the start (`SeedAssumption`) and any requests of the five kinds
(`WorkloadsAssumption`). `StoreStep` says once what a step may do to the tables:
nothing, one row more, one row changed, or rows taken with all that pointed at them; that the tables stay
sound and that identifiers do not come back follow from it alone. What a thread is
told rests on an invariant per thread (`Minded`: between which calls it has written what,
and, as long as it is calm, what it has seen is still so): `Others` and `Outside` show that a step of
somebody else leaves it alone or ends the calm.

`DeletesAlone` (`DeleteSparesUsed`) compares two lists of tables that the code keeps apart: those `usageCount()`
counts and those the schema's cascade reaches. Rows that point at a type and were there at the
count, in a table of the cascade, are counted, so what a DELETE takes has come since. It says nothing of
users, whose deletion counts nothing.

`AnswersEcho` (`EchoesBody`) has an invariant of its own, `EchoInv`: the tables hold rows of the right
types (`Filed`), a body that got as far as a statement was one the class accepts (`BodyRead`), the row a
thread has written is what its body says until somebody else writes (`Kept`), and an answer
shows that row (`Echoed`). A number whose whole part its field and the clock can hold (`Exact`) comes back as that whole
part; of another it is proved that some value is there. `PagesPartition` (`PagesCover`) is about any table, any of the
`Orders` for each page, and any page size whose offsets fit an `int` (`n * MaxId <= Half`): a row that equals no
other in its ORDER BY has the same place in all of them (`Placed`), so it is on exactly one page; projects, phases and
users are such rows; no page is longer than asked. They are pages of one state of the table; nothing is
said of rows that shift while a client turns the page. That `Orders` is never empty, so that the pages
exist, is seen by TLC only.
What the constants are asked for is what they mean: texts have an order among integers and are no
numbers (`RankAssumption`), what is not wrong in a body is of a type its field takes, any number for an
`int64_t` or a date (`DocumentsAssumption`), and
the marks for null, wrong and missing are no values (`AbsentAssumption`, `MarksAssumption`).

`DtosProofs`: `ClassesCarry` and `DocumentsReturn`. A class is well formed when its fields are of kinds the
converters know and its constants, required and filled fields are what they should be; the 43 classes
of `common/dto` are, one by one. Of any document, whatever its numbers, a well-formed class writes again
each field that could be read: unchanged when an object can hold it, else as some value
that is not changed a second time. `DtosCarry` is `DtosCarryFields` for `Catalog`.

`MigrationManagerProofs`: `TypeCorrect`, `MigrationsWhole` and, when the first run was
undisturbed (`~SharedFirstRun`; run `mig_first` shows why), `VersionTells`. A process acts
on a version read before its transaction, so nothing is known when it begins;
`Working` says what the statements that were not refused have shown since. `Implementation`
(of `SchemaVersions`) needs no `~SharedFirstRun`, for it looks at the migrations and not at the version row.
What it adds to the invariant is `AtVersion` (the file is at one version) and `Based` (while a
process writes, it is a version the migration can start from: the first statement was not refused, and the lock
has kept the file since).

`AuthSessionsProofs`: `TypeCorrect`, `BlacklistComplete`, `InvalidOut`,
`CredentialsRight`. A request with a token that is no good is stopped by one of two
checks at two readings of the clock: at the first the token is on the list, or has
expired, and then stays so until the second (`LateStopped`, `OverdueStopped`). That it is on the
list needs that a sweep uses a time that has passed and that a logout under way has
listed its token. `Implementation` (of `Sessions`) rests on the same invariant: at the look into the list a
token that is not there and has not expired was not logged out either, by `BlacklistKeeps`.

`AppLifecycleProofs`: `TypeCorrect`, `StopsSafely`, `LeavesNothing`. The
invariant says, for every step of `main()` and of a handler, and for every frame one of them has interrupted, which of server,
listener and database are there, as long as signals came at the moments of `Interruptible` (`Calmly`), and that once one of
them may go no request is left and none can come.

Only model-checked: liveness (`CallsServed`, `CallsEnd`, `RequestsAnswered`, `RunsEnd`, `StopHeeded`,
`Answered`): fairness and ENABLED are beyond the prover.

## Not modelled

`PROJECT.json` lists every component with its status.

* The items handler is a prototype that answers with fixed data; its routes are in
  `RestRoutes`. Configuration, client, code generators, helpers and log keep no state two actors
  share. Tests are read as evidence of what is meant.
* Lists of workflows, states and edges: `Catalog` has the lists of the other five,
  which are written alike.
* In `Catalog`: `searchCaption` (LIKE), descriptions and other text columns nothing
  depends on, the dates of creation and change; which of the rows pointing at a user or a type go, beyond
  the table they are in.
* The default rows of migration 2: a migration is a number of statements.
* Forged signatures, a clock set back, SQLite's own faults beyond a failing statement.
* In `AppLifecycle`: a signal that comes to a thread of the pool, or twice; what
  `close()` does with a connection that never sends its body.

## Plan

What is left, in the order of its use:

1. the lists of workflows, states and edges as requests of `WorkflowServices`;
2. `conn` with two connections of one process, as a `shutdown()` during requests leaves
   them, for the flag that is per thread;
3. a ghost identifier per login in `AuthSessions`, to speak of sessions where two logins within a second
   share a token;
4. the default data of migration 2, to tell users' rows from its own when it is taken back;
5. abstract specifications of `SqliteDatabase` (one connection, lent out) and of `Catalog` (tables whose
   requests take effect at one moment when calm), with their refinements.
