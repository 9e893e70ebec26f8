----------------------------- MODULE AppLifecycle -----------------------------
(***************************************************************************)
(* The life of the vault-server process: main(), Application and           *)
(* RestServer, from the configuration file to the exit code, with the      *)
(* signals that stop it and the requests it is serving meanwhile.          *)
(*                                                                         *)
(* The signal handler is an ordinary function: it calls Application::stop  *)
(* on the thread the signal interrupts, so main() goes on only after the   *)
(* handler has returned.  The kernel gives a signal to the main thread     *)
(* unless that thread is handling the same signal already; a signal is     *)
(* taken to arrive at most once, so the handlers nest on the main thread.  *)
(*                                                                         *)
(* cpprestsdk is external: its listener runs every request on a thread of  *)
(* a fixed pool, and close().wait() ends when no request is in flight.     *)
(***************************************************************************)
EXTENDS RestRoutes, FiniteSets

CONSTANTS
    Requests,   \* bound: requests served at the same time
    Calls,      \* bound: what they ask for
    NoCall,     \* what a request that is not there asks for
    Pool        \* threads of cpprestsdk's pool

ASSUME CallsAssumption ==
    \A c \in Calls : c.method \in Methods /\ c.path \in Seq(STRING) /\ c.token \in BOOLEAN
ASSUME PoolAssumption == Pool \in Nat \ {0} /\ IsFiniteSet(Requests)

Signals == {"SIGINT", "SIGTERM"}
Frames  == {"main"} \cup Signals

VARIABLES
    fate,           \* of the process: alive, exited, killed, or crashed
    code,           \* what main() returns
    pc,             \* frame of the main thread -> the next step in it
    now,            \* the frame on top, the one that runs
    below,          \* signal -> the frame its handler interrupted
    app,            \* applicationPtr is set
    running,        \* Application::m_isRunning
    server,         \* Application::m_restServer: none, made, or destroyed
    serving,        \* RestServer::m_isRunning
    listening,      \* the http_listener accepts requests
    database,       \* Application::m_database: none, ready, or shut
    at,             \* request -> where it is
    call,           \* request -> what it asks for
    \* What happened, for the properties; the code keeps none of it.
    calm,           \* signals came only when stop() may begin
    told            \* a signal came when there was something to stop

appVars  == <<app, running, server, serving, listening, database>>
poolVars == <<at, call>>
pastVars == <<calm, told>>
vars == <<fate, code, pc, now, below, appVars, poolVars, pastVars>>

MainPCs == {"config", "store", "database", "repositories", "server", "listener",
            "raise", "open", "serving", "loop", "left"}
StopPCs == {"lower", "stopServer", "close", "drain"}
CleanPCs == {"reset", "settle", "shutdown"}
PCs == MainPCs \cup StopPCs \cup CleanPCs \cup {"none", "done"}

Places == {"idle", "routing", "handling", "waiting", "continuing", "returning"}

TypeOK ==
    /\ fate \in {"alive", "exited", "killed", "crashed"}
    /\ code \in {"none", "success", "failure"}
    /\ pc \in [Frames -> PCs]
    /\ now \in Frames
    /\ below \in [Signals -> Frames]
    /\ app \in BOOLEAN /\ running \in BOOLEAN /\ serving \in BOOLEAN
    /\ listening \in BOOLEAN
    /\ server \in {"none", "made", "destroyed"}
    /\ database \in {"none", "ready", "shut"}
    /\ at \in [Requests -> Places]
    /\ call \in [Requests -> Calls \cup {NoCall}]
    /\ calm \in BOOLEAN /\ told \in BOOLEAN

Init ==
    /\ fate = "alive" /\ code = "none"
    /\ pc = [f \in Frames |-> IF f = "main" THEN "config" ELSE "none"]
    /\ now = "main"
    /\ below = [s \in Signals |-> "main"]
    /\ app = FALSE /\ running = FALSE
    /\ server = "none" /\ serving = FALSE /\ listening = FALSE
    /\ database = "none"
    /\ at = [r \in Requests |-> "idle"]
    /\ call = [r \in Requests |-> NoCall]
    /\ calm = TRUE /\ told = FALSE

--------------------------------------------------------------------------------
(* Steps of a frame of the main thread.                                    *)

At(f, place) == fate = "alive" /\ now = f /\ pc[f] = place
Go(f, place) == pc' = [pc EXCEPT ![f] = place]

(* A null or dangling m_restServer, or an exception nobody catches.        *)
Crash == /\ fate' = "crashed"
         /\ UNCHANGED <<code, pc, now, below, appVars, poolVars, pastVars>>

AppOnly == UNCHANGED <<fate, now, below, poolVars, pastVars>>

(* run() returns a code, and ~Application() calls cleanup().               *)
ReturnCode(c) == code' = c /\ Go("main", "reset")

(* main(): without a configuration it ends before there is an application. *)
LoadConfig ==
    /\ At("main", "config")
    /\ \/ Go("main", "store") /\ UNCHANGED code
       \/ Go("main", "left") /\ code' = "failure"
    /\ AppOnly /\ UNCHANGED appVars

StorePointer ==
    /\ At("main", "store")
    /\ app' = TRUE
    /\ Go("main", "database")
    /\ AppOnly /\ UNCHANGED <<code, running, server, serving, listening, database>>

(* initialize(), 1: an exception of the database is caught.  m_database is *)
(* assigned before its initialize() can throw.                             *)
OpenDatabase ==
    /\ At("main", "database")
    /\ database' = "ready"
    /\ \/ Go("main", "repositories") /\ UNCHANGED code
       \/ ReturnCode("failure")
    /\ AppOnly /\ UNCHANGED <<app, running, server, serving, listening>>

(* initialize(), 2: a repository throws when m_database is null.           *)
MakeRepositories ==
    /\ At("main", "repositories")
    /\ database = "ready"
    /\ Go("main", "server")
    /\ AppOnly /\ UNCHANGED <<code, appVars>>

MakeRepositoriesThrows ==
    /\ At("main", "repositories")
    /\ database = "shut"
    /\ Crash

(* initialize(), 5, and the services set one after the other: two of them  *)
(* take a repository made here, of m_database.                             *)
MakeServer ==
    /\ At("main", "server")
    /\ database = "ready"
    /\ server' = "made"
    /\ Go("main", "listener")
    /\ AppOnly /\ UNCHANGED <<code, app, running, serving, listening, database>>

MakeServerThrows ==
    /\ At("main", "server")
    /\ database = "shut"
    /\ Crash

(* RestServer::initialize(): the routes and the listener.                  *)
InitializeServer ==
    /\ At("main", "listener")
    /\ server = "made"
    /\ Go("main", "raise")
    /\ AppOnly /\ UNCHANGED <<code, appVars>>

(* run() raises m_isRunning when initialize() is through.                  *)
RaiseRunning ==
    /\ At("main", "raise")
    /\ running' = TRUE
    /\ Go("main", "open")
    /\ AppOnly /\ UNCHANGED <<code, app, server, serving, listening, database>>

(* RestServer::start(): m_listener->open().wait() ...                      *)
OpenListener ==
    /\ At("main", "open")
    /\ server = "made"
    /\ \/ listening' = TRUE /\ Go("main", "serving") /\ UNCHANGED code
       \/ ReturnCode("failure") /\ UNCHANGED listening
    /\ AppOnly /\ UNCHANGED <<app, running, server, serving, database>>

(* ... and its own m_isRunning, raised after the listener is open.         *)
RaiseServing ==
    /\ At("main", "serving")
    /\ server = "made"
    /\ serving' = TRUE
    /\ Go("main", "loop")
    /\ AppOnly /\ UNCHANGED <<code, app, running, server, listening, database>>

(* A handler that interrupted one of these steps destroyed the server.     *)
UseDestroyedServer ==
    /\ At("main", pc["main"])
    /\ pc["main"] \in {"listener", "open", "serving"}
    /\ server = "destroyed"
    /\ Crash

(* while (m_isRunning): the only way out is a signal.                      *)
LeaveLoop ==
    /\ At("main", "loop")
    /\ ~running
    /\ ReturnCode("success")
    /\ AppOnly /\ UNCHANGED appVars

(* The end of main().                                                      *)
Exit ==
    /\ At("main", "left")
    /\ fate' = "exited"
    /\ UNCHANGED <<code, pc, now, below, appVars, poolVars, pastVars>>

--------------------------------------------------------------------------------
(* Application::stop() in the frame of a signal handler, and cleanup()     *)
(* there or in the destructor of main()'s Application.                     *)

LowerNothing(s) ==                                           \* seeded fault
    /\ At(s, "lower")
    /\ Go(s, IF server = "made" THEN "stopServer" ELSE "shutdown")
    /\ AppOnly /\ UNCHANGED <<code, appVars>>

LowerRunning(s) ==
    /\ At(s, "lower")
    /\ running' = FALSE
    /\ Go(s, IF server = "made" THEN "stopServer" ELSE "shutdown")
    /\ AppOnly /\ UNCHANGED <<code, app, server, serving, listening, database>>

(* RestServer::stop() returns at once when its flag is down.               *)
StopServer(s) ==
    /\ At(s, "stopServer")
    /\ server = "made"
    /\ serving' = FALSE
    /\ Go(s, IF serving THEN "close" ELSE "reset")
    /\ AppOnly /\ UNCHANGED <<code, app, running, server, listening, database>>

CloseListener(s) ==
    /\ At(s, "close")
    /\ server = "made"
    /\ listening' = FALSE
    /\ Go(s, "drain")
    /\ AppOnly /\ UNCHANGED <<code, app, running, server, serving, database>>

InFlight == {r \in Requests : at[r] # "idle"}

DrainAtOnce(s) ==                                            \* seeded fault
    /\ At(s, "drain")
    /\ Go(s, "reset")
    /\ AppOnly /\ UNCHANGED <<code, appVars>>

(* close().wait() *)
Drain(s) ==
    /\ At(s, "drain")
    /\ server = "made"
    /\ InFlight = {}
    /\ Go(s, "reset")
    /\ AppOnly /\ UNCHANGED <<code, appVars>>

(* A second handler destroyed the server this one is stopping.             *)
StopDestroyed(s) ==
    /\ \E place \in {"stopServer", "close", "drain"} : At(s, place)
    /\ server = "destroyed"
    /\ Crash

(* m_restServer.reset(): ~RestServer() finds its flag down.  A listener    *)
(* that is open all the same is closed by its own destructor, when the     *)
(* routes are gone.                                                        *)
ResetServer(f) ==
    /\ At(f, "reset")
    /\ server' = IF server = "made" THEN "destroyed" ELSE server
    /\ listening' = FALSE
    /\ Go(f, IF listening THEN "settle" ELSE "shutdown")
    /\ AppOnly /\ UNCHANGED <<code, app, running, serving, database>>

Settle(f) ==
    /\ At(f, "settle")
    /\ InFlight = {}
    /\ Go(f, "shutdown")
    /\ AppOnly /\ UNCHANGED <<code, appVars>>

DropDatabase(f) ==                                           \* seeded fault
    /\ At(f, "shutdown")
    /\ Go(f, IF f = "main" THEN "left" ELSE "done")
    /\ now' = IF f = "main" THEN f ELSE below[f]
    /\ UNCHANGED <<fate, code, below, appVars, poolVars, pastVars>>

(* m_database->shutdown() and m_database.reset(), and the frame ends.      *)
ShutDatabase(f) ==
    /\ At(f, "shutdown")
    /\ database' = IF database = "ready" THEN "shut" ELSE database
    /\ Go(f, IF f = "main" THEN "left" ELSE "done")
    /\ now' = IF f = "main" THEN f ELSE below[f]
    /\ UNCHANGED <<fate, code, below, app, running, server, serving, listening>>
    /\ UNCHANGED <<poolVars, pastVars>>

--------------------------------------------------------------------------------
(* A signal, by what it interrupts.                                        *)

(* Moments at which stop() may begin: main() is in its loop or in the      *)
(* cleanup that follows it, or a first handler has not looked at the       *)
(* server yet or has closed it.  From the moment the first handler looks   *)
(* at the server until it is closed, a second one that interrupts it would *)
(* destroy the server it is stopping.                                      *)
Interruptible ==
    \/ now = "main" /\ pc["main"] = "loop"
    \/ now = "main" /\ pc["main"] \in CleanPCs /\ code = "success"
    \/ now \in Signals /\ pc[now] \in {"lower", "reset", "shutdown"}

Observe == /\ calm' = (calm /\ Interruptible)
           /\ told' = (told \/ database # "none")

Arriving(s) == fate = "alive" /\ pc[s] = "none"

(* std::signal() comes after the configuration is loaded.                  *)
SignalKills(s) ==
    /\ Arriving(s)
    /\ pc["main"] = "config"
    /\ fate' = "killed"
    /\ UNCHANGED <<code, pc, now, below, appVars, poolVars, pastVars>>

(* signalHandler() finds no application yet.                               *)
SignalIgnored(s) ==
    /\ Arriving(s)
    /\ pc["main"] # "config" /\ ~app
    /\ Go(s, "done")
    /\ Observe
    /\ UNCHANGED <<fate, code, now, below, appVars, poolVars>>

(* signalHandler() calls stop().                                           *)
SignalStops(s) ==
    /\ Arriving(s)
    /\ app /\ pc["main"] # "left"
    /\ Go(s, "lower")
    /\ now' = s
    /\ below' = [below EXCEPT ![s] = now]
    /\ Observe
    /\ UNCHANGED <<fate, code, appVars, poolVars>>

(* applicationPtr is never cleared: stop() of a destroyed application may  *)
(* find its null pointers still there, or anything else.                   *)
SignalDangles(s) ==
    /\ Arriving(s)
    /\ app /\ pc["main"] = "left"
    /\ \/ fate' = "crashed" /\ UNCHANGED pc
       \/ Go(s, "done") /\ UNCHANGED fate
    /\ Observe
    /\ UNCHANGED <<code, now, below, appVars, poolVars>>

--------------------------------------------------------------------------------
(* Requests, on the threads of the pool.                                   *)

InPlaces(places) == {r \in Requests : at[r] \in places}

(* A handler that waits for a body keeps its thread, and the continuation  *)
(* it waits for takes another one.                                         *)
Busy == Cardinality(InPlaces(Places \ {"idle"})) + Cardinality(InPlaces({"continuing"}))
ThreadFree == Busy < Pool

PoolOnly == UNCHANGED <<fate, code, pc, now, below, appVars, pastVars>>

Step(r, from, to) ==
    /\ fate = "alive"
    /\ at[r] = from
    /\ at' = [at EXCEPT ![r] = to]
    /\ PoolOnly

Arrive(r) ==
    /\ listening /\ ThreadFree
    /\ Step(r, "idle", "routing")
    /\ \E c \in Calls : call' = [call EXCEPT ![r] = c]

(* handleRequest(): 404 without a route, 401 without a token where one is  *)
(* needed, else the handler.                                               *)
Found   == [c \in Calls |-> Matching(c.method, c.path) # {}]
Handler == [c \in Calls |-> Matched(c.method, c.path)]
Allowed(c) == IsPublic(Handler[c]) \/ c.token

NoAnswer(c) == IF ~Found[c] \/ ~Allowed(c) THEN "routing"     \* seeded fault
               ELSE IF ReadsBody(Handler[c]) THEN "waiting" ELSE "handling"

Verdict(c) == IF ~Found[c] \/ ~Allowed(c) THEN "returning"
              ELSE IF ReadsBody(Handler[c]) THEN "waiting" ELSE "handling"

HandleRequest(r) ==
    /\ at[r] = "routing" /\ server = "made"
    /\ Step(r, "routing", Verdict(call[r]))
    /\ UNCHANGED call

(* The routes or the middleware are gone.                                  *)
HandleDestroyed(r) ==
    /\ fate = "alive" /\ at[r] = "routing"
    /\ server = "destroyed"
    /\ Crash

(* A handler without a body calls its service and replies.                 *)
Handle(r) == Step(r, "handling", "returning") /\ UNCHANGED call

(* The body is there: the continuation calls the service and replies.      *)
Continue(r) == ThreadFree /\ Step(r, "waiting", "continuing") /\ UNCHANGED call
Reply(r)    == Step(r, "continuing", "returning") /\ UNCHANGED call

(* wait() is over, the thread goes back to the pool.                       *)
Return(r) ==
    /\ Step(r, "returning", "idle")
    /\ call' = [call EXCEPT ![r] = NoCall]

--------------------------------------------------------------------------------
Next ==
    \/ LoadConfig \/ StorePointer \/ OpenDatabase
    \/ MakeRepositories \/ MakeRepositoriesThrows \/ MakeServer \/ MakeServerThrows
    \/ InitializeServer \/ RaiseRunning \/ OpenListener \/ RaiseServing
    \/ UseDestroyedServer \/ LeaveLoop \/ Exit
    \/ \E s \in Signals :
           \/ LowerRunning(s) \/ StopServer(s) \/ CloseListener(s) \/ Drain(s)
           \/ StopDestroyed(s)
           \/ SignalKills(s) \/ SignalIgnored(s) \/ SignalStops(s) \/ SignalDangles(s)
    \/ \E f \in Frames : ResetServer(f) \/ Settle(f) \/ ShutDatabase(f)
    \/ \E r \in Requests :
           \/ Arrive(r) \/ HandleRequest(r) \/ HandleDestroyed(r) \/ Handle(r)
           \/ Continue(r) \/ Reply(r) \/ Return(r)

Spec == Init /\ [][Next]_vars

(* The thread of main() runs whatever frame is on top of it; a thread of   *)
(* the pool goes on with its request.  The pool takes its tasks in order,  *)
(* so a continuation does not wait for ever while threads come free.       *)
(* Nothing obliges a client to ask or anybody to send a signal.            *)
MainStep ==
    \/ LoadConfig \/ StorePointer \/ OpenDatabase
    \/ MakeRepositories \/ MakeRepositoriesThrows \/ MakeServer \/ MakeServerThrows
    \/ InitializeServer \/ RaiseRunning \/ OpenListener \/ RaiseServing
    \/ UseDestroyedServer \/ LeaveLoop \/ Exit
    \/ \E s \in Signals :
           \/ LowerRunning(s) \/ StopServer(s) \/ CloseListener(s) \/ Drain(s)
           \/ StopDestroyed(s)
    \/ \E f \in Frames : ResetServer(f) \/ Settle(f) \/ ShutDatabase(f)

RequestStep(r) == HandleRequest(r) \/ HandleDestroyed(r) \/ Handle(r) \/ Reply(r) \/ Return(r)

FairSpec ==
    /\ Spec
    /\ WF_vars(MainStep)
    /\ \A r \in Requests : WF_vars(RequestStep(r)) /\ SF_vars(Continue(r))

--------------------------------------------------------------------------------
(* Properties.                                                             *)

(* main.cpp:18: signals that come after main() entered its loop, and not   *)
(* while another handler is inside RestServer::stop(), stop the process    *)
(* without a crash, on top of each other or one after the other; neither   *)
(* the server nor the database goes while a thread of the pool is in a     *)
(* request, whatever the requests are doing.                               *)
NothingInUse ==
    calm => /\ fate # "crashed"
            /\ server = "destroyed" \/ database = "shut" => InFlight = {}

(* application.cpp:135: with signals at those moments only, a process that *)
(* ends by itself leaves nothing open, and it reports success exactly when *)
(* a signal stopped it.                                                    *)
CleanExit ==
    calm /\ fate = "exited" =>
        /\ server # "made" /\ database # "ready" /\ ~listening
        /\ (code = "success") = (\E s \in Signals : pc[s] = "done")

(* Every thread of the pool waits for a continuation none is left to run.  *)
Exhausted == Cardinality(InPlaces({"waiting"})) = Pool

(* application.cpp:150: whenever the signal comes, from the moment there   *)
(* is a database to close, it is not lost: the process ends, one way or    *)
(* the other, unless the pool is exhausted and close() waits for ever.     *)
StopHeeded == told ~> (fate # "alive" \/ Exhausted)

(* auth_handler.cpp:124: every request is answered and gives its thread    *)
(* back, unless as many handlers wait for a body as the pool has threads.  *)
Answered ==
    \A r \in Requests :
        at[r] # "idle" ~> (at[r] = "idle" \/ Exhausted \/ fate # "alive")
================================================================================
