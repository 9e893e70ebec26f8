-------------------------- MODULE AppLifecycleProofs --------------------------
(***************************************************************************)
(* Proofs about AppLifecycle: what its MC run checks of one or two         *)
(* requests and a pool of two threads holds of any number of both, and of  *)
(* any paths and tokens the requests may carry.                            *)
(*                                                                         *)
(* The inductive invariant adds to the types a part that holds while       *)
(* signals came only when stop() may begin: Calmly says, for each step of  *)
(* main() and of the handlers on top of it, which of the server, the       *)
(* listener and the database are there, that a handler another one         *)
(* interrupted has not begun with the server or is done with it, and that  *)
(* once one of the two may go no request is left and none can arrive.      *)
(***************************************************************************)
EXTENDS AppLifecycle, TLAPS

LEMMA PlaceNames ==
    /\ \A p \in MainPCs \cup StopPCs \cup CleanPCs \cup {"none", "done"} : p \in PCs
    /\ {"lower", "stopServer", "close", "drain", "reset", "settle", "shutdown",
        "store", "database", "repositories", "server", "listener", "raise", "open",
        "serving", "loop", "left", "done"} \subseteq PCs
BY DEF PCs, MainPCs, StopPCs, CleanPCs

LEMMA GoType ==
    ASSUME pc \in [Frames -> PCs], NEW f \in Frames, NEW p \in PCs, Go(f, p)
    PROVE  pc' \in [Frames -> PCs]
BY DEF Go

LEMMA TypeInit == Init => TypeOK
<1> SUFFICES ASSUME Init PROVE TypeOK
  OBVIOUS
<1>1. pc \in [Frames -> PCs]
  BY DEF Init, PCs, MainPCs
<1>2. QED
  BY <1>1 DEF Init, TypeOK, Frames, Signals, Places

LEMMA TypeStep == TypeOK /\ Next => TypeOK'
<1> SUFFICES ASSUME TypeOK, Next PROVE TypeOK'
  OBVIOUS
<1> USE GoType, PlaceNames DEF TypeOK, Frames, Signals, Places, At, appVars, poolVars, pastVars
<1>1. CASE LoadConfig
  BY <1>1 DEF LoadConfig, AppOnly
<1>2. CASE StorePointer
  BY <1>2 DEF StorePointer, AppOnly
<1>3. CASE OpenDatabase
  BY <1>3 DEF OpenDatabase, AppOnly, ReturnCode
<1>4. CASE MakeRepositories
  BY <1>4 DEF MakeRepositories, AppOnly
<1>5. CASE MakeRepositoriesThrows
  BY <1>5 DEF MakeRepositoriesThrows, Crash
<1>6. CASE MakeServer
  BY <1>6 DEF MakeServer, AppOnly
<1>7. CASE MakeServerThrows
  BY <1>7 DEF MakeServerThrows, Crash
<1>8. CASE InitializeServer
  BY <1>8 DEF InitializeServer, AppOnly
<1>9. CASE RaiseRunning
  BY <1>9 DEF RaiseRunning, AppOnly
<1>10. CASE OpenListener
  BY <1>10 DEF OpenListener, AppOnly, ReturnCode
<1>11. CASE RaiseServing
  BY <1>11 DEF RaiseServing, AppOnly
<1>12. CASE UseDestroyedServer
  BY <1>12 DEF UseDestroyedServer, Crash
<1>13. CASE LeaveLoop
  BY <1>13 DEF LeaveLoop, AppOnly, ReturnCode
<1>14. CASE Exit
  BY <1>14 DEF Exit
<1>15. CASE \E s \in Signals : LowerRunning(s)
  <2>1. PICK s \in Signals : LowerRunning(s)
    BY <1>15
  <2>2. (IF server = "made" THEN "stopServer" ELSE "shutdown") \in PCs
    OBVIOUS
  <2>3. pc' \in [Frames -> PCs]
    BY <2>1, <2>2 DEF LowerRunning
  <2>4. QED
    BY <2>1, <2>3 DEF LowerRunning, AppOnly
<1>16. CASE \E s \in Signals : StopServer(s)
  BY <1>16 DEF StopServer, AppOnly
<1>17. CASE \E s \in Signals : CloseListener(s)
  BY <1>17 DEF CloseListener, AppOnly
<1>18. CASE \E s \in Signals : Drain(s)
  BY <1>18 DEF Drain, AppOnly
<1>19. CASE \E s \in Signals : StopDestroyed(s)
  BY <1>19 DEF StopDestroyed, Crash
<1>20. CASE \E s \in Signals : SignalKills(s)
  BY <1>20 DEF SignalKills, Arriving
<1>21. CASE \E s \in Signals : SignalIgnored(s)
  BY <1>21 DEF SignalIgnored, Arriving, Observe
<1>22. CASE \E s \in Signals : SignalStops(s)
  BY <1>22 DEF SignalStops, Arriving, Observe
<1>23. CASE \E s \in Signals : SignalDangles(s)
  BY <1>23 DEF SignalDangles, Arriving, Observe
<1>24. CASE \E f \in Frames : ResetServer(f)
  <2>1. PICK f \in Frames : ResetServer(f)
    BY <1>24
  <2>2. (IF listening THEN "settle" ELSE "shutdown") \in PCs
    OBVIOUS
  <2>3. pc' \in [Frames -> PCs]
    BY <2>1, <2>2 DEF ResetServer
  <2>4. QED
    BY <2>1, <2>3 DEF ResetServer, AppOnly
<1>25. CASE \E f \in Frames : Settle(f)
  BY <1>25 DEF Settle, AppOnly
<1>26. CASE \E f \in Frames : ShutDatabase(f)
  BY <1>26 DEF ShutDatabase
<1>27. CASE \E r \in Requests : Arrive(r)
  BY <1>27 DEF Arrive, Step, PoolOnly
<1>28. CASE \E r \in Requests : HandleRequest(r)
  BY <1>28 DEF HandleRequest, Step, PoolOnly, Verdict
<1>29. CASE \E r \in Requests : HandleDestroyed(r)
  BY <1>29 DEF HandleDestroyed, Crash
<1>30. CASE \E r \in Requests : Handle(r)
  BY <1>30 DEF Handle, Step, PoolOnly
<1>31. CASE \E r \in Requests : Continue(r)
  BY <1>31 DEF Continue, Step, PoolOnly
<1>32. CASE \E r \in Requests : Reply(r)
  BY <1>32 DEF Reply, Step, PoolOnly
<1>33. CASE \E r \in Requests : Return(r)
  BY <1>33 DEF Return, Step, PoolOnly
<1>34. QED
  BY <1>1, <1>2, <1>3, <1>4, <1>5, <1>6, <1>7, <1>8, <1>9, <1>10, <1>11,
     <1>12, <1>13, <1>14, <1>15, <1>16, <1>17, <1>18, <1>19, <1>20, <1>21, <1>22,
     <1>23, <1>24, <1>25, <1>26, <1>27, <1>28, <1>29, <1>30, <1>31, <1>32, <1>33 DEF Next

--------------------------------------------------------------------------------
(* Where the process can be while signals came only when stop() may begin. *)
Quiet     == ~listening /\ InFlight = {}
Stopped   == \E s \in Signals : pc[s] = "done"
InHandler(s) == pc[s] \notin {"none", "done"}

(* Before the loop no signal has come, and what is made is there.          *)
StartStage ==
    /\ pc["main"] \notin {"loop", "reset", "settle", "shutdown", "left"}
           => \A s \in Signals : pc[s] = "none"
    /\ pc["main"] \in {"config", "store", "database", "repositories", "server"}
           => server = "none"
    /\ pc["main"] \in {"listener", "raise", "open", "serving"} => server = "made"
    /\ pc["main"] \in {"config", "store", "database"} => database = "none"
    /\ pc["main"] \in {"repositories", "server", "listener", "raise", "open", "serving"}
           => database = "ready"
    /\ pc["main"] \in {"open", "serving"} => running
    /\ pc["main"] \notin {"serving", "loop"} => Quiet
    /\ pc["main"] \notin {"config", "store", "left"} => app

(* The loop serves until a handler is at work; a handler that is done has  *)
(* destroyed the server, and what is gone is not in use.                   *)
LoopStage ==
    /\ pc["main"] = "loop" =>
           /\ (\A s \in Signals : pc[s] = "none") => running
           /\ (\A s \in Signals : pc[s] \in {"none", "lower"}) =>
                  server = "made" /\ serving /\ database = "ready"
    /\ Stopped => server = "destroyed" /\ database = "shut"
    /\ server = "destroyed" \/ database = "shut" => Quiet
    /\ database = "shut" => server # "made"

(* The handlers: the one on top may be anywhere in stop(), one that it     *)
(* interrupted has not looked at the server yet or has closed it.          *)
HandlerStage ==
    /\ now \in Signals => InHandler(now)
    /\ \A s \in Signals :
           /\ pc[s] \in StopPCs \cup {"reset", "shutdown", "none", "done"}
           /\ InHandler(s) =>
                  /\ now \in Signals /\ (now = s \/ below[now] = s)
                  /\ below[s] # s /\ (below[s] # "main" => InHandler(below[s]))
                  /\ now = s \/ (below[s] = "main" /\ pc[s] \in {"lower", "reset", "shutdown"})
                  /\ server # "none" /\ database # "none"
                  /\ \/ pc["main"] = "loop"
                     \/ pc["main"] \in {"reset", "settle", "shutdown"} /\ Stopped
           /\ pc[s] \in {"stopServer", "close", "drain"} => server = "made" /\ database = "ready"
           /\ pc[s] = "stopServer" => serving \/ Quiet
           /\ pc[s] \in {"close", "drain", "reset"} => ~serving
           /\ pc[s] = "drain" => ~listening
           /\ pc[s] \in {"reset", "shutdown"} => Quiet
           /\ pc[s] = "shutdown" => server = "destroyed"

(* The end: main() says success when a handler is done.                    *)
EndStage ==
    /\ pc["main"] \in {"reset", "settle", "shutdown", "left"} =>
           (code = "success" <=> Stopped)
    /\ pc["main"] \in {"settle", "shutdown", "left"} => server # "made"
    /\ pc["main"] = "left" => database # "ready"
    /\ fate = "exited" => pc["main"] = "left"
    /\ fate # "crashed"

Calmly == StartStage /\ LoopStage /\ HandlerStage /\ EndStage

LEMMA CalmInit == Init => Calmly
BY DEF Init, Calmly, StartStage, LoopStage, HandlerStage, EndStage, Quiet, Stopped, InHandler,
       InFlight, Frames, Signals, StopPCs

LEMMA GoTo ==
    ASSUME TypeOK, NEW f \in Frames, NEW p, Go(f, p)
    PROVE  pc'[f] = p /\ \A g \in Frames : g # f => pc'[g] = pc[g]
BY DEF TypeOK, Go

LEMMA Stopping ==
    ASSUME TypeOK, NEW f \in Frames, NEW p, Go(f, p)
    PROVE  /\ f = "main" \/ (p # "done" /\ pc[f] # "done") => Stopped' = Stopped
           /\ f # "main" /\ p = "done" => Stopped'
BY GoTo DEF Stopped, Frames, Signals

(* Nothing is gone that a request may still use.                           *)
LEMMA Unused ==
    ASSUME Calmly, server = "destroyed" \/ database = "shut"
    PROVE  Quiet
BY DEF Calmly, LoopStage

LEMMA MainKeepsRequests == UNCHANGED poolVars /\ ~listening' => Quiet' = (InFlight = {})
BY DEF Quiet, InFlight, poolVars

LEMMA QuietMain == UNCHANGED poolVars /\ listening' = listening => Quiet' = Quiet
BY DEF Quiet, InFlight, poolVars

(* Requests come only while the listener is open, and touch nothing else.  *)
LEMMA PoolKeeps ==
    ASSUME TypeOK, Calmly, NEW r \in Requests,
           Arrive(r) \/ HandleRequest(r) \/ Handle(r) \/ Continue(r) \/ Reply(r) \/ Return(r)
    PROVE  Calmly'
<1>1. UNCHANGED <<fate, code, pc, now, below, app, running, server, serving, listening, database>>
  BY DEF Arrive, HandleRequest, Handle, Continue, Reply, Return, Step, PoolOnly, appVars
<1>2. Quiet => Quiet'
  BY <1>1 DEF TypeOK, Quiet, InFlight, Arrive, HandleRequest, Handle, Continue, Reply, Return,
              Step
<1>3. Stopped' = Stopped /\ \A s \in Signals : InHandler(s)' = InHandler(s)
  BY <1>1 DEF Stopped, InHandler
<1>4. StartStage'
  BY <1>1, <1>2 DEF Calmly, StartStage
<1>5. LoopStage'
  BY <1>1, <1>2, <1>3 DEF Calmly, LoopStage
<1>6. HandlerStage'
  BY <1>1, <1>2, <1>3 DEF Calmly, HandlerStage, InHandler
<1>7. EndStage'
  BY <1>1, <1>3 DEF Calmly, EndStage
<1>8. QED
  BY <1>4, <1>5, <1>6, <1>7 DEF Calmly

(* A signal that comes when stop() may begin finds main() in its loop or   *)
(* past it, with a server and a database that were made.                   *)
LEMMA Landing ==
    ASSUME TypeOK, Calmly, Interruptible
    PROVE  /\ app /\ server # "none" /\ database # "none"
           /\ \/ pc["main"] = "loop"
              \/ pc["main"] \in {"reset", "settle", "shutdown"} /\ Stopped
           /\ now = "main" => \A s \in Signals : pc[s] \in {"none", "done"}
<1> USE DEF TypeOK, Calmly, Frames, Signals
<1>1. CASE now = "main" /\ pc["main"] = "loop"
  <2>1. \A s \in Signals : pc[s] \in {"none", "done"}
    BY <1>1 DEF HandlerStage, InHandler
  <2>2. app
    BY <1>1 DEF StartStage
  <2>3. server # "none" /\ database # "none"
    BY <1>1, <2>1 DEF LoopStage, Stopped
  <2>4. QED
    BY <1>1, <2>1, <2>2, <2>3
<1>2. CASE now = "main" /\ pc["main"] \in CleanPCs /\ code = "success"
  <2>1. \A s \in Signals : pc[s] \in {"none", "done"}
    BY <1>2 DEF HandlerStage, InHandler
  <2>2. app /\ Stopped
    BY <1>2 DEF StartStage, EndStage, CleanPCs
  <2>3. server # "none" /\ database # "none"
    BY <2>2 DEF LoopStage
  <2>4. QED
    BY <1>2, <2>1, <2>2, <2>3 DEF CleanPCs
<1>3. CASE now \in Signals /\ pc[now] \in {"lower", "reset", "shutdown"}
  <2>1. InHandler(now) /\ now # "main"
    BY <1>3 DEF HandlerStage
  <2>2. app /\ server # "none" /\ database # "none"
    BY <1>3, <2>1 DEF HandlerStage, StartStage
  <2>3. pc["main"] = "loop" \/ (pc["main"] \in {"reset", "settle", "shutdown"} /\ Stopped)
    BY <1>3, <2>1 DEF HandlerStage
  <2>4. QED
    BY <2>1, <2>2, <2>3
<1>4. QED
  BY <1>1, <1>2, <1>3 DEF Interruptible

(* The handler on top has interrupted main() or the other one.             *)
LEMMA OnTop ==
    ASSUME TypeOK, Calmly, NEW s \in Signals, now = s
    PROVE  \E z \in Signals :
               /\ z # s /\ Signals = {s, z} /\ Frames = {"main", s, z} /\ s # "main" /\ z # "main"
               /\ InHandler(s)
               /\ pc[z] \in {"none", "done", "lower", "reset", "shutdown"}
               /\ InHandler(z) => below[s] = z /\ below[z] = "main"
               /\ ~InHandler(z) => below[s] = "main"
<1>1. PICK z \in Signals : z # s /\ Signals = {s, z} /\ Frames = {"main", s, z}
                          /\ s # "main" /\ z # "main"
  BY DEF Signals, Frames
<1>2. InHandler(s) /\ below[s] \in {"main", z}
  BY <1>1 DEF Calmly, HandlerStage, TypeOK
<1>3. InHandler(z) => below[s] = z /\ below[z] = "main" /\ pc[z] \in {"lower", "reset", "shutdown"}
  BY <1>1 DEF Calmly, HandlerStage
<1>4. QED
  BY <1>1, <1>2, <1>3 DEF Calmly, HandlerStage, TypeOK, InHandler

LEMMA CalmBefore == TypeOK /\ Next /\ calm' => calm
<1> SUFFICES ASSUME TypeOK, Next, calm' PROVE calm
  OBVIOUS
<1> USE DEF TypeOK, pastVars
<1>1. CASE LoadConfig
  BY <1>1 DEF LoadConfig, AppOnly
<1>2. CASE StorePointer
  BY <1>2 DEF StorePointer, AppOnly
<1>3. CASE OpenDatabase
  BY <1>3 DEF OpenDatabase, AppOnly, ReturnCode
<1>4. CASE MakeRepositories
  BY <1>4 DEF MakeRepositories, AppOnly
<1>5. CASE MakeRepositoriesThrows
  BY <1>5 DEF MakeRepositoriesThrows, Crash
<1>6. CASE MakeServer
  BY <1>6 DEF MakeServer, AppOnly
<1>7. CASE MakeServerThrows
  BY <1>7 DEF MakeServerThrows, Crash
<1>8. CASE InitializeServer
  BY <1>8 DEF InitializeServer, AppOnly
<1>9. CASE RaiseRunning
  BY <1>9 DEF RaiseRunning, AppOnly
<1>10. CASE OpenListener
  BY <1>10 DEF OpenListener, AppOnly, ReturnCode
<1>11. CASE RaiseServing
  BY <1>11 DEF RaiseServing, AppOnly
<1>12. CASE UseDestroyedServer
  BY <1>12 DEF UseDestroyedServer, Crash
<1>13. CASE LeaveLoop
  BY <1>13 DEF LeaveLoop, AppOnly, ReturnCode
<1>14. CASE Exit
  BY <1>14 DEF Exit
<1>15. CASE \E s \in Signals : LowerRunning(s)
  BY <1>15 DEF LowerRunning, AppOnly
<1>16. CASE \E s \in Signals : StopServer(s)
  BY <1>16 DEF StopServer, AppOnly
<1>17. CASE \E s \in Signals : CloseListener(s)
  BY <1>17 DEF CloseListener, AppOnly
<1>18. CASE \E s \in Signals : Drain(s)
  BY <1>18 DEF Drain, AppOnly
<1>19. CASE \E s \in Signals : StopDestroyed(s)
  BY <1>19 DEF StopDestroyed, Crash
<1>20. CASE \E s \in Signals : SignalKills(s)
  BY <1>20 DEF SignalKills, Arriving
<1>21. CASE \E s \in Signals : SignalIgnored(s)
  BY <1>21 DEF SignalIgnored, Arriving, Observe
<1>22. CASE \E s \in Signals : SignalStops(s)
  BY <1>22 DEF SignalStops, Arriving, Observe
<1>23. CASE \E s \in Signals : SignalDangles(s)
  BY <1>23 DEF SignalDangles, Arriving, Observe
<1>24. CASE \E f \in Frames : ResetServer(f)
  BY <1>24 DEF ResetServer, AppOnly
<1>25. CASE \E f \in Frames : Settle(f)
  BY <1>25 DEF Settle, AppOnly
<1>26. CASE \E f \in Frames : ShutDatabase(f)
  BY <1>26 DEF ShutDatabase
<1>27. CASE \E r \in Requests : Arrive(r)
  BY <1>27 DEF Arrive, Step, PoolOnly
<1>28. CASE \E r \in Requests : HandleRequest(r)
  BY <1>28 DEF HandleRequest, Step, PoolOnly, Verdict
<1>29. CASE \E r \in Requests : HandleDestroyed(r)
  BY <1>29 DEF HandleDestroyed, Crash
<1>30. CASE \E r \in Requests : Handle(r)
  BY <1>30 DEF Handle, Step, PoolOnly
<1>31. CASE \E r \in Requests : Continue(r)
  BY <1>31 DEF Continue, Step, PoolOnly
<1>32. CASE \E r \in Requests : Reply(r)
  BY <1>32 DEF Reply, Step, PoolOnly
<1>33. CASE \E r \in Requests : Return(r)
  BY <1>33 DEF Return, Step, PoolOnly
<1>34. QED
  BY <1>1, <1>2, <1>3, <1>4, <1>5, <1>6, <1>7, <1>8, <1>9, <1>10, <1>11,
     <1>12, <1>13, <1>14, <1>15, <1>16, <1>17, <1>18, <1>19, <1>20, <1>21, <1>22,
     <1>23, <1>24, <1>25, <1>26, <1>27, <1>28, <1>29, <1>30, <1>31, <1>32, <1>33 DEF Next

LEMMA StartStageStep ==
    ASSUME TypeOK, Calmly, Next, calm, calm'
    PROVE  StartStage'
<1> pc \in [Frames -> PCs] /\ now \in Frames /\ below \in [Signals -> Frames]
  BY DEF TypeOK
<1> USE GoTo, MainKeepsRequests, QuietMain
    DEF Calmly, StartStage, LoopStage, HandlerStage, EndStage, InHandler, Stopped, Frames, Signals,
        StopPCs, At, appVars, pastVars
<1>1. CASE LoadConfig
  BY <1>1 DEF LoadConfig, AppOnly
<1>2. CASE StorePointer
  BY <1>2 DEF StorePointer, AppOnly
<1>3. CASE OpenDatabase
  BY <1>3 DEF OpenDatabase, AppOnly, ReturnCode
<1>4. CASE MakeRepositories
  BY <1>4 DEF MakeRepositories, AppOnly
<1>5. CASE MakeRepositoriesThrows
  BY <1>5 DEF MakeRepositoriesThrows, Crash
<1>6. CASE MakeServer
  BY <1>6 DEF MakeServer, AppOnly
<1>7. CASE MakeServerThrows
  BY <1>7 DEF MakeServerThrows, Crash
<1>8. CASE InitializeServer
  BY <1>8 DEF InitializeServer, AppOnly
<1>9. CASE RaiseRunning
  BY <1>9 DEF RaiseRunning, AppOnly
<1>10. CASE OpenListener
  <2>1. CASE listening' = TRUE /\ Go("main", "serving")
    BY <1>10, <2>1 DEF OpenListener, AppOnly
  <2>2. CASE ReturnCode("failure") /\ UNCHANGED listening
    BY <1>10, <2>2 DEF OpenListener, AppOnly, ReturnCode
  <2>3. QED
    BY <1>10, <2>1, <2>2 DEF OpenListener
<1>11. CASE RaiseServing
  BY <1>11 DEF RaiseServing, AppOnly
<1>12. CASE UseDestroyedServer
  BY <1>12 DEF UseDestroyedServer, Crash
<1>13. CASE LeaveLoop
  BY <1>13 DEF LeaveLoop, AppOnly, ReturnCode
<1>14. CASE Exit
  BY <1>14 DEF Exit
<1>15. CASE \E s \in Signals : LowerRunning(s)
  BY <1>15 DEF LowerRunning, AppOnly
<1>16. CASE \E s \in Signals : StopServer(s)
  BY <1>16 DEF StopServer, AppOnly
<1>17. CASE \E s \in Signals : CloseListener(s)
  BY <1>17 DEF CloseListener, AppOnly
<1>18. CASE \E s \in Signals : Drain(s)
  BY <1>18 DEF Drain, AppOnly
<1>19. CASE \E s \in Signals : StopDestroyed(s)
  BY <1>19 DEF StopDestroyed, Crash
<1>20. CASE \E s \in Signals : SignalKills(s)
  BY <1>20 DEF SignalKills, Arriving
<1>21. CASE \E s \in Signals : SignalIgnored(s)
  BY <1>21, Landing DEF SignalIgnored, Arriving, Observe
<1>22. CASE \E s \in Signals : SignalStops(s)
  <2>1. PICK s \in Signals : SignalStops(s)
    BY <1>22
  <2>2. pc["main"] \in {"loop", "reset", "settle", "shutdown"} /\ pc'["main"] = pc["main"]
    <3>1. Interruptible /\ Go(s, "lower") /\ s # "main"
      BY <2>1 DEF SignalStops, Observe
    <3>2. QED
      BY <3>1, Landing
  <2>3. UNCHANGED <<app, running, server, database>> /\ (Quiet => Quiet')
    BY <2>1, QuietMain DEF SignalStops
  <2>4. pc["main"] # "loop" => Quiet
    BY <2>2
  <2>5. QED
    BY <2>1, <2>2, <2>3, <2>4, Landing DEF SignalStops, Observe
<1>23. CASE \E s \in Signals : SignalDangles(s)
  BY <1>23, Landing DEF SignalDangles, Arriving, Observe
<1>24. CASE \E f \in Frames : ResetServer(f)
  <2>1. CASE ResetServer("main")
    BY <2>1 DEF ResetServer, AppOnly, Quiet
  <2>2. ASSUME NEW s \in Signals, ResetServer(s)
        PROVE  StartStage'
    BY <2>2 DEF ResetServer, AppOnly, Quiet
  <2>3. QED
    BY <1>24, <2>1, <2>2
<1>25. CASE \E f \in Frames : Settle(f)
  BY <1>25 DEF Settle, AppOnly
<1>26. CASE \E f \in Frames : ShutDatabase(f)
  BY <1>26 DEF ShutDatabase
<1>27. CASE \E r \in Requests : Arrive(r)
  BY <1>27, PoolKeeps
<1>28. CASE \E r \in Requests : HandleRequest(r)
  BY <1>28, PoolKeeps
<1>29. CASE \E r \in Requests : HandleDestroyed(r)
  BY <1>29, Unused DEF HandleDestroyed, TypeOK, Quiet, InFlight
<1>30. CASE \E r \in Requests : Handle(r)
  BY <1>30, PoolKeeps
<1>31. CASE \E r \in Requests : Continue(r)
  BY <1>31, PoolKeeps
<1>32. CASE \E r \in Requests : Reply(r)
  BY <1>32, PoolKeeps
<1>33. CASE \E r \in Requests : Return(r)
  BY <1>33, PoolKeeps
<1>34. QED
  BY <1>1, <1>2, <1>3, <1>4, <1>5, <1>6, <1>7, <1>8, <1>9, <1>10, <1>11,
     <1>12, <1>13, <1>14, <1>15, <1>16, <1>17, <1>18, <1>19, <1>20, <1>21, <1>22,
     <1>23, <1>24, <1>25, <1>26, <1>27, <1>28, <1>29, <1>30, <1>31, <1>32, <1>33 DEF Next

LEMMA LoopStageStep ==
    ASSUME TypeOK, Calmly, Next, calm, calm'
    PROVE  LoopStage'
<1> pc \in [Frames -> PCs] /\ now \in Frames /\ below \in [Signals -> Frames]
  BY DEF TypeOK
<1> USE GoTo, MainKeepsRequests, QuietMain
    DEF Calmly, StartStage, LoopStage, HandlerStage, EndStage, InHandler, Stopped, Frames, Signals,
        StopPCs, At, appVars, pastVars
<1>1. CASE LoadConfig
  BY <1>1 DEF LoadConfig, AppOnly
<1>2. CASE StorePointer
  BY <1>2 DEF StorePointer, AppOnly
<1>3. CASE OpenDatabase
  BY <1>3 DEF OpenDatabase, AppOnly, ReturnCode
<1>4. CASE MakeRepositories
  BY <1>4 DEF MakeRepositories, AppOnly
<1>5. CASE MakeRepositoriesThrows
  BY <1>5 DEF MakeRepositoriesThrows, Crash
<1>6. CASE MakeServer
  BY <1>6 DEF MakeServer, AppOnly
<1>7. CASE MakeServerThrows
  BY <1>7 DEF MakeServerThrows, Crash
<1>8. CASE InitializeServer
  BY <1>8 DEF InitializeServer, AppOnly
<1>9. CASE RaiseRunning
  BY <1>9 DEF RaiseRunning, AppOnly
<1>10. CASE OpenListener
  BY <1>10 DEF OpenListener, AppOnly, ReturnCode
<1>11. CASE RaiseServing
  BY <1>11 DEF RaiseServing, AppOnly
<1>12. CASE UseDestroyedServer
  BY <1>12 DEF UseDestroyedServer, Crash
<1>13. CASE LeaveLoop
  BY <1>13 DEF LeaveLoop, AppOnly, ReturnCode
<1>14. CASE Exit
  BY <1>14 DEF Exit
<1>15. CASE \E s \in Signals : LowerRunning(s)
  BY <1>15 DEF LowerRunning, AppOnly
<1>16. CASE \E s \in Signals : StopServer(s)
  BY <1>16 DEF StopServer, AppOnly
<1>17. CASE \E s \in Signals : CloseListener(s)
  BY <1>17 DEF CloseListener, AppOnly
<1>18. CASE \E s \in Signals : Drain(s)
  BY <1>18 DEF Drain, AppOnly
<1>19. CASE \E s \in Signals : StopDestroyed(s)
  BY <1>19 DEF StopDestroyed, Crash
<1>20. CASE \E s \in Signals : SignalKills(s)
  BY <1>20 DEF SignalKills, Arriving
<1>21. CASE \E s \in Signals : SignalIgnored(s)
  BY <1>21, Landing DEF SignalIgnored, Arriving, Observe
<1>22. CASE \E s \in Signals : SignalStops(s)
  BY <1>22 DEF SignalStops, Arriving, Observe
<1>23. CASE \E s \in Signals : SignalDangles(s)
  BY <1>23, Landing DEF SignalDangles, Arriving, Observe
<1>24. CASE \E f \in Frames : ResetServer(f)
  <2>1. PICK f \in Frames : ResetServer(f)
    BY <1>24
  <2>2. Quiet
    BY <2>1 DEF ResetServer
  <2>3. Quiet' /\ pc'[f] \notin {"none", "lower", "done"} /\ pc[f] = "reset"
        /\ (\A g \in Frames : g # f => pc'[g] = pc[g])
    BY <2>1, <2>2 DEF ResetServer, AppOnly, Quiet, InFlight, poolVars
  <2>4. server # "none" => server' = "destroyed"
    BY <2>1 DEF ResetServer, TypeOK
  <2>5. QED
    BY <2>1, <2>3, <2>4 DEF ResetServer, AppOnly
<1>25. CASE \E f \in Frames : Settle(f)
  BY <1>25 DEF Settle, AppOnly
<1>26. CASE \E f \in Frames : ShutDatabase(f)
  <2>1. CASE ShutDatabase("main")
    BY <2>1 DEF ShutDatabase, poolVars, TypeOK
  <2>2. ASSUME NEW s \in Signals, ShutDatabase(s)
        PROVE  LoopStage'
    BY <2>2 DEF ShutDatabase, poolVars, TypeOK
  <2>3. QED
    BY <1>26, <2>1, <2>2
<1>27. CASE \E r \in Requests : Arrive(r)
  BY <1>27, PoolKeeps
<1>28. CASE \E r \in Requests : HandleRequest(r)
  BY <1>28, PoolKeeps
<1>29. CASE \E r \in Requests : HandleDestroyed(r)
  BY <1>29, Unused DEF HandleDestroyed, TypeOK, Quiet, InFlight
<1>30. CASE \E r \in Requests : Handle(r)
  BY <1>30, PoolKeeps
<1>31. CASE \E r \in Requests : Continue(r)
  BY <1>31, PoolKeeps
<1>32. CASE \E r \in Requests : Reply(r)
  BY <1>32, PoolKeeps
<1>33. CASE \E r \in Requests : Return(r)
  BY <1>33, PoolKeeps
<1>34. QED
  BY <1>1, <1>2, <1>3, <1>4, <1>5, <1>6, <1>7, <1>8, <1>9, <1>10, <1>11,
     <1>12, <1>13, <1>14, <1>15, <1>16, <1>17, <1>18, <1>19, <1>20, <1>21, <1>22,
     <1>23, <1>24, <1>25, <1>26, <1>27, <1>28, <1>29, <1>30, <1>31, <1>32, <1>33 DEF Next

LEMMA HandlerStageStep ==
    ASSUME TypeOK, Calmly, Next, calm, calm'
    PROVE  HandlerStage'
<1> pc \in [Frames -> PCs] /\ now \in Frames /\ below \in [Signals -> Frames]
  BY DEF TypeOK
<1> USE GoTo, MainKeepsRequests, QuietMain
    DEF Calmly, StartStage, LoopStage, HandlerStage, EndStage, InHandler, Stopped, Frames, Signals,
        StopPCs, At, appVars, pastVars
<1>1. CASE LoadConfig
  BY <1>1 DEF LoadConfig, AppOnly
<1>2. CASE StorePointer
  BY <1>2 DEF StorePointer, AppOnly
<1>3. CASE OpenDatabase
  BY <1>3 DEF OpenDatabase, AppOnly, ReturnCode
<1>4. CASE MakeRepositories
  BY <1>4 DEF MakeRepositories, AppOnly
<1>5. CASE MakeRepositoriesThrows
  BY <1>5 DEF MakeRepositoriesThrows, Crash
<1>6. CASE MakeServer
  BY <1>6 DEF MakeServer, AppOnly
<1>7. CASE MakeServerThrows
  BY <1>7 DEF MakeServerThrows, Crash
<1>8. CASE InitializeServer
  BY <1>8 DEF InitializeServer, AppOnly
<1>9. CASE RaiseRunning
  BY <1>9 DEF RaiseRunning, AppOnly
<1>10. CASE OpenListener
  BY <1>10 DEF OpenListener, AppOnly, ReturnCode
<1>11. CASE RaiseServing
  BY <1>11 DEF RaiseServing, AppOnly
<1>12. CASE UseDestroyedServer
  BY <1>12 DEF UseDestroyedServer, Crash
<1>13. CASE LeaveLoop
  BY <1>13 DEF LeaveLoop, AppOnly, ReturnCode
<1>14. CASE Exit
  BY <1>14 DEF Exit
<1>15. CASE \E s \in Signals : LowerRunning(s)
  <2>1. PICK s \in Signals : LowerRunning(s)
    BY <1>15
  <2>2. now = s /\ pc[s] = "lower"
    BY <2>1 DEF LowerRunning
  <2>3. PICK z \in Signals :
            /\ z # s /\ Signals = {s, z} /\ Frames = {"main", s, z} /\ s # "main" /\ z # "main"
            /\ InHandler(s)
            /\ pc[z] \in {"none", "done", "lower", "reset", "shutdown"}
            /\ InHandler(z) => below[s] = z /\ below[z] = "main"
            /\ ~InHandler(z) => below[s] = "main"
    BY <2>2, OnTop
  <2>4. /\ pc'["main"] = pc["main"] /\ pc'[z] = pc[z]
        /\ pc'[s] = IF server = "made" THEN "stopServer" ELSE "shutdown"
        /\ UNCHANGED <<now, below, server, serving, listening, database>> /\ Quiet' = Quiet
    BY <2>1, <2>3, QuietMain DEF LowerRunning, AppOnly
  <2>5. server = "made" => database = "ready" /\ (serving \/ Quiet)
    <3>1. CASE pc[z] = "none"
      BY <2>2, <2>3, <3>1
    <3>2. CASE pc[z] = "lower"
      BY <2>2, <2>3, <3>2
    <3>3. CASE pc[z] = "reset"
      BY <2>3, <3>3 DEF TypeOK
    <3>4. CASE pc[z] \in {"done", "shutdown"}
      BY <2>3, <3>4
    <3>5. QED
      BY <2>3, <3>1, <3>2, <3>3, <3>4
  <2>6. server # "made" => server = "destroyed" /\ Quiet
    BY <2>2, <2>3 DEF TypeOK
  <2>7. Stopped' = Stopped
    BY <2>2, <2>3, <2>4
  <2>8. HandlerStage!2!(s)'
    BY <2>2, <2>3, <2>4, <2>5, <2>6, <2>7
  <2>9. HandlerStage!2!(z)'
    BY <2>2, <2>3, <2>4, <2>7
  <2>10. QED
    BY <2>2, <2>3, <2>4, <2>8, <2>9
<1>16. CASE \E s \in Signals : StopServer(s)
  BY <1>16 DEF StopServer, AppOnly
<1>17. CASE \E s \in Signals : CloseListener(s)
  <2>1. PICK s \in Signals : CloseListener(s)
    BY <1>17
  <2>2. now = s /\ pc[s] = "close"
    BY <2>1 DEF CloseListener
  <2>3. PICK z \in Signals :
            /\ z # s /\ Signals = {s, z} /\ Frames = {"main", s, z} /\ s # "main" /\ z # "main"
            /\ InHandler(s)
            /\ pc[z] \in {"none", "done", "lower", "reset", "shutdown"}
            /\ InHandler(z) => below[s] = z /\ below[z] = "main"
            /\ ~InHandler(z) => below[s] = "main"
    BY <2>2, OnTop
  <2>4. /\ pc'["main"] = pc["main"] /\ pc'[z] = pc[z] /\ pc'[s] = "drain" /\ ~listening'
        /\ UNCHANGED <<now, below, server, serving, database>> /\ (Quiet => Quiet')
    BY <2>1, <2>3, MainKeepsRequests DEF CloseListener, AppOnly, Quiet
  <2>5. Stopped' = Stopped
    BY <2>2, <2>3, <2>4
  <2>6. HandlerStage!2!(s)'
    BY <2>2, <2>3, <2>4, <2>5
  <2>7. HandlerStage!2!(z)'
    BY <2>2, <2>3, <2>4, <2>5
  <2>8. QED
    BY <2>2, <2>3, <2>4, <2>6, <2>7
<1>18. CASE \E s \in Signals : Drain(s)
  BY <1>18 DEF Drain, AppOnly, Quiet
<1>19. CASE \E s \in Signals : StopDestroyed(s)
  BY <1>19 DEF StopDestroyed, Crash
<1>20. CASE \E s \in Signals : SignalKills(s)
  BY <1>20 DEF SignalKills, Arriving
<1>21. CASE \E s \in Signals : SignalIgnored(s)
  BY <1>21, Landing DEF SignalIgnored, Arriving, Observe
<1>22. CASE \E s \in Signals : SignalStops(s)
  <2>1. PICK s \in Signals : SignalStops(s)
    BY <1>22
  <2> DEFINE z == CHOOSE x \in Signals : x # s
  <2>2. z \in Signals /\ z # s /\ Signals = {s, z} /\ Frames = {"main", s, z}
        /\ s # "main" /\ z # "main"
    OBVIOUS
  <2> HIDE DEF z
  <2>3. /\ pc[s] = "none" /\ Interruptible /\ server # "none" /\ database # "none"
        /\ \/ pc["main"] = "loop"
           \/ pc["main"] \in {"reset", "settle", "shutdown"} /\ Stopped
        /\ now = "main" => pc[z] \in {"none", "done"}
    BY <2>1, <2>2, Landing DEF SignalStops, Arriving, Observe
  <2>4. /\ pc'["main"] = pc["main"] /\ pc'[s] = "lower" /\ pc'[z] = pc[z]
        /\ now' = s /\ below'[s] = now /\ below'[z] = below[z]
        /\ UNCHANGED <<app, running, server, serving, listening, database>> /\ Quiet' = Quiet
    BY <2>1, <2>2, <2>3, QuietMain DEF SignalStops
  <2>5. /\ now # s
        /\ now = z => pc[z] \in {"lower", "reset", "shutdown"}
        /\ InHandler(z) => now = z /\ below[z] = "main"
    <3>1. now # s
      BY <2>2, <2>3
    <3>2. now = z => pc[z] \in {"lower", "reset", "shutdown"}
      BY <2>2, <2>3 DEF Interruptible
    <3>3. below[z] # z \/ ~InHandler(z)
      BY <2>2
    <3>4. InHandler(z) => now = z
      BY <2>2, <2>3, <3>1
    <3>5. InHandler(z) => below[z] = "main"
      BY <2>2, <2>3, <3>3, <3>4
    <3>6. QED
      BY <3>1, <3>2, <3>4, <3>5
  <2>6. Stopped' = Stopped
    BY <2>2, <2>3, <2>4
  <2>7. HandlerStage!2!(s)'
    BY <2>2, <2>3, <2>4, <2>5, <2>6
  <2>8. HandlerStage!2!(z)'
    BY <2>2, <2>3, <2>4, <2>5, <2>6
  <2>9. QED
    BY <2>2, <2>4, <2>7, <2>8
<1>23. CASE \E s \in Signals : SignalDangles(s)
  BY <1>23, Landing DEF SignalDangles, Arriving, Observe
<1>24. CASE \E f \in Frames : ResetServer(f)
  <2>1. CASE ResetServer("main")
    BY <2>1 DEF ResetServer, AppOnly, Quiet
  <2>2. CASE \E s \in Signals : ResetServer(s)
    <3>1. PICK s \in Signals : ResetServer(s)
      BY <2>2
    <3>2. now = s /\ pc[s] = "reset"
      BY <3>1 DEF ResetServer
    <3>3. PICK z \in Signals :
              /\ z # s /\ Signals = {s, z} /\ Frames = {"main", s, z} /\ s # "main" /\ z # "main"
              /\ InHandler(s)
              /\ pc[z] \in {"none", "done", "lower", "reset", "shutdown"}
              /\ InHandler(z) => below[s] = z /\ below[z] = "main"
              /\ ~InHandler(z) => below[s] = "main"
      BY <3>2, OnTop
    <3>4. /\ pc'["main"] = pc["main"] /\ pc'[z] = pc[z] /\ pc'[s] = "shutdown"
          /\ server' = "destroyed" /\ UNCHANGED <<now, below, serving, database>> /\ Quiet'
      BY <3>1, <3>2, <3>3, MainKeepsRequests DEF ResetServer, AppOnly, Quiet, TypeOK
    <3>5. Stopped' = Stopped
      BY <3>2, <3>3, <3>4
    <3>6. HandlerStage!2!(s)'
      BY <3>2, <3>3, <3>4, <3>5
    <3>7. HandlerStage!2!(z)'
      BY <3>2, <3>3, <3>4, <3>5
    <3>8. QED
      BY <3>2, <3>3, <3>4, <3>6, <3>7
  <2>3. QED
    BY <1>24, <2>1, <2>2
<1>25. CASE \E f \in Frames : Settle(f)
  BY <1>25 DEF Settle, AppOnly
<1>26. CASE \E f \in Frames : ShutDatabase(f)
  BY <1>26 DEF ShutDatabase
<1>27. CASE \E r \in Requests : Arrive(r)
  BY <1>27, PoolKeeps
<1>28. CASE \E r \in Requests : HandleRequest(r)
  BY <1>28, PoolKeeps
<1>29. CASE \E r \in Requests : HandleDestroyed(r)
  BY <1>29, Unused DEF HandleDestroyed, TypeOK, Quiet, InFlight
<1>30. CASE \E r \in Requests : Handle(r)
  BY <1>30, PoolKeeps
<1>31. CASE \E r \in Requests : Continue(r)
  BY <1>31, PoolKeeps
<1>32. CASE \E r \in Requests : Reply(r)
  BY <1>32, PoolKeeps
<1>33. CASE \E r \in Requests : Return(r)
  BY <1>33, PoolKeeps
<1>34. QED
  BY <1>1, <1>2, <1>3, <1>4, <1>5, <1>6, <1>7, <1>8, <1>9, <1>10, <1>11,
     <1>12, <1>13, <1>14, <1>15, <1>16, <1>17, <1>18, <1>19, <1>20, <1>21, <1>22,
     <1>23, <1>24, <1>25, <1>26, <1>27, <1>28, <1>29, <1>30, <1>31, <1>32, <1>33 DEF Next

LEMMA EndStageStep ==
    ASSUME TypeOK, Calmly, Next, calm, calm'
    PROVE  EndStage'
<1> pc \in [Frames -> PCs] /\ now \in Frames /\ below \in [Signals -> Frames]
  BY DEF TypeOK
<1> USE GoTo, Stopping, MainKeepsRequests, QuietMain
    DEF Calmly, StartStage, LoopStage, HandlerStage, EndStage, InHandler, Frames, Signals,
        StopPCs, At, appVars, pastVars
<1>1. CASE LoadConfig
  <2>1. ~Stopped
    BY <1>1 DEF LoadConfig, Stopped
  <2>2. Stopped' = Stopped
    BY <1>1 DEF LoadConfig, AppOnly
  <2>3. QED
    BY <1>1, <2>1, <2>2 DEF LoadConfig, AppOnly
<1>2. CASE StorePointer
  BY <1>2 DEF StorePointer, AppOnly
<1>3. CASE OpenDatabase
  <2>1. ~Stopped
    BY <1>3 DEF OpenDatabase, Stopped
  <2>2. Stopped' = Stopped
    BY <1>3 DEF OpenDatabase, AppOnly, ReturnCode
  <2>3. QED
    BY <1>3, <2>1, <2>2 DEF OpenDatabase, AppOnly, ReturnCode
<1>4. CASE MakeRepositories
  BY <1>4 DEF MakeRepositories, AppOnly
<1>5. CASE MakeRepositoriesThrows
  BY <1>5 DEF MakeRepositoriesThrows, Crash
<1>6. CASE MakeServer
  BY <1>6 DEF MakeServer, AppOnly
<1>7. CASE MakeServerThrows
  BY <1>7 DEF MakeServerThrows, Crash
<1>8. CASE InitializeServer
  BY <1>8 DEF InitializeServer, AppOnly
<1>9. CASE RaiseRunning
  BY <1>9 DEF RaiseRunning, AppOnly
<1>10. CASE OpenListener
  <2>1. ~Stopped
    BY <1>10 DEF OpenListener, Stopped
  <2>2. Stopped' = Stopped
    BY <1>10 DEF OpenListener, AppOnly, ReturnCode
  <2>3. QED
    BY <1>10, <2>1, <2>2 DEF OpenListener, AppOnly, ReturnCode
<1>11. CASE RaiseServing
  BY <1>11 DEF RaiseServing, AppOnly
<1>12. CASE UseDestroyedServer
  BY <1>12 DEF UseDestroyedServer, Crash
<1>13. CASE LeaveLoop
  <2>1. Stopped
    BY <1>13 DEF LeaveLoop, Stopped
  <2>2. Stopped' = Stopped
    BY <1>13 DEF LeaveLoop, AppOnly, ReturnCode
  <2>3. QED
    BY <1>13, <2>1, <2>2 DEF LeaveLoop, AppOnly, ReturnCode
<1>14. CASE Exit
  <2>1. Stopped' = Stopped
    BY <1>14 DEF Exit, Stopped
  <2>2. QED
    BY <1>14, <2>1 DEF Exit
<1>15. CASE \E s \in Signals : LowerRunning(s)
  BY <1>15 DEF LowerRunning, AppOnly
<1>16. CASE \E s \in Signals : StopServer(s)
  BY <1>16 DEF StopServer, AppOnly
<1>17. CASE \E s \in Signals : CloseListener(s)
  BY <1>17 DEF CloseListener, AppOnly
<1>18. CASE \E s \in Signals : Drain(s)
  BY <1>18 DEF Drain, AppOnly
<1>19. CASE \E s \in Signals : StopDestroyed(s)
  BY <1>19 DEF StopDestroyed, Crash
<1>20. CASE \E s \in Signals : SignalKills(s)
  BY <1>20 DEF SignalKills, Arriving
<1>21. CASE \E s \in Signals : SignalIgnored(s)
  BY <1>21, Landing DEF SignalIgnored, Arriving, Observe
<1>22. CASE \E s \in Signals : SignalStops(s)
  BY <1>22 DEF SignalStops, Arriving, Observe
<1>23. CASE \E s \in Signals : SignalDangles(s)
  BY <1>23, Landing DEF SignalDangles, Arriving, Observe
<1>24. CASE \E f \in Frames : ResetServer(f)
  BY <1>24 DEF ResetServer, AppOnly
<1>25. CASE \E f \in Frames : Settle(f)
  <2>1. CASE Settle("main")
    BY <2>1 DEF Settle, AppOnly
  <2>2. ASSUME NEW s \in Signals, Settle(s)
        PROVE  EndStage'
    BY <2>2 DEF Settle, AppOnly
  <2>3. QED
    BY <1>25, <2>1, <2>2
<1>26. CASE \E f \in Frames : ShutDatabase(f)
  BY <1>26 DEF ShutDatabase
<1>27. CASE \E r \in Requests : Arrive(r)
  BY <1>27, PoolKeeps
<1>28. CASE \E r \in Requests : HandleRequest(r)
  BY <1>28, PoolKeeps
<1>29. CASE \E r \in Requests : HandleDestroyed(r)
  BY <1>29, Unused DEF HandleDestroyed, TypeOK, Quiet, InFlight
<1>30. CASE \E r \in Requests : Handle(r)
  BY <1>30, PoolKeeps
<1>31. CASE \E r \in Requests : Continue(r)
  BY <1>31, PoolKeeps
<1>32. CASE \E r \in Requests : Reply(r)
  BY <1>32, PoolKeeps
<1>33. CASE \E r \in Requests : Return(r)
  BY <1>33, PoolKeeps
<1>34. QED
  BY <1>1, <1>2, <1>3, <1>4, <1>5, <1>6, <1>7, <1>8, <1>9, <1>10, <1>11,
     <1>12, <1>13, <1>14, <1>15, <1>16, <1>17, <1>18, <1>19, <1>20, <1>21, <1>22,
     <1>23, <1>24, <1>25, <1>26, <1>27, <1>28, <1>29, <1>30, <1>31, <1>32, <1>33 DEF Next

--------------------------------------------------------------------------------
(* The invariant and the theorems.                                         *)
IInv == TypeOK /\ (calm => Calmly)

(* The inductive invariant holds of every behaviour of the process.        *)
THEOREM Invariance == Spec => []IInv
<1>1. Init => IInv
  BY TypeInit, CalmInit DEF IInv
<1>2. IInv /\ [Next]_vars => IInv'
  <2> SUFFICES ASSUME IInv, [Next]_vars PROVE IInv'
    OBVIOUS
  <2>1. CASE Next
    <3>1. TypeOK'
      BY <2>1, TypeStep DEF IInv
    <3>2. ASSUME calm' PROVE Calmly'
      <4>1. calm
        BY <2>1, <3>2, CalmBefore DEF IInv
      <4>2. QED
        BY <2>1, <3>2, <4>1, StartStageStep, LoopStageStep, HandlerStageStep, EndStageStep
        DEF IInv, Calmly
    <3>3. QED
      BY <3>1, <3>2 DEF IInv
  <2>2. CASE UNCHANGED vars
    BY <2>2 DEF IInv, vars, appVars, poolVars, pastVars, TypeOK, Calmly,
            StartStage, LoopStage, HandlerStage, EndStage, Quiet, Stopped, InHandler, InFlight
  <2>3. QED
    BY <2>1, <2>2
<1>3. QED
  BY <1>1, <1>2, PTL DEF Spec

(* Every variable of the process keeps to its values.                      *)
THEOREM TypeCorrect == Spec => []TypeOK
<1>1. IInv => TypeOK
  BY DEF IInv
<1>2. QED
  BY <1>1, Invariance, PTL

(* main.cpp:18: when signals come after main() entered its loop and not    *)
(* while a handler is inside RestServer::stop(), on top of each other or   *)
(* not, the process never touches a server or a database that is gone, and *)
(* neither goes while any of the requests, however many, is in flight.     *)
THEOREM StopsSafely == Spec => []NothingInUse
<1>1. IInv => NothingInUse
  BY Unused DEF IInv, NothingInUse, Calmly, EndStage, Quiet
<1>2. QED
  BY <1>1, Invariance, PTL

(* application.cpp:135: under the same condition the process that ends by  *)
(* itself leaves neither a server, a database nor a listener behind, and   *)
(* reports success exactly when a handler has stopped it.                  *)
THEOREM LeavesNothing == Spec => []CleanExit
<1>1. IInv => CleanExit
  BY DEF IInv, CleanExit, Calmly, StartStage, EndStage, Stopped, Quiet
<1>2. QED
  BY <1>1, Invariance, PTL

================================================================================
