------------------------ MODULE WorkflowServicesProofs ------------------------
(***************************************************************************)
(* WorkflowServices keeps the workflow graphs whole, for any number of     *)
(* request threads and any requests, with or without database failures.    *)
(*                                                                         *)
(* EdgeWithinWorkflow is not inductive: the INSERT of an edge relies on    *)
(* what validateEdge() read some statements earlier.  The invariant says   *)
(* what is still true of it then (ChecksHold): the two identifiers were    *)
(* given out, and if their states are still there they are still in the    *)
(* workflow that was read, for no row changes its workflow and no          *)
(* identifier comes back (IdsGiven).                                       *)
(***************************************************************************)
EXTENDS WorkflowServices, TLAPS

TableTypes ==
    /\ IsTable(workflow, Captions)
    /\ IsTable(state, StateRow)
    /\ IsTable(edge, EdgeRow)
    /\ used \subseteq DOMAIN state
    /\ seq \in [Tables -> 0 .. MaxId]
    /\ last \in 0 .. MaxId

ThreadTypes ==
    /\ pc \in [Threads -> Calls \cup {"idle", "answer"}]
    /\ req \in [Threads -> Requests \cup {NoRequest}]
    /\ loc \in [Threads -> Locals]
    /\ reply \in [Threads -> [code : Codes, id : 0 .. MaxId]]

(* The requests that make a repository call.                                *)
CallOf(call, o) ==
    /\ call = "findWorkflow"     => o \in {"createState", "deleteWorkflow", "updateWorkflow"}
    /\ call = "existsByCaption"  => o \in {"createWorkflow", "updateWorkflow"}
    /\ call = "findByWorkflowId" => o = "deleteWorkflow"
    /\ call = "isUsedByItems"    => o \in {"deleteWorkflow", "updateState", "deleteState"}
    /\ call = "findState"        => o \in {"updateState", "deleteState"}
    /\ call = "findByStateId"    => o = "deleteState"
    /\ call \in {"findBegin", "findEnd", "exists"} => o = "createEdge"
    /\ call = "findEdge"         => o = "deleteEdge"
    /\ call \in {"insert", "lastInsertId"} => o \in CreateOps
    /\ call = "update"           => o \in UpdateOps
    /\ call = "remove"           => o \in DeleteOps
    /\ call = "reload"           => o \in CreateOps \cup UpdateOps

Pending ==
    \A t \in Threads :
        /\ CallOf(pc[t], req[t].op)
        /\ pc[t] # "idle" => req[t] \in Requests
        /\ pc[t] \in Calls /\ req[t].op \in {"createWorkflow", "createState"} => ~Malformed(req[t])

(* Rows have identifiers that were given out.                               *)
IdsGiven ==
    /\ \A i \in DOMAIN workflow : i <= seq["workflow"]
    /\ \A i \in DOMAIN state : i <= seq["state"]
    /\ \A i \in DOMAIN edge : i <= seq["edge"]

(* What validateEdge() has read of the state i is still so.                 *)
StillIn(i, w) == i <= seq["state"] /\ (i \in DOMAIN state => state[i].workflow = w)

BeginChecked(t) == pc[t] \in {"findEnd", "exists"} \/ (pc[t] = "insert" /\ req[t].op = "createEdge")
EndChecked(t)   == pc[t] = "exists" \/ (pc[t] = "insert" /\ req[t].op = "createEdge")

Checked(t) ==
    /\ BeginChecked(t) => StillIn(req[t].id, loc[t].workflow)
    /\ EndChecked(t) => StillIn(req[t].end, loc[t].workflow)

ChecksHold == \A t \in Threads : Checked(t)

(* The deleted rows of the answers under way.                               *)
Gone(i, table, rows) == i \notin DOMAIN rows /\ i <= seq[table]

Deleted(t) ==
    reply[t].code = 204 =>
        /\ pc[t] = "answer"
        /\ req[t].op = "deleteWorkflow" => Gone(req[t].id, "workflow", workflow)
        /\ req[t].op = "deleteState"    => Gone(req[t].id, "state", state)
        /\ req[t].op = "deleteEdge"     => Gone(req[t].id, "edge", edge)

DeletesHold == \A t \in Threads : Deleted(t)

Graph == ReferencesExist /\ EdgeWithinWorkflow /\ UniqueEdges

IInv == TableTypes /\ ThreadTypes /\ Pending /\ IdsGiven /\ Graph /\ ChecksHold /\ DeletesHold

-----------------------------------------------------------------------------
(* Threads                                                                  *)

LEMMA RequestFields ==
    ASSUME NEW r \in Requests
    PROVE  /\ r.op \in Ops /\ r.id \in Ids /\ r.end \in Ids
           /\ r.caption \in Captions \cup {Absent} /\ r.weight \in Weights \cup {Absent}
           /\ r.isArchive \in BOOLEAN \cup {Absent}
  BY RequestsAssumption DEF Request

(* Apart from Receive and Respond a step of t ends its request or takes it  *)
(* to another repository call.                                              *)
Moves(t) ==
    /\ pc[t] \in Calls
    /\ \/ \E code \in Codes, id \in 0 .. MaxId : Answer(t, code, id)
       \/ \E call \in Calls : CallOf(call, req[t].op) /\ Goto(t, call) /\ loc' \in [Threads -> Locals]

LEMMA NoLocalsType == NoLocals \in Locals
  BY MaxIdAssumption DEF NoLocals, Locals, Ids

LEMMA AnswerTypes ==
    ASSUME NEW t \in Threads, NEW code \in Codes, NEW id \in 0 .. MaxId,
           ThreadTypes, Answer(t, code, id)
    PROVE  ThreadTypes'
  BY NoLocalsType DEF ThreadTypes, Answer

LEMMA AnswerPending ==
    ASSUME NEW t \in Threads, NEW code \in Codes, NEW id \in 0 .. MaxId,
           ThreadTypes, Pending, pc[t] \in Calls, Answer(t, code, id)
    PROVE  Pending'
  <1> SUFFICES ASSUME NEW u \in Threads
               PROVE  /\ CallOf(pc'[u], req'[u].op)
                      /\ pc'[u] # "idle" => req'[u] \in Requests
                      /\ pc'[u] \in Calls /\ req'[u].op \in {"createWorkflow", "createState"}
                            => ~Malformed(req'[u])
    BY DEF Pending
  <1>1. req' = req /\ pc \in [Threads -> Calls \cup {"idle", "answer"}]
    BY DEF Answer, ThreadTypes
  <1>2. CASE u = t
    <2>1. pc'[u] = "answer"  BY <1>1, <1>2 DEF Answer
    <2>2. req[u] \in Requests  BY <1>2 DEF Pending, Calls
    <2>  QED  BY <1>1, <2>1, <2>2 DEF CallOf, Calls
  <1>3. CASE u # t
    <2>1. pc'[u] = pc[u]  BY <1>1, <1>3 DEF Answer
    <2>  QED  BY <1>1, <2>1 DEF Pending
  <1>  QED  BY <1>2, <1>3

LEMMA GotoTypes ==
    ASSUME NEW t \in Threads, NEW call \in Calls, ThreadTypes, Goto(t, call), loc' \in [Threads -> Locals]
    PROVE  ThreadTypes'
  BY DEF ThreadTypes, Goto

LEMMA GotoPending ==
    ASSUME NEW t \in Threads, NEW call \in Calls, ThreadTypes, Pending, pc[t] \in Calls,
           CallOf(call, req[t].op), Goto(t, call)
    PROVE  Pending'
  <1> SUFFICES ASSUME NEW u \in Threads
               PROVE  /\ CallOf(pc'[u], req'[u].op)
                      /\ pc'[u] # "idle" => req'[u] \in Requests
                      /\ pc'[u] \in Calls /\ req'[u].op \in {"createWorkflow", "createState"}
                            => ~Malformed(req'[u])
    BY DEF Pending
  <1>1. req' = req /\ pc \in [Threads -> Calls \cup {"idle", "answer"}]
    BY DEF Goto, ThreadTypes
  <1>2. CASE u = t
    <2>1. pc'[u] = call  BY <1>1, <1>2 DEF Goto
    <2>2. req[u] \in Requests  BY <1>2 DEF Pending, Calls
    <2>3. pc[u] \in Calls  BY <1>2
    <2>  QED  BY <1>1, <1>2, <2>1, <2>2, <2>3 DEF Pending
  <1>3. CASE u # t
    <2>1. pc'[u] = pc[u]  BY <1>1, <1>3 DEF Goto
    <2>  QED  BY <1>1, <2>1 DEF Pending
  <1>  QED  BY <1>2, <1>3

LEMMA MovesTypes ==
    ASSUME NEW t \in Threads, ThreadTypes, Pending, Moves(t)
    PROVE  ThreadTypes' /\ Pending'
  BY AnswerTypes, AnswerPending, GotoTypes, GotoPending DEF Moves

LEMMA ReceiveTypes ==
    ASSUME NEW t \in Threads, NEW r \in Requests, ThreadTypes, Pending, Receive(t, r)
    PROVE  ThreadTypes' /\ Pending'
  <1>0. r.op \in Ops  BY RequestFields
  <1>1. FirstCall[r.op] \in Calls /\ CallOf(FirstCall[r.op], r.op)
    BY <1>0 DEF FirstCall, Ops, CreateOps, UpdateOps, DeleteOps, Calls, CallOf
  <1>2. ThreadTypes'
    <2>1. loc' = loc /\ req' \in [Threads -> Requests \cup {NoRequest}]
      BY DEF ThreadTypes, Receive
    <2>2. CASE r.op \in {"createWorkflow", "createState"} /\ Malformed(r)
      <3>1. pc' = [pc EXCEPT ![t] = "answer"] /\ reply' = [reply EXCEPT ![t] = [code |-> 400, id |-> 0]]
        BY <2>2 DEF Receive
      <3>2. [code |-> 400, id |-> 0] \in [code : Codes, id : 0 .. MaxId]
        BY MaxIdAssumption DEF Codes
      <3>  QED  BY <2>1, <3>1, <3>2 DEF ThreadTypes
    <2>3. CASE ~(r.op \in {"createWorkflow", "createState"} /\ Malformed(r))
      BY <1>1, <2>1, <2>3 DEF ThreadTypes, Receive
    <2>  QED  BY <2>2, <2>3
  <1>3. ASSUME NEW u \in Threads
        PROVE  /\ CallOf(pc'[u], req'[u].op)
               /\ pc'[u] # "idle" => req'[u] \in Requests
               /\ pc'[u] \in Calls /\ req'[u].op \in {"createWorkflow", "createState"} => ~Malformed(req'[u])
    <2>1. CASE u # t
      <3>1. pc'[u] = pc[u] /\ req'[u] = req[u]  BY <2>1 DEF Receive, ThreadTypes
      <3>  QED  BY <3>1 DEF Pending
    <2>2. CASE u = t
      <3>1. req'[u] = r  BY <2>2 DEF Receive, ThreadTypes
      <3>2. CASE r.op \in {"createWorkflow", "createState"} /\ Malformed(r)
        <4>1. pc'[u] = "answer"  BY <2>2, <3>2 DEF Receive, ThreadTypes
        <4>  QED  BY <3>1, <4>1 DEF CallOf, Calls
      <3>3. CASE ~(r.op \in {"createWorkflow", "createState"} /\ Malformed(r))
        <4>1. pc'[u] = FirstCall[r.op]  BY <2>2, <3>3 DEF Receive, ThreadTypes
        <4>  QED  BY <1>1, <3>1, <3>3, <4>1
      <3>  QED  BY <3>2, <3>3
    <2>  QED  BY <2>1, <2>2
  <1>  QED  BY <1>2, <1>3 DEF Pending

LEMMA RespondTypes ==
    ASSUME NEW t \in Threads, ThreadTypes, Pending, Respond(t)
    PROVE  ThreadTypes' /\ Pending'
  <1>1. ThreadTypes'
    BY MaxIdAssumption DEF ThreadTypes, Respond, NoReply, Codes
  <1>2. ASSUME NEW u \in Threads
        PROVE  /\ CallOf(pc'[u], req'[u].op)
               /\ pc'[u] # "idle" => req'[u] \in Requests
               /\ pc'[u] \in Calls /\ req'[u].op \in {"createWorkflow", "createState"} => ~Malformed(req'[u])
    <2>1. CASE u # t
      <3>1. pc'[u] = pc[u] /\ req'[u] = req[u]  BY <2>1 DEF Respond, ThreadTypes
      <3>  QED  BY <3>1 DEF Pending
    <2>2. CASE u = t
      <3>1. pc'[u] = "idle"  BY <2>2 DEF Respond, ThreadTypes
      <3>  QED  BY <3>1 DEF CallOf, Calls
    <2>  QED  BY <2>1, <2>2
  <1>  QED  BY <1>1, <1>2 DEF Pending

LEMMA RefuseMoves ==
    ASSUME NEW t \in Threads, pc[t] \in Calls, Refuse(t) \/ Throw(t) \/ Conflict(t)
    PROVE  Moves(t)
  <1>1. Refusal(req[t].op) \in Codes /\ Thrown(req[t].op) \in Codes /\ 409 \in Codes /\ 0 \in 0 .. MaxId
    BY MaxIdAssumption DEF Refusal, Thrown, Codes
  <1>  QED  BY <1>1 DEF Refuse, Throw, Conflict, Moves

LEMMA ContinueMoves ==
    ASSUME NEW t \in Threads, NEW call \in Calls, ThreadTypes, pc[t] \in Calls,
           CallOf(call, req[t].op), Continue(t, call)
    PROVE  Moves(t)
  BY DEF Continue, Moves, ThreadTypes

LEMMA WorkflowMoves ==
    ASSUME NEW t \in Threads, TableTypes, ThreadTypes, Pending, WorkflowStep(t)
    PROVE  Moves(t)
  <1> USE RefuseMoves, ContinueMoves
  <1>0. CallOf(pc[t], req[t].op)
    BY DEF Pending
  <1>1. CASE FindWorkflow(t)
    <2>1. pc[t] \in Calls /\ req[t].op \in {"createState", "deleteWorkflow", "updateWorkflow"}
      BY <1>0, <1>1 DEF FindWorkflow, Calls, CallOf
    <2>2. AfterFindWorkflow(t) \in Calls /\ CallOf(AfterFindWorkflow(t), req[t].op)
      BY <2>1 DEF AfterFindWorkflow, Calls, CallOf, CreateOps, UpdateOps
    <2>  QED  BY <1>1, <2>1, <2>2 DEF FindWorkflow
  <1>2. CASE ExistsByCaption(t)
    <2>1. pc[t] \in Calls /\ req[t].op \in {"createWorkflow", "updateWorkflow"}
      BY <1>0, <1>2 DEF ExistsByCaption, Calls, CallOf
    <2>2. LET next == IF req[t].op = "createWorkflow" THEN "insert" ELSE "update"
          IN  next \in Calls /\ CallOf(next, req[t].op)
      BY <2>1 DEF Calls, CallOf, CreateOps, UpdateOps
    <2>  QED  BY <1>2, <2>1, <2>2 DEF ExistsByCaption
  <1>3. CASE InsertWorkflow(t)
    <2>1. pc[t] \in Calls /\ "lastInsertId" \in Calls /\ CallOf("lastInsertId", req[t].op)
      BY <1>3 DEF InsertWorkflow, Calls, CallOf, CreateOps
    <2>  QED  BY <1>3, <2>1 DEF InsertWorkflow, Inserted
  <1>4. CASE UpdateWorkflow(t)
    <2>1. pc[t] \in Calls /\ "reload" \in Calls /\ CallOf("reload", req[t].op) /\ req[t] \in Requests
      BY <1>4 DEF UpdateWorkflow, Calls, CallOf, UpdateOps, Pending
    <2>2. ASSUME Updated(t) PROVE Moves(t)
      <3>1. req[t].id \in 0 .. MaxId  BY <2>1, RequestFields, MaxIdAssumption DEF Ids
      <3>2. loc' \in [Threads -> Locals]  BY <2>2, <3>1 DEF Updated, ThreadTypes, Locals
      <3>  QED  BY <2>1, <2>2, <3>2 DEF Updated, Moves
    <2>  QED  BY <1>4, <2>1, <2>2 DEF UpdateWorkflow
  <1>5. CASE FindByWorkflowId(t)
    <2>1. pc[t] \in Calls /\ req[t].op = "deleteWorkflow"
      BY <1>0, <1>5 DEF FindByWorkflowId, Calls, CallOf
    <2>2. \A call \in {"remove", "isUsedByItems"} : call \in Calls /\ CallOf(call, req[t].op)
      BY <2>1 DEF Calls, CallOf, DeleteOps
    <2>3. StatesOf(req[t].id) \in SUBSET Ids
      BY DEF StatesOf, TableTypes, IsTable
    <2>4. ASSUME loc' = [loc EXCEPT ![t].states = StatesOf(req[t].id)]
          PROVE  loc' \in [Threads -> Locals]
      BY <2>3, <2>4 DEF ThreadTypes, Locals
    <2>5. CASE Throw(t)
      BY <2>1, <2>5
    <2>6. CASE ~Throw(t)
      BY <1>5, <2>1, <2>2, <2>4, <2>6 DEF FindByWorkflowId, Moves
    <2>  QED  BY <2>5, <2>6
  <1>6. CASE IsAnyUsed(t)
    <2>1. pc[t] \in Calls /\ req[t].op = "deleteWorkflow"
      BY <1>6 DEF IsAnyUsed, Calls
    <2>2. \A call \in {"remove", "isUsedByItems"} : call \in Calls /\ CallOf(call, req[t].op)
      BY <2>1 DEF Calls, CallOf, DeleteOps
    <2>3. ASSUME NEW s, loc' = [loc EXCEPT ![t].states = @ \ {s}]
          PROVE  loc' \in [Threads -> Locals]
      BY <2>3 DEF ThreadTypes, Locals
    <2>4. CASE Conflict(t)
      BY <2>1, <2>4
    <2>5. CASE ~Conflict(t)
      BY <1>6, <2>1, <2>2, <2>3, <2>5 DEF IsAnyUsed, Moves
    <2>  QED  BY <2>4, <2>5
  <1>7. CASE RemoveWorkflow(t)
    BY <1>7, MaxIdAssumption DEF RemoveWorkflow, Moves, Calls, Codes
  <1>  QED  BY <1>1, <1>2, <1>3, <1>4, <1>5, <1>6, <1>7 DEF WorkflowStep

LEMMA StateMoves ==
    ASSUME NEW t \in Threads, TableTypes, ThreadTypes, Pending, StateStep(t)
    PROVE  Moves(t)
  <1> USE RefuseMoves, ContinueMoves
  <1>0. CallOf(pc[t], req[t].op)
    BY DEF Pending
  <1>1. CASE FindState(t)
    <2>1. pc[t] \in Calls /\ req[t].op \in {"updateState", "deleteState"}
      BY <1>0, <1>1 DEF FindState, Calls, CallOf
    <2>2. AfterFindState(t) \in Calls /\ CallOf(AfterFindState(t), req[t].op)
      BY <2>1 DEF AfterFindState, Calls, CallOf, UpdateOps
    <2>  QED  BY <1>1, <2>1, <2>2 DEF FindState
  <1>2. CASE IsUsed(t)
    <2>1. pc[t] \in Calls /\ req[t].op \in {"updateState", "deleteState"}
      BY <1>2 DEF IsUsed, Calls
    <2>2. LET next == IF req[t].op = "deleteState" THEN "findByStateId" ELSE "update"
          IN  next \in Calls /\ CallOf(next, req[t].op)
      BY <2>1 DEF Calls, CallOf, UpdateOps
    <2>  QED  BY <1>2, <2>1, <2>2 DEF IsUsed
  <1>3. CASE InsertState(t)
    <2>1. pc[t] \in Calls /\ "lastInsertId" \in Calls /\ CallOf("lastInsertId", req[t].op)
      BY <1>3 DEF InsertState, Calls, CallOf, CreateOps
    <2>  QED  BY <1>3, <2>1 DEF InsertState, Inserted
  <1>4. CASE UpdateState(t)
    <2>1. pc[t] \in Calls /\ "reload" \in Calls /\ CallOf("reload", req[t].op) /\ req[t] \in Requests
      BY <1>4 DEF UpdateState, Calls, CallOf, UpdateOps, Pending
    <2>2. ASSUME Updated(t) PROVE Moves(t)
      <3>1. req[t].id \in 0 .. MaxId  BY <2>1, RequestFields, MaxIdAssumption DEF Ids
      <3>2. loc' \in [Threads -> Locals]  BY <2>2, <3>1 DEF Updated, ThreadTypes, Locals
      <3>  QED  BY <2>1, <2>2, <3>2 DEF Updated, Moves
    <2>  QED  BY <1>4, <2>1, <2>2 DEF UpdateState
  <1>5. CASE FindByStateId(t)
    <2>1. pc[t] \in Calls /\ req[t].op = "deleteState"
      BY <1>0, <1>5 DEF FindByStateId, Calls, CallOf
    <2>2. "remove" \in Calls /\ CallOf("remove", req[t].op)
      BY <2>1 DEF Calls, CallOf, DeleteOps
    <2>  QED  BY <1>5, <2>1, <2>2 DEF FindByStateId
  <1>6. CASE RemoveState(t)
    BY <1>6, MaxIdAssumption DEF RemoveState, Moves, Calls, Codes
  <1>  QED  BY <1>1, <1>2, <1>3, <1>4, <1>5, <1>6 DEF StateStep

LEMMA EdgeMoves ==
    ASSUME NEW t \in Threads, TableTypes, ThreadTypes, Pending, EdgeStep(t)
    PROVE  Moves(t)
  <1> USE RefuseMoves, ContinueMoves
  <1>0. CallOf(pc[t], req[t].op)
    BY DEF Pending
  <1>1. CASE FindBegin(t)
    <2>1. pc[t] \in Calls /\ "findEnd" \in Calls /\ CallOf("findEnd", req[t].op)
      BY <1>0, <1>1 DEF FindBegin, Calls, CallOf
    <2>2. ASSUME req[t].id \in DOMAIN state,
                 loc' = [loc EXCEPT ![t].workflow = state[req[t].id].workflow,
                                    ![t].isArchive = state[req[t].id].isArchive]
          PROVE  loc' \in [Threads -> Locals]
      <3>1. state[req[t].id] \in StateRow  BY <2>2 DEF TableTypes, IsTable
      <3>2. state[req[t].id].workflow \in 0 .. MaxId /\ state[req[t].id].isArchive \in BOOLEAN
        BY <3>1, MaxIdAssumption DEF StateRow, Ids
      <3>  QED  BY <2>2, <3>2 DEF ThreadTypes, Locals
    <2>3. CASE Throw(t) \/ Refuse(t)
      BY <2>1, <2>3
    <2>4. CASE ~Throw(t) /\ ~Refuse(t)
      BY <1>1, <2>1, <2>2, <2>4 DEF FindBegin, Moves
    <2>  QED  BY <2>3, <2>4
  <1>2. CASE FindEnd(t)
    <2>1. pc[t] \in Calls /\ "exists" \in Calls /\ CallOf("exists", req[t].op)
      BY <1>0, <1>2 DEF FindEnd, Calls, CallOf
    <2>  QED  BY <1>2, <2>1 DEF FindEnd
  <1>3. CASE Exists(t)
    <2>1. pc[t] \in Calls /\ "insert" \in Calls /\ CallOf("insert", req[t].op)
      BY <1>0, <1>3 DEF Exists, Calls, CallOf, CreateOps
    <2>  QED  BY <1>3, <2>1 DEF Exists
  <1>4. CASE InsertEdge(t)
    <2>1. pc[t] \in Calls /\ "lastInsertId" \in Calls /\ CallOf("lastInsertId", req[t].op)
      BY <1>4 DEF InsertEdge, Calls, CallOf, CreateOps
    <2>  QED  BY <1>4, <2>1 DEF InsertEdge, Inserted
  <1>5. CASE FindEdge(t)
    <2>1. pc[t] \in Calls /\ "remove" \in Calls /\ CallOf("remove", req[t].op)
      BY <1>0, <1>5 DEF FindEdge, Calls, CallOf, DeleteOps
    <2>  QED  BY <1>5, <2>1 DEF FindEdge
  <1>6. CASE RemoveEdge(t)
    BY <1>6, MaxIdAssumption DEF RemoveEdge, Moves, Calls, Codes
  <1>  QED  BY <1>1, <1>2, <1>3, <1>4, <1>5, <1>6 DEF EdgeStep

LEMMA StepMoves ==
    ASSUME NEW t \in Threads, TableTypes, ThreadTypes, Pending, Step(t), ~Respond(t)
    PROVE  Moves(t)
  <1>0. CallOf(pc[t], req[t].op)
    BY DEF Pending
  <1>1. CASE WorkflowStep(t) \/ StateStep(t) \/ EdgeStep(t)
    BY <1>1, WorkflowMoves, StateMoves, EdgeMoves
  <1>2. CASE LastInsertId(t)
    <2>1. pc[t] \in Calls /\ "reload" \in Calls /\ CallOf("reload", req[t].op)
      BY <1>0, <1>2 DEF LastInsertId, Calls, CallOf
    <2>2. loc' \in [Threads -> Locals]
      BY <1>2 DEF LastInsertId, ThreadTypes, TableTypes, Locals
    <2>  QED  BY <1>2, <2>1, <2>2 DEF LastInsertId, Moves
  <1>3. CASE Reload(t)
    <2>1. pc[t] \in Calls
      BY <1>3 DEF Reload, Calls
    <2>2. loc[t].newId \in 0 .. MaxId /\ 200 \in Codes /\ 201 \in Codes
      BY DEF ThreadTypes, Locals, Codes
    <2>  QED  BY <1>3, <2>1, <2>2, RefuseMoves DEF Reload, Moves
  <1>4. CASE RemoveFails(t)
    BY <1>4, MaxIdAssumption DEF RemoveFails, Moves, Calls, Codes
  <1>5. CASE CallFails(t)
    BY <1>5, RefuseMoves DEF CallFails, Rethrowing
  <1>  QED  BY <1>1, <1>2, <1>3, <1>4, <1>5 DEF Step

LEMMA ThreadTypesStep ==
    ASSUME TableTypes, ThreadTypes, Pending, [Next]_vars
    PROVE  ThreadTypes' /\ Pending'
  <1>1. ASSUME NEW t \in Threads, Step(t) PROVE ThreadTypes' /\ Pending'
    BY <1>1, RespondTypes, StepMoves, MovesTypes
  <1>2. ASSUME NEW s \in Ids, PlaceItem(s) PROVE ThreadTypes' /\ Pending'
    BY <1>2 DEF PlaceItem, threadVars, ThreadTypes, Pending
  <1>3. CASE UNCHANGED vars
    BY <1>3 DEF vars, threadVars, ThreadTypes, Pending
  <1>  QED  BY <1>1, <1>2, <1>3, ReceiveTypes DEF Next

-----------------------------------------------------------------------------
(* Tables                                                                   *)

LEMMA PutTable ==
    ASSUME NEW V, NEW f, NEW k \in Ids, NEW v \in V, IsTable(f, V)
    PROVE  /\ IsTable(Put(f, k, v), V)
           /\ DOMAIN Put(f, k, v) = DOMAIN f \cup {k}
           /\ Put(f, k, v)[k] = v
           /\ \A x \in DOMAIN f \ {k} : Put(f, k, v)[x] = f[x]
  BY DEF Put, IsTable

LEMMA RemoveTable ==
    ASSUME NEW V, NEW f, NEW S, IsTable(f, V)
    PROVE  /\ IsTable(Remove(f, S), V)
           /\ DOMAIN Remove(f, S) = DOMAIN f \ S
           /\ \A x \in DOMAIN Remove(f, S) : Remove(f, S)[x] = f[x]
  BY DEF Remove, Restrict, IsTable

LEMMA ChangeTable ==
    ASSUME NEW V, NEW f, NEW k \in DOMAIN f, NEW v \in V, IsTable(f, V)
    PROVE  /\ IsTable([f EXCEPT ![k] = v], V)
           /\ DOMAIN [f EXCEPT ![k] = v] = DOMAIN f
           /\ [f EXCEPT ![k] = v][k] = v
           /\ \A x \in DOMAIN f \ {k} : [f EXCEPT ![k] = v][x] = f[x]
  BY DEF IsTable

(* The statements that write.                                               *)
Writes(t) ==
    \/ InsertWorkflow(t) \/ UpdateWorkflow(t) \/ RemoveWorkflow(t)
    \/ InsertState(t) \/ UpdateState(t) \/ RemoveState(t)
    \/ InsertEdge(t) \/ RemoveEdge(t)

LEMMA OthersRead ==
    ASSUME NEW t \in Threads, Step(t), ~Writes(t)
    PROVE  UNCHANGED storeVars
  <1>1. CASE WorkflowStep(t)
    BY <1>1 DEF WorkflowStep, Writes, FindWorkflow, ExistsByCaption, FindByWorkflowId, IsAnyUsed,
                Refuse, Throw, Conflict
  <1>2. CASE StateStep(t)
    BY <1>2 DEF StateStep, Writes, FindState, IsUsed, FindByStateId, Refuse, Throw, Conflict
  <1>3. CASE EdgeStep(t)
    BY <1>3 DEF EdgeStep, Writes, FindBegin, FindEnd, Exists, FindEdge, Refuse, Throw
  <1>4. CASE LastInsertId(t) \/ Reload(t) \/ RemoveFails(t) \/ CallFails(t) \/ Respond(t)
    BY <1>4 DEF LastInsertId, Reload, RemoveFails, CallFails, Respond, Refuse, Throw
  <1>  QED  BY <1>1, <1>2, <1>3, <1>4 DEF Step

(* The row createState() writes, and the rows updateState() makes of rows.  *)
LEMMA NewStateRow ==
    ASSUME NEW r \in Requests, r.op = "createState", ~Malformed(r)
    PROVE  LET row == [workflow  |-> r.id,
                       caption   |-> r.caption,
                       weight    |-> WithDefault(r.weight, 0),
                       isArchive |-> WithDefault(r.isArchive, FALSE)]
           IN  row \in StateRow /\ row.weight \in 0 .. 100 /\ row.workflow = r.id
  <1>1. r.id \in Ids /\ r.caption \in Captions
    BY RequestFields DEF Malformed
  <1>2. WithDefault(r.weight, 0) \in Weights /\ WithDefault(r.weight, 0) \in 0 .. 100
    <2>1. CASE r.weight = Absent
      <3>1. WithDefault(r.weight, 0) = 0  BY <2>1 DEF WithDefault
      <3>  QED  BY <3>1, WeightsAssumption
    <2>2. CASE r.weight # Absent
      <3>1. WithDefault(r.weight, 0) = r.weight  BY <2>2 DEF WithDefault
      <3>2. r.weight \in Weights  BY <2>2, RequestFields
      <3>3. r.weight \in 0 .. 100  BY <2>2 DEF Malformed, LegalWeights
      <3>  QED  BY <3>1, <3>2, <3>3
    <2>  QED  BY <2>1, <2>2
  <1>3. WithDefault(r.isArchive, FALSE) \in BOOLEAN
    BY RequestFields DEF WithDefault
  <1>  QED  BY <1>1, <1>2, <1>3 DEF StateRow

LEMMA UpdatedStateRow ==
    ASSUME NEW r \in Requests, NEW row \in StateRow
    PROVE  RowUpdated(row, r) \in StateRow /\ RowUpdated(row, r).workflow = row.workflow
  <1>1. /\ row.workflow \in Ids /\ row.caption \in Captions
        /\ row.weight \in Weights /\ row.isArchive \in BOOLEAN
    BY DEF StateRow
  <1>2. /\ WithDefault(r.caption, row.caption) \in Captions
        /\ WithDefault(r.weight, row.weight) \in Weights
    BY <1>1, RequestFields DEF WithDefault
  <1>3. WithDefault(r.isArchive, row.isArchive) \in BOOLEAN
    BY <1>1, RequestFields DEF WithDefault
  <1>  QED  BY <1>1, <1>2, <1>3 DEF RowUpdated, StateRow

LEMMA InsertedSeq ==
    ASSUME NEW t \in Threads, NEW table \in Tables, seq \in [Tables -> 0 .. MaxId],
           seq[table] + 1 \in Ids, Inserted(t, table, seq[table] + 1)
    PROVE  /\ seq' \in [Tables -> 0 .. MaxId] /\ last' \in 0 .. MaxId
           /\ seq' = [seq EXCEPT ![table] = seq[table] + 1]
  BY MaxIdAssumption DEF Inserted, Ids

LEMMA DropTypes ==
    ASSUME NEW S, TableTypes, DropStates(S)
    PROVE  IsTable(state', StateRow) /\ IsTable(edge', EdgeRow) /\ used' \subseteq DOMAIN state'
  <1>1. IsTable(state, StateRow) /\ IsTable(edge, EdgeRow) /\ used \subseteq DOMAIN state
    BY DEF TableTypes
  <1>2. /\ state' = Remove(state, S) /\ used' = used \ S
        /\ edge' = Remove(edge, EdgesAt(S))
    BY DEF DropStates
  <1>3. IsTable(Remove(state, S), StateRow) /\ IsTable(Remove(edge, EdgesAt(S)), EdgeRow)
    BY <1>1, RemoveTable
  <1>4. DOMAIN Remove(state, S) = DOMAIN state \ S
    BY DEF Remove, Restrict
  <1>  QED  BY <1>1, <1>2, <1>3, <1>4

LEMMA TableTypesWrite ==
    ASSUME NEW t \in Threads, TableTypes, ThreadTypes, Pending, Writes(t)
    PROVE  TableTypes'
  <1>1. CASE InsertWorkflow(t)
    <2>1. CASE Throw(t)
      BY <2>1 DEF Throw, storeVars, TableTypes
    <2>2. CASE ~Throw(t)
      <3>1. req[t] \in Requests /\ req[t].op = "createWorkflow" /\ ~Malformed(req[t])
        BY <1>1 DEF InsertWorkflow, Pending, Calls
      <3>2. req[t].caption \in Captions
        BY <3>1, RequestFields DEF Malformed
      <3>3. /\ seq["workflow"] + 1 \in Ids /\ Inserted(t, "workflow", seq["workflow"] + 1)
            /\ workflow' = Put(workflow, seq["workflow"] + 1, req[t].caption)
            /\ UNCHANGED <<state, edge, used>>
        BY <1>1, <2>2 DEF InsertWorkflow, NextId
      <3>4. IsTable(workflow', Captions)
        BY <3>2, <3>3, PutTable DEF TableTypes
      <3>5. seq' \in [Tables -> 0 .. MaxId] /\ last' \in 0 .. MaxId
        BY <3>3, InsertedSeq DEF TableTypes, Tables
      <3>  QED  BY <3>3, <3>4, <3>5 DEF TableTypes
    <2>  QED  BY <2>1, <2>2
  <1>2. CASE UpdateWorkflow(t)
    <2>1. CASE Refuse(t)
      BY <2>1 DEF Refuse, storeVars, TableTypes
    <2>2. CASE ~Refuse(t)
      <3>1. /\ req[t].id \in DOMAIN workflow /\ req[t].caption # Absent /\ req[t] \in Requests
            /\ workflow' = [workflow EXCEPT ![req[t].id] = req[t].caption]
            /\ UNCHANGED <<state, edge, used, seq, last>>
        BY <1>2, <2>2 DEF UpdateWorkflow, Updated, Pending
      <3>2. IsTable(workflow', Captions)
        BY <3>1, RequestFields, ChangeTable DEF TableTypes
      <3>  QED  BY <3>1, <3>2 DEF TableTypes
    <2>  QED  BY <2>1, <2>2
  <1>3. CASE RemoveWorkflow(t)
    <2>1. IsTable(workflow', Captions)
      BY <1>3, RemoveTable DEF RemoveWorkflow, TableTypes
    <2>2. IsTable(state', StateRow) /\ IsTable(edge', EdgeRow) /\ used' \subseteq DOMAIN state'
      BY <1>3, DropTypes DEF RemoveWorkflow
    <2>  QED  BY <1>3, <2>1, <2>2 DEF RemoveWorkflow, TableTypes
  <1>4. CASE InsertState(t)
    <2>1. CASE Throw(t)
      BY <2>1 DEF Throw, storeVars, TableTypes
    <2>2. CASE ~Throw(t)
      <3>1. req[t] \in Requests /\ req[t].op = "createState" /\ ~Malformed(req[t])
        BY <1>4 DEF InsertState, Pending, Calls
      <3> DEFINE row == [workflow  |-> req[t].id,
                         caption   |-> req[t].caption,
                         weight    |-> WithDefault(req[t].weight, 0),
                         isArchive |-> WithDefault(req[t].isArchive, FALSE)]
      <3>2. row \in StateRow
        BY <3>1, NewStateRow
      <3>3. /\ seq["state"] + 1 \in Ids /\ Inserted(t, "state", seq["state"] + 1)
            /\ state' = Put(state, seq["state"] + 1, row)
            /\ UNCHANGED <<workflow, edge, used>>
        BY <1>4, <2>2 DEF InsertState, NextId
      <3> HIDE DEF row
      <3>a. PICK k \in Ids, v \in StateRow : state' = Put(state, k, v)
        BY <3>2, <3>3
      <3>b. IsTable(state, StateRow)
        BY DEF TableTypes
      <3>c. IsTable(Put(state, k, v), StateRow)
        BY <3>b, PutTable
      <3>d. DOMAIN Put(state, k, v) = DOMAIN state \cup {k}
        BY DEF Put
      <3>4. IsTable(state', StateRow) /\ DOMAIN state \subseteq DOMAIN state'
        BY <3>a, <3>c, <3>d
      <3>5. seq' \in [Tables -> 0 .. MaxId] /\ last' \in 0 .. MaxId
        BY <3>3, InsertedSeq DEF TableTypes, Tables
      <3>  QED  BY <3>3, <3>4, <3>5 DEF TableTypes
    <2>  QED  BY <2>1, <2>2
  <1>5. CASE UpdateState(t)
    <2>1. CASE Refuse(t)
      BY <2>1 DEF Refuse, storeVars, TableTypes
    <2>2. CASE ~Refuse(t)
      <3>1. /\ req[t].id \in DOMAIN state /\ req[t] \in Requests
            /\ state' = [state EXCEPT ![req[t].id] = RowUpdated(state[req[t].id], req[t])]
            /\ UNCHANGED <<workflow, edge, used, seq, last>>
        BY <1>5, <2>2 DEF UpdateState, Updated, Pending
      <3>2. state[req[t].id] \in StateRow
        BY <3>1 DEF TableTypes, IsTable
      <3>3. RowUpdated(state[req[t].id], req[t]) \in StateRow
        BY <3>1, <3>2, UpdatedStateRow
      <3>a. PICK k \in DOMAIN state, v \in StateRow : state' = [state EXCEPT ![k] = v]
        BY <3>1, <3>3
      <3>b. IsTable(state, StateRow)
        BY DEF TableTypes
      <3>c. IsTable([state EXCEPT ![k] = v], StateRow) /\ DOMAIN [state EXCEPT ![k] = v] = DOMAIN state
        BY <3>b, ChangeTable
      <3>4. IsTable(state', StateRow) /\ DOMAIN state' = DOMAIN state
        BY <3>a, <3>c
      <3>  QED  BY <3>1, <3>4 DEF TableTypes
    <2>  QED  BY <2>1, <2>2
  <1>6. CASE RemoveState(t)
    <2>1. IsTable(state', StateRow) /\ IsTable(edge', EdgeRow) /\ used' \subseteq DOMAIN state'
      BY <1>6, DropTypes DEF RemoveState
    <2>  QED  BY <1>6, <2>1 DEF RemoveState, TableTypes
  <1>7. CASE InsertEdge(t)
    <2>1. CASE Throw(t)
      BY <2>1 DEF Throw, storeVars, TableTypes
    <2>2. CASE ~Throw(t)
      <3>1. req[t] \in Requests
        BY <1>7 DEF InsertEdge, Pending
      <3>2. EdgeOf(req[t]) \in EdgeRow
        BY <3>1, RequestFields DEF EdgeOf, EdgeRow
      <3>3. /\ seq["edge"] + 1 \in Ids /\ Inserted(t, "edge", seq["edge"] + 1)
            /\ edge' = Put(edge, seq["edge"] + 1, EdgeOf(req[t]))
            /\ UNCHANGED <<workflow, state, used>>
        BY <1>7, <2>2 DEF InsertEdge, NextId
      <3>4. IsTable(edge', EdgeRow)
        BY <3>2, <3>3, PutTable DEF TableTypes
      <3>5. seq' \in [Tables -> 0 .. MaxId] /\ last' \in 0 .. MaxId
        BY <3>3, InsertedSeq DEF TableTypes, Tables
      <3>  QED  BY <3>3, <3>4, <3>5 DEF TableTypes
    <2>  QED  BY <2>1, <2>2
  <1>8. CASE RemoveEdge(t)
    BY <1>8, RemoveTable DEF RemoveEdge, TableTypes
  <1>  QED  BY <1>1, <1>2, <1>3, <1>4, <1>5, <1>6, <1>7, <1>8 DEF Writes

LEMMA TableTypesStep ==
    ASSUME TableTypes, ThreadTypes, Pending, [Next]_vars
    PROVE  TableTypes'
  <1>1. ASSUME UNCHANGED storeVars PROVE TableTypes'
    BY <1>1 DEF storeVars, TableTypes
  <1>2. ASSUME NEW t \in Threads, Step(t) PROVE TableTypes'
    BY <1>1, <1>2, OthersRead, TableTypesWrite
  <1>3. ASSUME NEW t \in Threads, NEW r \in Requests, Receive(t, r) PROVE TableTypes'
    BY <1>1, <1>3 DEF Receive
  <1>4. ASSUME NEW s \in Ids, PlaceItem(s) PROVE TableTypes'
    BY <1>4 DEF PlaceItem, TableTypes
  <1>5. CASE UNCHANGED vars
    BY <1>1, <1>5 DEF vars
  <1>  QED  BY <1>2, <1>3, <1>4, <1>5 DEF Next

-----------------------------------------------------------------------------
(* Every step does what WorkflowGraph allows                                *)

LEMMA InsertsRefine ==
    ASSUME NEW t \in Threads, TableTypes, Pending, Graph, ChecksHold,
           InsertWorkflow(t) \/ InsertState(t) \/ InsertEdge(t), ~Throw(t)
    PROVE  Abstract!Next
  <1>1. CASE InsertWorkflow(t)
    <2> DEFINE id == seq["workflow"] + 1
    <2>1. /\ id \in Ids /\ Inserted(t, "workflow", id)
          /\ workflow' = Put(workflow, id, req[t].caption)
          /\ UNCHANGED <<state, edge, used>>
      BY <1>1 DEF InsertWorkflow, NextId
    <2>2. req[t].caption # ""
      BY <1>1 DEF InsertWorkflow, Pending, Calls, Malformed
    <2>3. id > seq["workflow"] /\ seq' = [seq EXCEPT !["workflow"] = id]
      BY <2>1, InsertedSeq DEF TableTypes, Tables
    <2>4. /\ DOMAIN workflow' = DOMAIN workflow \cup {id} /\ workflow'[id] = req[t].caption
          /\ \A x \in DOMAIN workflow \ {id} : workflow'[x] = workflow[x]
      BY <2>1 DEF Put
    <2>5. Abstract!AddWorkflow(id)
      BY <2>1, <2>2, <2>3, <2>4 DEF Abstract!AddWorkflow, Abstract!Fresh, Abstract!Added
    <2>  QED  BY <2>1, <2>5 DEF Abstract!Next
  <1>2. CASE InsertState(t)
    <2> DEFINE id  == seq["state"] + 1
               row == [workflow  |-> req[t].id,
                       caption   |-> req[t].caption,
                       weight    |-> WithDefault(req[t].weight, 0),
                       isArchive |-> WithDefault(req[t].isArchive, FALSE)]
    <2>1. /\ id \in Ids /\ Inserted(t, "state", id) /\ req[t].id \in DOMAIN workflow
          /\ state' = Put(state, id, row)
          /\ UNCHANGED <<workflow, edge, used>>
      BY <1>2 DEF InsertState, NextId
    <2>2. req[t] \in Requests /\ req[t].op = "createState" /\ ~Malformed(req[t])
      BY <1>2 DEF InsertState, Pending, Calls
    <2>3. row.weight \in 0 .. 100 /\ row.workflow = req[t].id
      BY <2>2, NewStateRow
    <2>4. id > seq["state"] /\ seq' = [seq EXCEPT !["state"] = id]
      BY <2>1, InsertedSeq DEF TableTypes, Tables
    <2> HIDE DEF row
    <2>5. /\ DOMAIN state' = DOMAIN state \cup {id} /\ state'[id] = row
          /\ \A x \in DOMAIN state \ {id} : state'[x] = state[x]
      BY <2>1 DEF Put
    <2>6. Abstract!AddState(id)
      BY <2>1, <2>3, <2>4, <2>5 DEF Abstract!AddState, Abstract!Fresh, Abstract!Added
    <2>  QED  BY <2>1, <2>6 DEF Abstract!Next
  <1>3. CASE InsertEdge(t)
    <2> DEFINE id  == seq["edge"] + 1
               row == EdgeOf(req[t])
    <2>1. /\ id \in Ids /\ Inserted(t, "edge", id) /\ Constraints(row)
          /\ edge' = Put(edge, id, row)
          /\ UNCHANGED <<workflow, state, used>>
          /\ pc[t] = "insert" /\ req[t].op = "createEdge"
      BY <1>3 DEF InsertEdge, NextId
    <2>2. id > seq["edge"] /\ seq' = [seq EXCEPT !["edge"] = id]
      BY <2>1, InsertedSeq DEF TableTypes, Tables
    <2>3. /\ DOMAIN edge' = DOMAIN edge \cup {id} /\ edge'[id] = row
          /\ \A x \in DOMAIN edge \ {id} : edge'[x] = edge[x]
      BY <2>1 DEF Put
    <2>4. row.begin = req[t].id /\ row.end = req[t].end
      BY DEF EdgeOf
    <2>5. {row.begin, row.end} \subseteq DOMAIN state /\ \A e \in DOMAIN edge : edge[e] # row
      BY <2>1 DEF Constraints, HasEdge
    <2>6. StillIn(row.begin, loc[t].workflow) /\ StillIn(row.end, loc[t].workflow)
      BY <2>1, <2>4 DEF ChecksHold, Checked, BeginChecked, EndChecked
    <2>7. Abstract!Joins(row, row.begin, row.end)
      BY <2>5, <2>6 DEF Abstract!Joins, StillIn
    <2> HIDE DEF row
    <2>8. Abstract!AddEdge(id)
      BY <2>1, <2>2, <2>3, <2>5, <2>7 DEF Abstract!AddEdge, Abstract!Fresh, Abstract!Added
    <2>  QED  BY <2>1, <2>8 DEF Abstract!Next
  <1>  QED  BY <1>1, <1>2, <1>3

LEMMA UpdatesRefine ==
    ASSUME NEW t \in Threads, TableTypes, Pending, UpdateWorkflow(t) \/ UpdateState(t), ~Refuse(t)
    PROVE  Abstract!Next
  <1>1. CASE UpdateWorkflow(t)
    <2>1. /\ req[t].id \in DOMAIN workflow
          /\ workflow' = [workflow EXCEPT ![req[t].id] = req[t].caption]
          /\ UNCHANGED <<state, edge, used, seq>>
      BY <1>1 DEF UpdateWorkflow, Updated
    <2>2. Abstract!Rename(req[t].id) /\ req[t].id \in Ids
      BY <2>1 DEF Abstract!Rename, TableTypes, IsTable
    <2>  QED  BY <2>2 DEF Abstract!Next
  <1>2. CASE UpdateState(t)
    <2>1. /\ req[t].id \in DOMAIN state /\ req[t] \in Requests
          /\ state' = [state EXCEPT ![req[t].id] = RowUpdated(state[req[t].id], req[t])]
          /\ UNCHANGED <<workflow, edge, used, seq>>
      BY <1>2 DEF UpdateState, Updated, Pending
    <2>2. state[req[t].id] \in StateRow /\ req[t].id \in Ids
      BY <2>1 DEF TableTypes, IsTable
    <2>3. RowUpdated(state[req[t].id], req[t]).workflow = state[req[t].id].workflow
      BY <2>1, <2>2, UpdatedStateRow
    <2>4. PICK k \in Ids, v \in {RowUpdated(state[req[t].id], req[t])} :
             k \in DOMAIN state /\ state' = [state EXCEPT ![k] = v] /\ v.workflow = state[k].workflow
      BY <2>1, <2>2, <2>3
    <2>5. /\ DOMAIN state' = DOMAIN state /\ state'[k] = v
          /\ \A x \in DOMAIN state \ {k} : state'[x] = state[x]
      BY <2>4
    <2>6. Abstract!ChangeState(k)
      BY <2>1, <2>4, <2>5 DEF Abstract!ChangeState
    <2>  QED  BY <2>6 DEF Abstract!Next
  <1>  QED  BY <1>1, <1>2

LEMMA RemovedTable ==
    ASSUME NEW f, NEW S
    PROVE  Abstract!Removed(f, Remove(f, S), S)
  BY DEF Remove, Restrict, Abstract!Removed

LEMMA DropRefines ==
    ASSUME NEW S, DropStates(S), UNCHANGED seq
    PROVE  Abstract!DropStates(S)
  BY RemovedTable DEF DropStates, EdgesAt, Abstract!DropStates

LEMMA RemovesRefine ==
    ASSUME NEW t \in Threads, TableTypes, RemoveWorkflow(t) \/ RemoveState(t) \/ RemoveEdge(t)
    PROVE  Abstract!Next
  <1>1. CASE RemoveWorkflow(t)
    <2>1. req[t].id \in Ids /\ Abstract!Removed(workflow, workflow', {req[t].id})
      BY <1>1, RemovedTable DEF RemoveWorkflow, TableTypes, IsTable
    <2>2. Abstract!DropStates(StatesOf(req[t].id))
      BY <1>1, DropRefines DEF RemoveWorkflow
    <2>3. Abstract!DropWorkflow(req[t].id)
      BY <2>1, <2>2 DEF Abstract!DropWorkflow, StatesOf
    <2>  QED  BY <2>1, <2>3 DEF Abstract!Next
  <1>2. CASE RemoveState(t)
    <2>1. req[t].id \in Ids /\ UNCHANGED workflow
      BY <1>2 DEF RemoveState, TableTypes, IsTable
    <2>2. Abstract!DropStates({req[t].id})
      BY <1>2, DropRefines DEF RemoveState
    <2>  QED  BY <2>1, <2>2 DEF Abstract!DropState, Abstract!Next
  <1>3. CASE RemoveEdge(t)
    <2>1. req[t].id \in Ids /\ Abstract!Removed(edge, edge', {req[t].id})
      BY <1>3, RemovedTable DEF RemoveEdge, TableTypes, IsTable
    <2>2. Abstract!DropEdge(req[t].id)
      BY <1>3, <2>1 DEF RemoveEdge, Abstract!DropEdge
    <2>  QED  BY <2>1, <2>2 DEF Abstract!Next
  <1>  QED  BY <1>1, <1>2, <1>3

LEMMA StepRefines ==
    ASSUME TableTypes, Pending, Graph, ChecksHold, [Next]_vars
    PROVE  [Abstract!Next]_(Abstract!vars)
  <1>1. ASSUME UNCHANGED storeVars PROVE UNCHANGED Abstract!vars
    BY <1>1 DEF storeVars, Abstract!vars
  <1>2. ASSUME NEW t \in Threads, Writes(t) PROVE Abstract!Next \/ UNCHANGED storeVars
    <2>1. CASE Throw(t) \/ Refuse(t)
      BY <2>1 DEF Throw, Refuse
    <2>2. CASE ~(Throw(t) \/ Refuse(t))
      BY <1>2, <2>2, InsertsRefine, UpdatesRefine, RemovesRefine DEF Writes
    <2>  QED  BY <2>1, <2>2
  <1>3. ASSUME NEW t \in Threads, Step(t) PROVE [Abstract!Next]_(Abstract!vars)
    BY <1>1, <1>2, <1>3, OthersRead
  <1>4. ASSUME NEW t \in Threads, NEW r \in Requests, Receive(t, r) PROVE UNCHANGED storeVars
    BY <1>4 DEF Receive
  <1>5. ASSUME NEW s \in Ids, PlaceItem(s) PROVE Abstract!UseState
    BY <1>5 DEF PlaceItem, Abstract!UseState, TableTypes
  <1>6. CASE UNCHANGED vars
    BY <1>1, <1>6 DEF vars
  <1>  QED  BY <1>1, <1>3, <1>4, <1>5, <1>6 DEF Next, Abstract!Next

-----------------------------------------------------------------------------
(* What WorkflowGraph keeps                                                 *)

(* Identifiers only grow, and a row whose identifier is not new was there   *)
(* before, in the same workflow.                                            *)
Grows ==
    /\ \A table \in Tables : seq[table] <= seq'[table]
    /\ \A i \in DOMAIN workflow' : i <= seq["workflow"] => i \in DOMAIN workflow
    /\ \A i \in DOMAIN state' :
          i <= seq["state"] => i \in DOMAIN state /\ state'[i].workflow = state[i].workflow
    /\ \A i \in DOMAIN edge' : i <= seq["edge"] => i \in DOMAIN edge

Keeps == IdsGiven' /\ Graph' /\ Grows

LEMMA TableFacts ==
    ASSUME TableTypes
    PROVE  /\ DOMAIN workflow \subseteq Int /\ DOMAIN state \subseteq Int /\ DOMAIN edge \subseteq Int
           /\ \A table \in Tables : seq[table] \in Int
           /\ Ids \subseteq Int
  BY MaxIdAssumption DEF TableTypes, IsTable, Ids

LEMMA FreshSeq ==
    ASSUME NEW table \in Tables, NEW id \in Ids, TableTypes, Abstract!Fresh(table, id)
    PROVE  /\ id > seq[table] /\ seq'[table] = id
           /\ \A other \in Tables : other # table => seq'[other] = seq[other]
           /\ \A other \in Tables : seq[other] <= seq'[other]
  BY TableFacts DEF Abstract!Fresh, TableTypes

LEMMA DropKeeps ==
    ASSUME NEW S, TableTypes, IdsGiven, Graph, Abstract!DropStates(S),
           Abstract!Removed(workflow, workflow', DOMAIN workflow \ DOMAIN workflow'),
           \A s \in DOMAIN state \ S : state[s].workflow \in DOMAIN workflow'
    PROVE  Keeps
  <1>1. /\ DOMAIN state' = DOMAIN state \ S /\ \A i \in DOMAIN state' : state'[i] = state[i]
        /\ DOMAIN edge' = {e \in DOMAIN edge : edge[e].begin \notin S /\ edge[e].end \notin S}
        /\ \A i \in DOMAIN edge' : edge'[i] = edge[i]
        /\ seq' = seq /\ DOMAIN workflow' \subseteq DOMAIN workflow
    BY DEF Abstract!DropStates, Abstract!Removed
  <1>2. IdsGiven'
    BY <1>1 DEF IdsGiven
  <1>3. ReferencesExist'
    <2>1. \A s \in DOMAIN state' : state'[s].workflow \in DOMAIN workflow'
      BY <1>1
    <2>2. \A e \in DOMAIN edge' : {edge'[e].begin, edge'[e].end} \subseteq DOMAIN state'
      BY <1>1 DEF Graph, ReferencesExist
    <2>  QED  BY <2>1, <2>2 DEF ReferencesExist
  <1>4. EdgeWithinWorkflow' /\ UniqueEdges'
    BY <1>1 DEF Graph, EdgeWithinWorkflow, UniqueEdges
  <1>5. Grows
    BY <1>1, TableFacts DEF Grows
  <1>  QED  BY <1>2, <1>3, <1>4, <1>5 DEF Keeps, Graph

LEMMA AbstractKeeps ==
    ASSUME TableTypes, IdsGiven, Graph, Abstract!Next
    PROVE  Keeps
  <1> USE TableFacts
  <1>1. ASSUME NEW id \in Ids, Abstract!AddWorkflow(id) PROVE Keeps
    <2>1. /\ DOMAIN workflow' = DOMAIN workflow \cup {id} /\ UNCHANGED <<state, edge>>
          /\ id > seq["workflow"] /\ seq'["workflow"] = id
          /\ seq'["state"] = seq["state"] /\ seq'["edge"] = seq["edge"]
          /\ \A table \in Tables : seq[table] <= seq'[table]
      BY <1>1, FreshSeq DEF Abstract!AddWorkflow, Abstract!Added, Tables
    <2>2. IdsGiven'
      BY <2>1 DEF IdsGiven, Tables
    <2>3. Graph'
      BY <2>1 DEF Graph, ReferencesExist, EdgeWithinWorkflow, UniqueEdges
    <2>4. Grows
      BY <2>1 DEF Grows, Tables
    <2>  QED  BY <2>2, <2>3, <2>4 DEF Keeps
  <1>2. ASSUME NEW w \in Ids, Abstract!Rename(w) PROVE Keeps
    <2>1. DOMAIN workflow' = DOMAIN workflow /\ UNCHANGED <<state, edge, seq>>
      BY <1>2 DEF Abstract!Rename
    <2>  QED  BY <2>1 DEF Keeps, IdsGiven, Graph, Grows, ReferencesExist, EdgeWithinWorkflow, UniqueEdges
  <1>3. ASSUME NEW w \in Ids, Abstract!DropWorkflow(w) PROVE Keeps
    <2>1. Abstract!DropStates({s \in DOMAIN state : state[s].workflow = w})
      BY <1>3 DEF Abstract!DropWorkflow
    <2>2. DOMAIN workflow' = DOMAIN workflow \ {w} /\ \A x \in DOMAIN workflow' : workflow'[x] = workflow[x]
      BY <1>3 DEF Abstract!DropWorkflow, Abstract!Removed
    <2>3. Abstract!Removed(workflow, workflow', DOMAIN workflow \ DOMAIN workflow')
      BY <2>2 DEF Abstract!Removed
    <2>4. \A s \in DOMAIN state \ {s \in DOMAIN state : state[s].workflow = w} :
             state[s].workflow \in DOMAIN workflow'
      BY <2>2 DEF Graph, ReferencesExist
    <2>  QED  BY <2>1, <2>3, <2>4, DropKeeps
  <1>4. ASSUME NEW id \in Ids, Abstract!AddState(id) PROVE Keeps
    <2>1. /\ DOMAIN state' = DOMAIN state \cup {id} /\ \A x \in DOMAIN state \ {id} : state'[x] = state[x]
          /\ state'[id].workflow \in DOMAIN workflow /\ UNCHANGED <<workflow, edge>>
          /\ id > seq["state"] /\ seq'["state"] = id
          /\ seq'["workflow"] = seq["workflow"] /\ seq'["edge"] = seq["edge"]
          /\ \A table \in Tables : seq[table] <= seq'[table]
      BY <1>4, FreshSeq DEF Abstract!AddState, Abstract!Added, Tables
    <2>2. id \notin DOMAIN state /\ \A x \in DOMAIN state : state'[x] = state[x]
      BY <2>1 DEF IdsGiven, Tables
    <2>3. IdsGiven'
      BY <2>1 DEF IdsGiven, Tables
    <2>4. Graph'
      BY <2>1, <2>2 DEF Graph, ReferencesExist, EdgeWithinWorkflow, UniqueEdges
    <2>5. Grows
      BY <2>1, <2>2 DEF Grows, Tables
    <2>  QED  BY <2>3, <2>4, <2>5 DEF Keeps
  <1>5. ASSUME NEW s \in Ids, Abstract!ChangeState(s) PROVE Keeps
    <2>1. DOMAIN state' = DOMAIN state /\ UNCHANGED <<workflow, edge, seq>>
      BY <1>5 DEF Abstract!ChangeState
    <2>2. \A x \in DOMAIN state : state'[x].workflow = state[x].workflow
      BY <1>5 DEF Abstract!ChangeState
    <2>3. IdsGiven' /\ UniqueEdges'
      BY <2>1 DEF IdsGiven, Graph, UniqueEdges
    <2>4. ReferencesExist' /\ EdgeWithinWorkflow'
      BY <2>1, <2>2 DEF Graph, ReferencesExist, EdgeWithinWorkflow
    <2>5. Grows
      BY <2>1, <2>2 DEF Grows
    <2>  QED  BY <2>3, <2>4, <2>5 DEF Keeps, Graph
  <1>6. ASSUME NEW s \in Ids, Abstract!DropState(s) PROVE Keeps
    <2>1. Abstract!DropStates({s}) /\ UNCHANGED workflow
      BY <1>6 DEF Abstract!DropState
    <2>2. Abstract!Removed(workflow, workflow', DOMAIN workflow \ DOMAIN workflow')
      BY <2>1 DEF Abstract!Removed
    <2>3. \A x \in DOMAIN state \ {s} : state[x].workflow \in DOMAIN workflow'
      BY <2>1 DEF Graph, ReferencesExist
    <2>  QED  BY <2>1, <2>2, <2>3, DropKeeps
  <1>7. ASSUME NEW id \in Ids, Abstract!AddEdge(id) PROVE Keeps
    <2>1. /\ DOMAIN edge' = DOMAIN edge \cup {id} /\ \A x \in DOMAIN edge \ {id} : edge'[x] = edge[x]
          /\ UNCHANGED <<workflow, state>>
          /\ id > seq["edge"] /\ seq'["edge"] = id
          /\ seq'["workflow"] = seq["workflow"] /\ seq'["state"] = seq["state"]
          /\ \A table \in Tables : seq[table] <= seq'[table]
      BY <1>7, FreshSeq DEF Abstract!AddEdge, Abstract!Added, Tables
    <2>2. /\ {edge'[id].begin, edge'[id].end} \subseteq DOMAIN state
          /\ state[edge'[id].begin].workflow = state[edge'[id].end].workflow
          /\ \A e \in DOMAIN edge \ {id} : edge[e] # edge'[id]
      BY <1>7 DEF Abstract!AddEdge, Abstract!Joins
    <2>3. id \notin DOMAIN edge /\ \A x \in DOMAIN edge : edge'[x] = edge[x]
      BY <2>1 DEF IdsGiven, Tables
    <2>4. IdsGiven'
      BY <2>1 DEF IdsGiven, Tables
    <2>5. ReferencesExist' /\ EdgeWithinWorkflow'
      BY <2>1, <2>2, <2>3 DEF Graph, ReferencesExist, EdgeWithinWorkflow
    <2>6. UniqueEdges'
      BY <2>1, <2>2, <2>3 DEF Graph, UniqueEdges
    <2>7. Grows
      BY <2>1, <2>3 DEF Grows, Tables
    <2>  QED  BY <2>4, <2>5, <2>6, <2>7 DEF Keeps, Graph
  <1>8. ASSUME NEW e \in Ids, Abstract!DropEdge(e) PROVE Keeps
    <2>1. /\ DOMAIN edge' = DOMAIN edge \ {e} /\ \A x \in DOMAIN edge' : edge'[x] = edge[x]
          /\ UNCHANGED <<workflow, state, seq>>
      BY <1>8 DEF Abstract!DropEdge, Abstract!Removed
    <2>2. IdsGiven' /\ Grows
      BY <2>1 DEF IdsGiven, Grows
    <2>3. Graph'
      BY <2>1 DEF Graph, ReferencesExist, EdgeWithinWorkflow, UniqueEdges
    <2>  QED  BY <2>2, <2>3 DEF Keeps
  <1>9. ASSUME Abstract!UseState PROVE Keeps
    <2>1. UNCHANGED <<workflow, state, edge, seq>>
      BY <1>9 DEF Abstract!UseState
    <2>  QED  BY <2>1 DEF Keeps, IdsGiven, Graph, Grows, ReferencesExist, EdgeWithinWorkflow, UniqueEdges
  <1>  QED  BY <1>1, <1>2, <1>3, <1>4, <1>5, <1>6, <1>7, <1>8, <1>9 DEF Abstract!Next

LEMMA StutterKeeps ==
    ASSUME TableTypes, IdsGiven, Graph, UNCHANGED Abstract!vars
    PROVE  Keeps
  BY TableFacts DEF Abstract!vars, Keeps, IdsGiven, Graph, Grows, ReferencesExist, EdgeWithinWorkflow, UniqueEdges

-----------------------------------------------------------------------------
(* What one thread has read or deleted, through the steps of all            *)

Ends(t) == \E code \in Codes \ {204}, id \in 0 .. MaxId : Answer(t, code, id)
Deletes(t) == RemoveWorkflow(t) \/ RemoveState(t) \/ RemoveEdge(t)
Validates(t) == FindBegin(t) \/ FindEnd(t) \/ Exists(t)
GoesOn(t) ==
    \E call \in Calls :
        /\ Goto(t, call)
        /\ call \in {"findEnd", "exists"} \/ (call = "insert" /\ req[t].op = "createEdge") => Validates(t)

LEMMA RefuseEnds ==
    ASSUME NEW t \in Threads, Refuse(t) \/ Throw(t) \/ Conflict(t)
    PROVE  Ends(t)
  <1>1. /\ Refusal(req[t].op) \in Codes \ {204} /\ Thrown(req[t].op) \in Codes \ {204}
        /\ 409 \in Codes \ {204} /\ 0 \in 0 .. MaxId
    BY MaxIdAssumption DEF Refusal, Thrown, Codes
  <1>  QED  BY <1>1 DEF Refuse, Throw, Conflict, Ends

LEMMA StepKinds ==
    ASSUME NEW t \in Threads, TableTypes, ThreadTypes, Pending, Step(t), ~Respond(t)
    PROVE  Ends(t) \/ Deletes(t) \/ GoesOn(t)
  <1> USE RefuseEnds
  <1>1. CASE WorkflowStep(t)
    <2>1. CASE FindWorkflow(t)
      <3>1. AfterFindWorkflow(t) \in Calls \ {"findEnd", "exists"}
            /\ (AfterFindWorkflow(t) = "insert" => req[t].op = "createState")
        BY <2>1 DEF AfterFindWorkflow, Calls, FindWorkflow, Pending, CallOf
      <3>  QED  BY <2>1, <3>1 DEF FindWorkflow, Continue, GoesOn
    <2>2. CASE ExistsByCaption(t)
      BY <2>2 DEF ExistsByCaption, Continue, GoesOn, Calls
    <2>3. CASE InsertWorkflow(t)
      BY <2>3 DEF InsertWorkflow, Inserted, Continue, GoesOn, Calls
    <2>4. CASE UpdateWorkflow(t)
      BY <2>4 DEF UpdateWorkflow, Updated, GoesOn, Calls
    <2>5. CASE FindByWorkflowId(t)
      BY <2>5 DEF FindByWorkflowId, GoesOn, Calls
    <2>6. CASE IsAnyUsed(t)
      BY <2>6 DEF IsAnyUsed, GoesOn, Calls
    <2>  QED  BY <1>1, <2>1, <2>2, <2>3, <2>4, <2>5, <2>6 DEF WorkflowStep, Deletes
  <1>2. CASE StateStep(t)
    <2>1. CASE FindState(t)
      BY <2>1 DEF FindState, AfterFindState, Continue, GoesOn, Calls
    <2>2. CASE IsUsed(t)
      BY <2>2 DEF IsUsed, Continue, GoesOn, Calls
    <2>3. CASE InsertState(t)
      BY <2>3 DEF InsertState, Inserted, Continue, GoesOn, Calls
    <2>4. CASE UpdateState(t)
      BY <2>4 DEF UpdateState, Updated, GoesOn, Calls
    <2>5. CASE FindByStateId(t)
      BY <2>5 DEF FindByStateId, Continue, GoesOn, Calls
    <2>  QED  BY <1>2, <2>1, <2>2, <2>3, <2>4, <2>5 DEF StateStep, Deletes
  <1>3. CASE EdgeStep(t)
    <2>1. CASE FindBegin(t)
      BY <2>1 DEF FindBegin, GoesOn, Validates, Calls
    <2>2. CASE FindEnd(t)
      BY <2>2 DEF FindEnd, Continue, GoesOn, Validates, Calls
    <2>3. CASE Exists(t)
      BY <2>3 DEF Exists, Continue, GoesOn, Validates, Calls
    <2>4. CASE InsertEdge(t)
      BY <2>4 DEF InsertEdge, Inserted, Continue, GoesOn, Calls
    <2>5. CASE FindEdge(t)
      BY <2>5 DEF FindEdge, Continue, GoesOn, Calls
    <2>  QED  BY <1>3, <2>1, <2>2, <2>3, <2>4, <2>5 DEF EdgeStep, Deletes
  <1>4. CASE LastInsertId(t)
    BY <1>4 DEF LastInsertId, GoesOn, Calls
  <1>5. CASE Reload(t)
    <2>1. loc[t].newId \in 0 .. MaxId /\ 200 \in Codes \ {204} /\ 201 \in Codes \ {204}
      BY DEF ThreadTypes, Locals, Codes
    <2>2. \/ Refuse(t) \/ Throw(t)
          \/ Answer(t, 200, loc[t].newId) \/ Answer(t, 201, loc[t].newId)
      BY <1>5 DEF Reload
    <2>  QED  BY <2>1, <2>2 DEF Ends
  <1>6. CASE RemoveFails(t) \/ CallFails(t)
    BY <1>6, MaxIdAssumption DEF RemoveFails, CallFails, Ends, Codes
  <1>  QED  BY <1>1, <1>2, <1>3, <1>4, <1>5, <1>6 DEF Step

LEMMA StillInKept ==
    ASSUME NEW i \in Int, NEW w, TableTypes, TableTypes', Grows, StillIn(i, w)
    PROVE  StillIn(i, w)'
  <1>1. seq["state"] \in Int /\ seq'["state"] \in Int /\ seq["state"] <= seq'["state"]
    BY MaxIdAssumption DEF TableTypes, Grows, Tables
  <1>  QED  BY <1>1 DEF StillIn, Grows

(* Threads that do not step keep what they know.                            *)
LEMMA OthersKeep ==
    ASSUME NEW u \in Threads, TableTypes, TableTypes', ThreadTypes, Pending, Grows,
           pc'[u] = pc[u], req'[u] = req[u], loc'[u] = loc[u], reply'[u] = reply[u],
           Checked(u), Deleted(u)
    PROVE  Checked(u)' /\ Deleted(u)'
  <1>1. pc[u] # "idle" => req[u].id \in Int /\ req[u].end \in Int
    BY RequestFields, TableFacts DEF Pending
  <1>2. Checked(u)'
    BY <1>1, StillInKept DEF Checked, BeginChecked, EndChecked
  <1>3. \A table \in Tables : seq[table] \in Int /\ seq'[table] \in Int /\ seq[table] <= seq'[table]
    BY MaxIdAssumption DEF TableTypes, Grows
  <1>4. Deleted(u)'
    BY <1>1, <1>3 DEF Deleted, Gone, Grows, Tables
  <1>  QED  BY <1>2, <1>4

LEMMA EndsKeeps ==
    ASSUME NEW t \in Threads, ThreadTypes, Ends(t)
    PROVE  Checked(t)' /\ Deleted(t)'
  <1>1. pc'[t] = "answer" /\ reply'[t].code # 204
    BY DEF Ends, Answer, ThreadTypes
  <1>  QED  BY <1>1 DEF Checked, BeginChecked, EndChecked, Deleted

LEMMA DeletesKeeps ==
    ASSUME NEW t \in Threads, TableTypes, ThreadTypes, Pending, IdsGiven, Deletes(t)
    PROVE  Checked(t)' /\ Deleted(t)'
  <1>1. pc'[t] = "answer" /\ req' = req
    BY DEF Deletes, RemoveWorkflow, RemoveState, RemoveEdge, Answer, ThreadTypes
  <1>2. CASE RemoveWorkflow(t)
    <2>1. DOMAIN workflow' = DOMAIN workflow \ {req[t].id} /\ req[t].id \in DOMAIN workflow /\ seq' = seq
      BY <1>2, RemovedTable DEF RemoveWorkflow, Abstract!Removed
    <2>2. Gone(req[t].id, "workflow", workflow)' /\ req[t].op = "deleteWorkflow"
      BY <1>1, <1>2, <2>1 DEF Gone, IdsGiven, RemoveWorkflow
    <2>  QED  BY <1>1, <2>2 DEF Checked, BeginChecked, EndChecked, Deleted, Gone
  <1>3. CASE RemoveState(t)
    <2>1. DOMAIN state' = DOMAIN state \ {req[t].id} /\ req[t].id \in DOMAIN state /\ seq' = seq
      BY <1>3, RemovedTable DEF RemoveState, DropStates, Abstract!Removed
    <2>2. Gone(req[t].id, "state", state)' /\ req[t].op = "deleteState"
      BY <1>1, <1>3, <2>1 DEF Gone, IdsGiven, RemoveState
    <2>  QED  BY <1>1, <2>2 DEF Checked, BeginChecked, EndChecked, Deleted, Gone
  <1>4. CASE RemoveEdge(t)
    <2>1. DOMAIN edge' = DOMAIN edge \ {req[t].id} /\ req[t].id \in DOMAIN edge /\ seq' = seq
      BY <1>4, RemovedTable DEF RemoveEdge, Abstract!Removed
    <2>2. Gone(req[t].id, "edge", edge)' /\ req[t].op = "deleteEdge"
      BY <1>1, <1>4, <2>1 DEF Gone, IdsGiven, RemoveEdge
    <2>  QED  BY <1>1, <2>2 DEF Checked, BeginChecked, EndChecked, Deleted, Gone
  <1>  QED  BY <1>2, <1>3, <1>4 DEF Deletes

(* A validating step that goes on has read what Checked says.               *)
LEMMA ValidatesKeeps ==
    ASSUME NEW t \in Threads, TableTypes, ThreadTypes, Pending, IdsGiven, ChecksHold,
           Validates(t), pc'[t] # "answer"
    PROVE  Checked(t)'
  <1>0. ~Refuse(t) /\ ~Throw(t)
    BY DEF Refuse, Throw, Answer, ThreadTypes
  <1>1. CASE FindBegin(t)
    <2>1. /\ req[t].id \in DOMAIN state /\ UNCHANGED storeVars /\ Goto(t, "findEnd")
          /\ loc' = [loc EXCEPT ![t].workflow = state[req[t].id].workflow,
                                ![t].isArchive = state[req[t].id].isArchive]
      BY <1>0, <1>1 DEF FindBegin
    <2>2. loc'[t].workflow = state[req[t].id].workflow
      BY <2>1 DEF ThreadTypes, Locals
    <2>3. pc'[t] = "findEnd" /\ req' = req /\ state' = state /\ seq' = seq
      BY <2>1 DEF Goto, ThreadTypes, storeVars
    <2>  QED  BY <2>1, <2>2, <2>3 DEF Checked, BeginChecked, EndChecked, StillIn, IdsGiven
  <1>2. CASE FindEnd(t)
    <2>1. /\ req[t].end \in DOMAIN state /\ UNCHANGED storeVars /\ Goto(t, "exists") /\ loc' = loc
          /\ loc[t].workflow = state[req[t].end].workflow /\ pc[t] = "findEnd"
      BY <1>0, <1>2 DEF FindEnd, Continue, ValidEdge
    <2>2. StillIn(req[t].id, loc[t].workflow)
      BY <2>1 DEF ChecksHold, Checked, BeginChecked
    <2>3. StillIn(req[t].end, loc[t].workflow)
      BY <2>1 DEF StillIn, IdsGiven
    <2>4. req' = req /\ state' = state /\ seq' = seq
      BY <2>1 DEF Goto, storeVars
    <2>  QED  BY <2>1, <2>2, <2>3, <2>4 DEF Checked, StillIn
  <1>3. CASE Exists(t)
    <2>1. UNCHANGED storeVars /\ Goto(t, "insert") /\ loc' = loc /\ pc[t] = "exists"
      BY <1>0, <1>3 DEF Exists, Continue
    <2>2. StillIn(req[t].id, loc[t].workflow) /\ StillIn(req[t].end, loc[t].workflow)
      BY <2>1 DEF ChecksHold, Checked, BeginChecked, EndChecked
    <2>3. req' = req /\ state' = state /\ seq' = seq
      BY <2>1 DEF Goto, storeVars
    <2>  QED  BY <2>1, <2>2, <2>3 DEF Checked, StillIn
  <1>  QED  BY <1>1, <1>2, <1>3 DEF Validates

LEMMA GoesOnKeeps ==
    ASSUME NEW t \in Threads, TableTypes, ThreadTypes, Pending, IdsGiven, ChecksHold, DeletesHold,
           pc[t] \in Calls, GoesOn(t)
    PROVE  Checked(t)' /\ Deleted(t)'
  <1>0. PICK call \in Calls :
            /\ Goto(t, call)
            /\ call \in {"findEnd", "exists"} \/ (call = "insert" /\ req[t].op = "createEdge") => Validates(t)
    BY DEF GoesOn
  <1>1. pc'[t] = call /\ req' = req /\ reply' = reply /\ call # "answer"
    BY <1>0 DEF Goto, ThreadTypes, Calls
  <1>2. Deleted(t)'
    <2>1. reply[t].code # 204
      BY DEF DeletesHold, Deleted, Calls
    <2>  QED  BY <1>1, <2>1 DEF Deleted
  <1>3. CASE Validates(t)
    BY <1>1, <1>2, <1>3, ValidatesKeeps
  <1>4. CASE ~Validates(t)
    BY <1>0, <1>1, <1>2, <1>4 DEF Checked, BeginChecked, EndChecked
  <1>  QED  BY <1>3, <1>4

(* A step of t leaves the other threads where they are.                     *)
LEMMA OthersStay ==
    ASSUME NEW t \in Threads, NEW u \in Threads \ {t}, ThreadTypes,
           Ends(t) \/ Deletes(t) \/ Respond(t) \/ (\E r \in Requests : Receive(t, r)) \/ Moves(t)
    PROVE  pc'[u] = pc[u] /\ req'[u] = req[u] /\ reply'[u] = reply[u]
  <1>1. CASE Ends(t) \/ Deletes(t)
    BY <1>1 DEF Ends, Deletes, RemoveWorkflow, RemoveState, RemoveEdge, Answer, ThreadTypes
  <1>2. CASE Respond(t)
    BY <1>2 DEF Respond, ThreadTypes
  <1>3. CASE \E r \in Requests : Receive(t, r)
    BY <1>3 DEF Receive, ThreadTypes
  <1>4. CASE Moves(t)
    BY <1>4 DEF Moves, Answer, Goto, ThreadTypes
  <1>  QED  BY <1>1, <1>2, <1>3, <1>4

LEMMA LocalsStay ==
    ASSUME NEW t \in Threads, NEW u \in Threads \ {t}, ThreadTypes, Step(t)
    PROVE  loc'[u] = loc[u]
  <1>0. ASSUME NEW l, loc' = [loc EXCEPT ![t] = l] PROVE loc'[u] = loc[u]
    BY <1>0 DEF ThreadTypes
  <1>1. ASSUME Refuse(t) \/ Throw(t) \/ Conflict(t) \/ loc' = loc PROVE loc'[u] = loc[u]
    BY <1>1, <1>0 DEF Refuse, Throw, Conflict, Answer
  <1> USE <1>0, <1>1
  <1>2. CASE WorkflowStep(t)
    <2>1. CASE FindWorkflow(t) \/ ExistsByCaption(t)
      BY <2>1 DEF FindWorkflow, ExistsByCaption, Continue
    <2>2. CASE InsertWorkflow(t) \/ UpdateWorkflow(t)
      BY <2>2 DEF InsertWorkflow, UpdateWorkflow, Inserted, Updated, Continue
    <2>3. CASE FindByWorkflowId(t)
      BY <2>3 DEF FindByWorkflowId
    <2>4. CASE IsAnyUsed(t)
      BY <2>4 DEF IsAnyUsed
    <2>5. CASE RemoveWorkflow(t)
      BY <2>5 DEF RemoveWorkflow, Answer
    <2>  QED  BY <1>2, <2>1, <2>2, <2>3, <2>4, <2>5 DEF WorkflowStep
  <1>3. CASE StateStep(t)
    <2>1. CASE FindState(t) \/ FindByStateId(t)
      BY <2>1 DEF FindState, FindByStateId, Continue
    <2>2. CASE IsUsed(t)
      BY <2>2 DEF IsUsed, Continue
    <2>3. CASE InsertState(t) \/ UpdateState(t)
      BY <2>3 DEF InsertState, UpdateState, Inserted, Updated, Continue
    <2>4. CASE RemoveState(t)
      BY <2>4 DEF RemoveState, Answer
    <2>  QED  BY <1>3, <2>1, <2>2, <2>3, <2>4 DEF StateStep
  <1>4. CASE EdgeStep(t)
    <2>1. CASE FindBegin(t)
      BY <2>1 DEF FindBegin, ThreadTypes
    <2>2. CASE FindEnd(t) \/ Exists(t) \/ FindEdge(t)
      BY <2>2 DEF FindEnd, Exists, FindEdge, Continue
    <2>3. CASE InsertEdge(t)
      BY <2>3 DEF InsertEdge, Inserted, Continue
    <2>4. CASE RemoveEdge(t)
      BY <2>4 DEF RemoveEdge, Answer
    <2>  QED  BY <1>4, <2>1, <2>2, <2>3, <2>4 DEF EdgeStep
  <1>5. CASE LastInsertId(t)
    BY <1>5 DEF LastInsertId
  <1>6. CASE Reload(t)
    BY <1>6 DEF Reload, Answer
  <1>7. CASE RemoveFails(t) \/ CallFails(t) \/ Respond(t)
    BY <1>7 DEF RemoveFails, CallFails, Respond, Answer
  <1>  QED  BY <1>2, <1>3, <1>4, <1>5, <1>6, <1>7 DEF Step

LEMMA KnowledgeStep ==
    ASSUME TableTypes, TableTypes', ThreadTypes, Pending, IdsGiven, ChecksHold, DeletesHold, Grows,
           [Next]_vars
    PROVE  ChecksHold' /\ DeletesHold'
  <1>1. ASSUME NEW t \in Threads, NEW u \in Threads, Step(t) PROVE Checked(u)' /\ Deleted(u)'
    <2>1. CASE u # t
      <3>1. pc'[u] = pc[u] /\ req'[u] = req[u] /\ reply'[u] = reply[u]
        BY <1>1, <2>1, OthersStay, StepMoves
      <3>2. loc'[u] = loc[u]
        BY <1>1, <2>1, LocalsStay
      <3>  QED  BY <3>1, <3>2, OthersKeep DEF ChecksHold, DeletesHold
    <2>2. CASE u = t /\ Respond(t)
      <3>1. pc'[t] = "idle" /\ reply'[t].code = 0
        BY <2>2 DEF Respond, ThreadTypes, NoReply
      <3>  QED  BY <2>2, <3>1 DEF Checked, BeginChecked, EndChecked, Deleted
    <2>3. CASE u = t /\ ~Respond(t)
      <3>1. pc[t] \in Calls
        BY <1>1, <2>3, StepMoves DEF Moves
      <3>  QED  BY <1>1, <2>3, <3>1, StepKinds, EndsKeeps, DeletesKeeps, GoesOnKeeps
    <2>  QED  BY <2>1, <2>2, <2>3
  <1>2. ASSUME NEW t \in Threads, NEW u \in Threads, NEW r \in Requests, Receive(t, r)
        PROVE  Checked(u)' /\ Deleted(u)'
    <2>1. CASE u # t
      <3>1. pc'[u] = pc[u] /\ req'[u] = req[u] /\ reply'[u] = reply[u]
        BY <1>2, <2>1, OthersStay
      <3>  QED  BY <1>2, <3>1, OthersKeep DEF Receive, ChecksHold, DeletesHold
    <2>2. CASE u = t
      <3>1. r.op \in Ops
        BY RequestFields
      <3>2. pc'[t] \notin {"findEnd", "exists"} /\ (pc'[t] = "insert" => req'[t].op # "createEdge")
        <4>1. pc'[t] \in {"answer", FirstCall[r.op]}
          BY <1>2 DEF Receive, ThreadTypes
        <4>2. FirstCall[r.op] \notin {"findEnd", "exists", "insert"}
          BY <3>1 DEF FirstCall, Ops, CreateOps, UpdateOps, DeleteOps
        <4>  QED  BY <4>1, <4>2
      <3>3. reply[t].code # 204
        BY <1>2 DEF Receive, DeletesHold, Deleted
      <3>4. reply'[t].code # 204
        BY <1>2, <3>3 DEF Receive, ThreadTypes
      <3>  QED  BY <2>2, <3>2, <3>4 DEF Checked, BeginChecked, EndChecked, Deleted
    <2>  QED  BY <2>1, <2>2
  <1>3. ASSUME NEW u \in Threads, threadVars' = threadVars PROVE Checked(u)' /\ Deleted(u)'
    BY <1>3, OthersKeep DEF threadVars, ChecksHold, DeletesHold
  <1>4. ASSUME NEW s \in Ids, PlaceItem(s) PROVE threadVars' = threadVars
    BY <1>4 DEF PlaceItem
  <1>5. CASE UNCHANGED vars
    BY <1>3, <1>5 DEF vars, ChecksHold, DeletesHold
  <1>  QED  BY <1>1, <1>2, <1>3, <1>4, <1>5 DEF Next, ChecksHold, DeletesHold

-----------------------------------------------------------------------------
(* The theorems                                                             *)

LEMMA InitInv == Init => IInv
  <1> SUFFICES ASSUME Init PROVE IInv
    OBVIOUS
  <1>1. TableTypes
    BY SeedAssumption, MaxIdAssumption DEF Init, TableTypes, Tables
  <1>2. ThreadTypes /\ Pending
    <2>1. NoReply \in [code : Codes, id : 0 .. MaxId]
      BY MaxIdAssumption DEF NoReply, Codes
    <2>  QED  BY <2>1, NoLocalsType DEF Init, ThreadTypes, Pending, CallOf, Calls
  <1>3. IdsGiven /\ Graph
    BY SeedAssumption DEF Init, IdsGiven, Graph, ReferencesExist, EdgeWithinWorkflow, UniqueEdges
  <1>4. ChecksHold /\ DeletesHold
    BY DEF Init, ChecksHold, DeletesHold, Checked, BeginChecked, EndChecked, Deleted, NoReply
  <1>  QED  BY <1>1, <1>2, <1>3, <1>4 DEF IInv

LEMMA StepInv == IInv /\ [Next]_vars => IInv'
  <1> SUFFICES ASSUME IInv, [Next]_vars PROVE IInv'
    OBVIOUS
  <1>1. TableTypes' /\ ThreadTypes' /\ Pending'
    BY TableTypesStep, ThreadTypesStep DEF IInv
  <1>2. Keeps
    BY StepRefines, AbstractKeeps, StutterKeeps DEF IInv
  <1>3. ChecksHold' /\ DeletesHold'
    BY <1>1, <1>2, KnowledgeStep DEF IInv, Keeps
  <1>  QED  BY <1>1, <1>2, <1>3 DEF IInv, Keeps

THEOREM Inductive == Spec => []IInv
  BY InitInv, StepInv, PTL DEF Spec

(* Types: rows, threads and their locals keep theirs through every request. *)
THEOREM TypeCorrect == Spec => []TypeOK
  <1>1. IInv => TypeOK
    BY DEF IInv, TableTypes, ThreadTypes, TypeOK
  <1>  QED  BY <1>1, Inductive, PTL

(* However requests interleave and fail, states and edges point at rows of  *)
(* the tables: what the FOREIGN KEYs and ON DELETE CASCADE are for.         *)
THEOREM NothingDangles == Spec => []ReferencesExist
  <1>1. IInv => ReferencesExist
    BY DEF IInv, Graph
  <1>  QED  BY <1>1, Inductive, PTL

(* validateEdge() needs no transaction to keep edges within one workflow:   *)
(* no UPDATE moves a state and AUTOINCREMENT never reuses an identifier.    *)
THEOREM EdgesStayWithin == Spec => []EdgeWithinWorkflow
  <1>1. IInv => EdgeWithinWorkflow
    BY DEF IInv, Graph
  <1>  QED  BY <1>1, Inductive, PTL

(* Two requests that both found exists() false create one edge, not two.    *)
THEOREM EdgesDiffer == Spec => []UniqueEdges
  <1>1. IInv => UniqueEdges
    BY DEF IInv, Graph
  <1>  QED  BY <1>1, Inductive, PTL

(* A 204 tells the truth until it is sent, whoever inserts meanwhile.       *)
THEOREM DeletedGone == Spec => []DeletedStaysDeleted
  <1>1. IInv => DeletedStaysDeleted
    BY DEF IInv, DeletesHold, Deleted, Gone, DeletedStaysDeleted
  <1>  QED  BY <1>1, Inductive, PTL

(* The chains of statements of the three services implement WorkflowGraph.  *)
THEOREM Implementation == Spec => ImplementsWorkflowGraph
  <1>1. Init => Abstract!Init
    BY DEF Init, Abstract!Init
  <1>2. IInv /\ [Next]_vars => [Abstract!Next]_(Abstract!vars)
    BY StepRefines DEF IInv
  <1>  QED  BY <1>1, <1>2, Inductive, PTL DEF Spec, ImplementsWorkflowGraph, Abstract!Spec

-----------------------------------------------------------------------------
(* One client at a time: the checks of a request see what it writes.       *)

(* One request at a time.                                                   *)
Alone == \A t, u \in Threads : t = u

(* What canDeleteState() has found so far of the state still holds.         *)
DeleteChecked(t) ==
    req[t].op = "deleteState" =>
        /\ pc[t] \in {"findByStateId", "remove"} => req[t].id \notin used
        /\ pc[t] = "remove" => EdgesAt({req[t].id}) = {}

(* The row a create has inserted is there with its caption, under the last  *)
(* identifier of its table.                                                 *)
Stored(r, id) ==
    /\ r.op = "createWorkflow" => id = seq["workflow"] /\ id \in DOMAIN workflow /\ workflow[id] = r.caption
    /\ r.op = "createState"    => id = seq["state"] /\ id \in DOMAIN state /\ state[id].caption = r.caption
    /\ r.op = "createEdge"     => id = seq["edge"] /\ id \in DOMAIN edge

InsertKept(t) ==
    /\ pc[t] = "lastInsertId" => Stored(req[t], last)
    /\ pc[t] = "reload" => Stored(req[t], loc[t].newId)

(* The steps that take a thread to the calls these two speak of.            *)
Reaches(t) ==
    /\ pc'[t] = "findByStateId" => IsUsed(t)
    /\ pc'[t] = "remove" /\ req[t].op = "deleteState" => FindByStateId(t)
    /\ pc'[t] = "lastInsertId" => InsertWorkflow(t) \/ InsertState(t) \/ InsertEdge(t)
    /\ pc'[t] = "reload" /\ req[t].op \in CreateOps => LastInsertId(t)

LEMMA EndsReaches ==
    ASSUME NEW t \in Threads, ThreadTypes, Ends(t) \/ Deletes(t) \/ Refuse(t) \/ Throw(t) \/ Conflict(t)
    PROVE  Reaches(t)
  <1>1. pc'[t] = "answer"
    BY DEF Ends, Deletes, RemoveWorkflow, RemoveState, RemoveEdge, Refuse, Throw, Conflict, Answer, ThreadTypes
  <1>  QED  BY <1>1 DEF Reaches

LEMMA StepReaches ==
    ASSUME NEW t \in Threads, TableTypes, ThreadTypes, Pending, Step(t)
    PROVE  Reaches(t)
  <1> USE EndsReaches
  <1>0. ASSUME NEW call, Goto(t, call) PROVE pc'[t] = call
    BY <1>0 DEF Goto, ThreadTypes
  <1>1. CASE WorkflowStep(t)
    <2>1. CASE FindWorkflow(t)
      <3>1. AfterFindWorkflow(t) \in {"insert", "findByWorkflowId", "update", "existsByCaption"}
        BY <2>1 DEF AfterFindWorkflow, FindWorkflow, Pending, CallOf
      <3>  QED  BY <1>0, <2>1, <3>1 DEF FindWorkflow, Continue, Reaches
    <2>2. CASE ExistsByCaption(t)
      BY <1>0, <2>2 DEF ExistsByCaption, Continue, Reaches
    <2>3. CASE InsertWorkflow(t)
      BY <1>0, <2>3 DEF InsertWorkflow, Inserted, Continue, Reaches
    <2>4. CASE UpdateWorkflow(t)
      BY <1>0, <2>4 DEF UpdateWorkflow, Updated, Reaches, CreateOps
    <2>5. CASE FindByWorkflowId(t)
      <3>1. req[t].op = "deleteWorkflow"
        BY <2>5 DEF FindByWorkflowId, Pending, CallOf
      <3>  QED  BY <1>0, <2>5, <3>1 DEF FindByWorkflowId, Reaches
    <2>6. CASE IsAnyUsed(t)
      BY <1>0, <2>6 DEF IsAnyUsed, Reaches
    <2>7. CASE RemoveWorkflow(t)
      BY <2>7 DEF Deletes
    <2>  QED  BY <1>1, <2>1, <2>2, <2>3, <2>4, <2>5, <2>6, <2>7 DEF WorkflowStep
  <1>2. CASE StateStep(t)
    <2>1. CASE FindState(t)
      BY <1>0, <2>1 DEF FindState, AfterFindState, Continue, Reaches
    <2>2. CASE IsUsed(t)
      BY <1>0, <2>2 DEF IsUsed, Continue, Reaches
    <2>3. CASE InsertState(t)
      BY <1>0, <2>3 DEF InsertState, Inserted, Continue, Reaches
    <2>4. CASE UpdateState(t)
      BY <1>0, <2>4 DEF UpdateState, Updated, Reaches, CreateOps
    <2>5. CASE FindByStateId(t)
      BY <1>0, <2>5 DEF FindByStateId, Continue, Reaches
    <2>6. CASE RemoveState(t)
      BY <2>6 DEF Deletes
    <2>  QED  BY <1>2, <2>1, <2>2, <2>3, <2>4, <2>5, <2>6 DEF StateStep
  <1>3. CASE EdgeStep(t)
    <2>1. CASE FindBegin(t)
      BY <1>0, <2>1 DEF FindBegin, Reaches
    <2>2. CASE FindEnd(t)
      BY <1>0, <2>2 DEF FindEnd, Continue, Reaches
    <2>3. CASE Exists(t)
      BY <1>0, <2>3 DEF Exists, Continue, Reaches
    <2>4. CASE InsertEdge(t)
      BY <1>0, <2>4 DEF InsertEdge, Inserted, Continue, Reaches
    <2>5. CASE FindEdge(t)
      <3>1. req[t].op = "deleteEdge"
        BY <2>5 DEF FindEdge, Pending, CallOf
      <3>  QED  BY <1>0, <2>5, <3>1 DEF FindEdge, Continue, Reaches
    <2>6. CASE RemoveEdge(t)
      BY <2>6 DEF Deletes
    <2>  QED  BY <1>3, <2>1, <2>2, <2>3, <2>4, <2>5, <2>6 DEF EdgeStep
  <1>4. CASE LastInsertId(t)
    BY <1>0, <1>4 DEF LastInsertId, Reaches
  <1>5. CASE Reload(t)
    <2>1. pc'[t] = "answer"
      BY <1>5 DEF Reload, Refuse, Throw, Answer, ThreadTypes
    <2>  QED  BY <2>1 DEF Reaches
  <1>6. CASE RemoveFails(t) \/ CallFails(t) \/ Respond(t)
    <2>1. pc'[t] \in {"answer", "idle"}
      BY <1>6 DEF RemoveFails, CallFails, Respond, Throw, Answer, ThreadTypes
    <2>  QED  BY <2>1 DEF Reaches
  <1>  QED  BY <1>1, <1>2, <1>3, <1>4, <1>5, <1>6 DEF Step

(* A step keeps the request it serves until it responds.                    *)
LEMMA StepRequest ==
    ASSUME NEW t \in Threads, TableTypes, ThreadTypes, Pending, Step(t), ~Respond(t)
    PROVE  req' = req
  BY StepMoves DEF Moves, Answer, Goto

LEMMA InsertsStored ==
    ASSUME NEW t \in Threads, TableTypes, ThreadTypes, Pending,
           InsertWorkflow(t) \/ InsertState(t) \/ InsertEdge(t), pc'[t] = "lastInsertId"
    PROVE  Stored(req[t], last)'
  <1>0. ~Throw(t)
    BY DEF Throw, Answer, ThreadTypes
  <1>1. \A table \in Tables, id \in Ids : seq' = [seq EXCEPT ![table] = id] => seq'[table] = id
    BY DEF TableTypes
  <1>2. CASE InsertWorkflow(t)
    <2>1. PICK id \in Ids : workflow' = Put(workflow, id, req[t].caption) /\ last' = id /\ req' = req
                             /\ seq' = [seq EXCEPT !["workflow"] = id]
      BY <1>0, <1>2 DEF InsertWorkflow, Inserted, Continue, Goto
    <2>2. id \in DOMAIN workflow' /\ workflow'[id] = req[t].caption
      BY <2>1 DEF Put
    <2>3. req[t].op = "createWorkflow"
      BY <1>2 DEF InsertWorkflow
    <2>  QED  BY <1>1, <2>1, <2>2, <2>3 DEF Stored, Tables
  <1>3. CASE InsertState(t)
    <2> DEFINE row == [workflow  |-> req[t].id,
                       caption   |-> req[t].caption,
                       weight    |-> WithDefault(req[t].weight, 0),
                       isArchive |-> WithDefault(req[t].isArchive, FALSE)]
    <2>1. PICK id \in Ids : state' = Put(state, id, row) /\ last' = id /\ req' = req
                             /\ seq' = [seq EXCEPT !["state"] = id]
      BY <1>0, <1>3 DEF InsertState, Inserted, Continue, Goto
    <2>2. id \in DOMAIN state' /\ state'[id] = row
      BY <2>1 DEF Put
    <2>3. req[t].op = "createState" /\ row.caption = req[t].caption
      BY <1>3 DEF InsertState
    <2> HIDE DEF row
    <2>  QED  BY <1>1, <2>1, <2>2, <2>3 DEF Stored, Tables
  <1>4. CASE InsertEdge(t)
    <2>1. PICK id \in Ids : edge' = Put(edge, id, EdgeOf(req[t])) /\ last' = id /\ req' = req
                             /\ seq' = [seq EXCEPT !["edge"] = id]
      BY <1>0, <1>4 DEF InsertEdge, Inserted, Continue, Goto
    <2>2. id \in DOMAIN edge'
      BY <2>1 DEF Put
    <2>3. req[t].op = "createEdge"
      BY <1>4 DEF InsertEdge
    <2>  QED  BY <1>1, <2>1, <2>2, <2>3 DEF Stored, Tables
  <1>  QED  BY <1>2, <1>3, <1>4

LEMMA InsertKeptStep ==
    ASSUME NEW t \in Threads, TableTypes, ThreadTypes, Pending,
           InsertKept(t), Step(t)
    PROVE  InsertKept(t)'
  <1>1. CASE pc'[t] = "lastInsertId"
    <2>1. InsertWorkflow(t) \/ InsertState(t) \/ InsertEdge(t)
      BY <1>1, StepReaches DEF Reaches
    <2>  QED  BY <1>1, <2>1, InsertsStored DEF InsertKept
  <1>2. CASE pc'[t] = "reload"
    <2>0. ~Respond(t)
      BY <1>2 DEF Respond, ThreadTypes
    <2>1. CASE req[t].op \in CreateOps
      <3>1. LastInsertId(t)
        BY <1>2, <2>1, StepReaches DEF Reaches
      <3>2. Stored(req[t], last)
        BY <3>1 DEF LastInsertId, InsertKept
      <3>3. UNCHANGED storeVars /\ req' = req /\ loc' = [loc EXCEPT ![t].newId = last]
        BY <3>1 DEF LastInsertId, Goto
      <3>4. loc'[t].newId = last
        BY <3>3 DEF ThreadTypes, Locals
      <3>  QED  BY <1>2, <3>2, <3>3, <3>4 DEF InsertKept, Stored, storeVars
    <2>2. CASE req[t].op \notin CreateOps
      <3>1. req' = req
        BY <2>0, StepRequest
      <3>  QED  BY <1>2, <2>2, <3>1 DEF InsertKept, Stored, CreateOps
    <2>  QED  BY <2>1, <2>2
  <1>3. CASE pc'[t] \notin {"lastInsertId", "reload"}
    BY <1>3 DEF InsertKept
  <1>  QED  BY <1>1, <1>2, <1>3

LEMMA DeleteCheckedStep ==
    ASSUME NEW t \in Threads, TableTypes, ThreadTypes, Pending, "isUsedByItems" \notin Failures,
           DeleteChecked(t), Step(t)
    PROVE  DeleteChecked(t)'
  <1>0. CASE pc'[t] \notin {"findByStateId", "remove"} \/ req'[t].op # "deleteState"
    BY <1>0 DEF DeleteChecked
  <1> SUFFICES ASSUME pc'[t] \in {"findByStateId", "remove"}, req'[t].op = "deleteState"
               PROVE  DeleteChecked(t)'
    BY <1>0
  <1>1. req' = req
    <2>1. ~Respond(t)
      BY DEF Respond, ThreadTypes
    <2>  QED  BY <2>1, StepRequest
  <1>2. CASE pc'[t] = "findByStateId"
    <2>1. IsUsed(t)
      BY <1>2, StepReaches DEF Reaches
    <2>2. ~Conflict(t) /\ ~Refuse(t)
      BY <1>2 DEF Conflict, Refuse, Answer, ThreadTypes
    <2>3. req[t].id \notin used /\ UNCHANGED storeVars
      BY <2>1, <2>2 DEF IsUsed, Answers
    <2>  QED  BY <1>1, <1>2, <2>3 DEF DeleteChecked, storeVars
  <1>3. CASE pc'[t] = "remove"
    <2>1. FindByStateId(t)
      BY <1>1, <1>3, StepReaches DEF Reaches
    <2>2. ~Conflict(t)
      BY <1>3 DEF Conflict, Answer, ThreadTypes
    <2>3. EdgesAt({req[t].id}) = {} /\ UNCHANGED storeVars /\ pc[t] = "findByStateId"
      BY <2>1, <2>2 DEF FindByStateId
    <2>4. req[t].id \notin used
      BY <1>1, <2>3 DEF DeleteChecked
    <2>  QED  BY <1>1, <2>3, <2>4 DEF DeleteChecked, EdgesAt, storeVars
  <1>  QED  BY <1>2, <1>3

LEMMA ReceiveChecked ==
    ASSUME NEW t \in Threads, NEW r \in Requests, ThreadTypes, Receive(t, r)
    PROVE  DeleteChecked(t)' /\ InsertKept(t)'
  <1>1. r.op \in Ops
    BY RequestFields
  <1>2. pc'[t] \in {"answer", FirstCall[r.op]}
    BY DEF Receive, ThreadTypes
  <1>3. FirstCall[r.op] \notin {"findByStateId", "remove", "lastInsertId", "reload"}
    BY <1>1 DEF FirstCall, Ops, CreateOps, UpdateOps, DeleteOps
  <1>  QED  BY <1>2, <1>3 DEF DeleteChecked, InsertKept

(* An item placed in a state touches no row a create has written.           *)
LEMMA PlaceKeeps ==
    ASSUME NEW t \in Threads, NEW s \in Ids, PlaceItem(s), InsertKept(t)
    PROVE  InsertKept(t)'
  BY DEF PlaceItem, threadVars, InsertKept, Stored

LEMMA DeleteCheckedInv ==
    ASSUME Alone, "isUsedByItems" \notin Failures, ~Placing
    PROVE  Spec => [](\A t \in Threads : DeleteChecked(t))
  <1>1. Init => \A t \in Threads : DeleteChecked(t)
    BY DEF Init, DeleteChecked
  <1>2. IInv /\ (\A t \in Threads : DeleteChecked(t)) /\ [Next]_vars => (\A t \in Threads : DeleteChecked(t))'
    <2> SUFFICES ASSUME IInv, \A t \in Threads : DeleteChecked(t), [Next]_vars, NEW t \in Threads
                 PROVE  DeleteChecked(t)'
      OBVIOUS
    <2>1. CASE Step(t)
      BY <2>1, DeleteCheckedStep DEF IInv
    <2>2. ASSUME NEW r \in Requests, Receive(t, r) PROVE DeleteChecked(t)'
      BY <2>2, ReceiveChecked DEF IInv
    <2>3. CASE UNCHANGED vars
      BY <2>3 DEF vars, storeVars, threadVars, DeleteChecked, EdgesAt
    <2>  QED  BY <2>1, <2>2, <2>3 DEF Next, Alone, PlaceItem
  <1>  QED  BY <1>1, <1>2, Inductive, PTL DEF Spec

LEMMA InsertKeptInv ==
    ASSUME Alone
    PROVE  Spec => [](\A t \in Threads : InsertKept(t))
  <1>1. Init => \A t \in Threads : InsertKept(t)
    BY DEF Init, InsertKept
  <1>2. IInv /\ (\A t \in Threads : InsertKept(t)) /\ [Next]_vars => (\A t \in Threads : InsertKept(t))'
    <2> SUFFICES ASSUME IInv, \A t \in Threads : InsertKept(t), [Next]_vars, NEW t \in Threads
                 PROVE  InsertKept(t)'
      OBVIOUS
    <2>1. CASE Step(t)
      BY <2>1, InsertKeptStep DEF IInv
    <2>2. ASSUME NEW r \in Requests, Receive(t, r) PROVE InsertKept(t)'
      BY <2>2, ReceiveChecked DEF IInv
    <2>3. ASSUME NEW s \in Ids, PlaceItem(s) PROVE InsertKept(t)'
      BY <2>3, PlaceKeeps
    <2>4. CASE UNCHANGED vars
      BY <2>4 DEF vars, storeVars, threadVars, InsertKept, Stored
    <2>  QED  BY <2>1, <2>2, <2>3, <2>4 DEF Next, Alone
  <1>  QED  BY <1>1, <1>2, Inductive, PTL DEF Spec

(* The step that makes an answer, with nobody else there.                   *)
LEMMA AnsweringStep ==
    ASSUME Alone, NEW t \in Threads, pc'[t] # pc[t], pc'[t] = "answer", [Next]_vars
    PROVE  Step(t) \/ \E r \in Requests : Receive(t, r)
  BY DEF Next, Alone, PlaceItem, vars, threadVars

(* One client at a time, deleteState() takes no edge and no item along: its *)
(* three statements see what the last one deletes, as long as               *)
(* isUsedByItems() does not fail and pass for "not used".                   *)
THEOREM SerialDeletesSpare ==
    ASSUME Alone, "isUsedByItems" \notin Failures, ~Placing
    PROVE  Spec => DeleteStateSparesOthers
  <1>1. ASSUME IInv, \A t \in Threads : DeleteChecked(t), [Next]_vars, NEW t \in Threads,
               req[t].op = "deleteState", pc'[t] = "answer", reply'[t].code = 204
        PROVE  edge' = edge /\ used' = used
    <2>0. req[t].op \notin CreateOps /\ req[t].op # "deleteWorkflow" /\ req[t].op # "deleteEdge"
      BY <1>1 DEF CreateOps
    <2>1. ASSUME NEW u \in Threads, Step(u) PROVE edge' = edge /\ used' = used
      <3>1. u = t
        BY DEF Alone
      <3>2. CASE RemoveState(t)
        <4>1. req[t].id \notin used /\ EdgesAt({req[t].id}) = {}
          BY <1>1, <3>2 DEF RemoveState, DeleteChecked
        <4>2. edge' = Remove(edge, {}) /\ used' = used \ {req[t].id}
          BY <3>2, <4>1 DEF RemoveState, DropStates
        <4>3. Remove(edge, {}) = edge
          BY <1>1 DEF Remove, Restrict, IInv, TableTypes, IsTable
        <4>  QED  BY <4>1, <4>2, <4>3
      <3>3. CASE ~RemoveState(t)
        BY <1>1, <2>0, <2>1, <3>1, <3>3, OthersRead
        DEF Writes, storeVars, InsertWorkflow, UpdateWorkflow, RemoveWorkflow, InsertState, UpdateState,
            InsertEdge, RemoveEdge, CreateOps
      <3>  QED  BY <3>2, <3>3
    <2>2. ASSUME NEW u \in Threads, NEW r \in Requests, Receive(u, r) PROVE edge' = edge /\ used' = used
      BY <2>2 DEF Receive, storeVars
    <2>3. CASE UNCHANGED vars
      BY <2>3 DEF vars, storeVars
    <2>  QED  BY <1>1, <2>1, <2>2, <2>3 DEF Next, PlaceItem
  <1>2. IInv /\ (\A t \in Threads : DeleteChecked(t)) /\ [Next]_vars
            => [\A t \in Threads :
                   (/\ "isUsedByItems" \notin Failures
                    /\ req[t].op = "deleteState" /\ pc'[t] = "answer" /\ reply'[t].code = 204)
                       => edge' = edge /\ used' = used]_vars
    BY <1>1
  <1>  QED  BY <1>2, DeleteCheckedInv, Inductive, PTL DEF Spec, DeleteStateSparesOthers

(* One client at a time, a create that has inserted its row is answered     *)
(* with that row, or, when its caption reads like a date, with an error and *)
(* the row stays: last_insert_rowid is its own. (With two it need not be.)  *)
THEOREM SerialInsertsAnswered ==
    ASSUME Alone, "reload" \notin Failures
    PROVE  Spec => InsertedIsAnswered
  <1> DEFINE Right(t) ==
        LET table == TableOf[req[t].op] IN
        /\ seq[table] \in Rows[table]
        /\ reply'[t] = IF req[t].op = "createEdge" \/ Readable(req[t].caption)
                       THEN [code |-> 201, id |-> seq[table]]
                       ELSE [code |-> 400, id |-> 0]
  <1>1. ASSUME IInv, \A t \in Threads : InsertKept(t), [Next]_vars, NEW t \in Threads,
               pc[t] = "reload", req[t].op \in CreateOps, pc'[t] = "answer"
        PROVE  Right(t)
    <2>1. Step(t)
      BY <1>1, AnsweringStep DEF Receive
    <2>2. Reload(t)
      <3>1. ~WorkflowStep(t) /\ ~StateStep(t) /\ ~EdgeStep(t)
        BY <1>1 DEF WorkflowStep, StateStep, EdgeStep, FindWorkflow, ExistsByCaption, InsertWorkflow,
                    UpdateWorkflow, FindByWorkflowId, IsAnyUsed, RemoveWorkflow, FindState, IsUsed,
                    InsertState, UpdateState, FindByStateId, RemoveState, FindBegin, FindEnd, Exists,
                    InsertEdge, FindEdge, RemoveEdge
      <3>  QED  BY <1>1, <2>1, <3>1 DEF Step, LastInsertId, RemoveFails, CallFails, Respond
    <2>3. Stored(req[t], loc[t].newId)
      BY <1>1 DEF InsertKept
    <2>4. ASSUME NEW code, NEW id, Answer(t, code, id)
          PROVE  reply'[t] = [code |-> code, id |-> id]
      BY <1>1, <2>4 DEF Answer, IInv, ThreadTypes
    <2>5. CASE req[t].op = "createWorkflow"
      <3>1. TableOf[req[t].op] = "workflow" /\ Rows["workflow"] = DOMAIN workflow
        BY <2>5 DEF TableOf, Rows
      <3>2. loc[t].newId = seq["workflow"] /\ loc[t].newId \in DOMAIN workflow
            /\ workflow[loc[t].newId] = req[t].caption
        BY <2>3, <2>5 DEF Stored
      <3>3. Readable(req[t].caption) => Answer(t, 201, loc[t].newId)
        BY <2>2, <2>5, <3>2 DEF Reload, CreateOps
      <3>4. ~Readable(req[t].caption) => Answer(t, 400, 0)
        BY <2>2, <2>5, <3>2 DEF Reload, Throw, Thrown, DeleteOps
      <3>  QED  BY <2>4, <2>5, <3>1, <3>2, <3>3, <3>4
    <2>6. CASE req[t].op = "createState"
      <3>1. TableOf[req[t].op] = "state" /\ Rows["state"] = DOMAIN state
        BY <2>6 DEF TableOf, Rows
      <3>2. loc[t].newId = seq["state"] /\ loc[t].newId \in DOMAIN state
            /\ state[loc[t].newId].caption = req[t].caption
        BY <2>3, <2>6 DEF Stored
      <3>3. Readable(req[t].caption) => Answer(t, 201, loc[t].newId)
        BY <2>2, <2>6, <3>2 DEF Reload, CreateOps
      <3>4. ~Readable(req[t].caption) => Answer(t, 400, 0)
        BY <2>2, <2>6, <3>2 DEF Reload, Throw, Thrown, DeleteOps
      <3>  QED  BY <2>4, <2>6, <3>1, <3>2, <3>3, <3>4
    <2>7. CASE req[t].op = "createEdge"
      <3>1. TableOf[req[t].op] = "edge" /\ Rows["edge"] = DOMAIN edge
        BY <2>7 DEF TableOf, Rows
      <3>2. loc[t].newId = seq["edge"] /\ loc[t].newId \in DOMAIN edge
        BY <2>3, <2>7 DEF Stored
      <3>3. Answer(t, 201, loc[t].newId)
        BY <2>2, <2>7, <3>2 DEF Reload, CreateOps
      <3>  QED  BY <2>4, <2>7, <3>1, <3>2, <3>3
    <2>  QED  BY <1>1, <2>5, <2>6, <2>7 DEF CreateOps
  <1>2. IInv /\ (\A t \in Threads : InsertKept(t)) /\ [Next]_vars
            => [\A t \in Threads :
                   (/\ "reload" \notin Failures
                    /\ pc[t] = "reload" /\ req[t].op \in CreateOps /\ pc'[t] = "answer") => Right(t)]_vars
    BY <1>1
  <1>  QED  BY <1>2, InsertKeptInv, Inductive, PTL DEF Spec, InsertedIsAnswered
=============================================================================
