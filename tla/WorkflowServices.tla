--------------------------- MODULE WorkflowServices ---------------------------
(***************************************************************************)
(* Request threads in WorkflowService, StateService and EdgeService of     *)
(* vault-server/src/logic/impl, over the SQLite tables Workflow, State and *)
(* Edge.                                                                   *)
(*                                                                         *)
(* A service method is a chain of repository calls with no transaction     *)
(* around it, and every call is one SQL statement on the connection all    *)
(* threads share (SqliteConnection): pc[t] names the call thread t makes   *)
(* next, and each call is one step.  The rows of other threads may change  *)
(* between any two of them.                                                *)
(***************************************************************************)
EXTENDS Integers, Functions

CONSTANTS
    Threads,       \* request threads of the REST listener
    Captions,      \* captions clients use; "" is the empty one
    Dated,         \* captions SqliteResultSet::value() takes for a date
    Absent,        \* a JSON field the request does not have
    Weights,       \* state weights clients use
    MaxId,         \* bound: the last identifier of a table
    Requests,      \* what clients send
    Failures,      \* the repository calls that may fail
    Placing,       \* whether another program may put items into states
    SeedWorkflow, SeedState, SeedEdge,    \* rows of the database at the start,
    SeedUsed, SeedSeq                     \* states its items are in, its sqlite_sequence

LegalWeights == 0 .. 100
Ids          == 1 .. MaxId
CreateOps    == {"createWorkflow", "createState", "createEdge"}
UpdateOps    == {"updateWorkflow", "updateState"}
DeleteOps    == {"deleteWorkflow", "deleteState", "deleteEdge"}
Ops          == CreateOps \cup UpdateOps \cup DeleteOps

(* id is the row of the path, the workflow of a new state or the begin of a *)
(* new edge, whose end is "end".                                            *)
Request  == [op : Ops, id : Ids, end : Ids, caption : Captions \cup {Absent},
             weight : Weights \cup {Absent}, isArchive : BOOLEAN \cup {Absent}]
StateRow == [workflow : Ids, caption : Captions, weight : Weights, isArchive : BOOLEAN]
EdgeRow  == [begin : Ids, end : Ids]

(* A table: rows in V under some of the identifiers.                        *)
IsTable(f, V) == DOMAIN f \subseteq Ids /\ f \in [DOMAIN f -> V]

ASSUME MaxIdAssumption    == MaxId \in Nat
ASSUME CaptionsAssumption == Captions \subseteq STRING /\ Absent \notin Captions
ASSUME WeightsAssumption  == 0 \in Weights /\ Weights \subseteq Int /\ Absent \notin Weights
ASSUME AbsentAssumption   == Absent \notin BOOLEAN
ASSUME RequestsAssumption == Requests \subseteq Request
ASSUME SeedAssumption ==
    /\ IsTable(SeedWorkflow, Captions)
    /\ IsTable(SeedState, StateRow)
    /\ IsTable(SeedEdge, EdgeRow)
    /\ SeedUsed \subseteq DOMAIN SeedState
    /\ SeedSeq \in [{"workflow", "state", "edge"} -> 0 .. MaxId]
    /\ \A i \in DOMAIN SeedWorkflow : i <= SeedSeq["workflow"]
    /\ \A i \in DOMAIN SeedState : i <= SeedSeq["state"]
    /\ \A i \in DOMAIN SeedEdge : i <= SeedSeq["edge"]
    /\ \A s \in DOMAIN SeedState : SeedState[s].workflow \in DOMAIN SeedWorkflow
    /\ \A e \in DOMAIN SeedEdge :
          /\ {SeedEdge[e].begin, SeedEdge[e].end} \subseteq DOMAIN SeedState
          /\ SeedState[SeedEdge[e].begin].workflow = SeedState[SeedEdge[e].end].workflow
          /\ \A f \in DOMAIN SeedEdge : SeedEdge[e] = SeedEdge[f] => e = f

VARIABLES
    workflow,    \* table Workflow: id -> caption
    state,       \* table State: id -> StateRow
    edge,        \* table Edge: id -> EdgeRow
    used,        \* the states some row of Item is in
    seq,         \* sqlite_sequence: table -> the last identifier it gave out
    last,        \* sqlite3_last_insert_rowid of the shared connection
    pc,          \* thread -> the repository call it makes next
    req,         \* thread -> the request it serves
    loc,         \* thread -> local variables of the service method
    reply        \* thread -> status code and row of the answer it is about to send

storeVars  == <<workflow, state, edge, used, seq, last>>
threadVars == <<pc, req, loc, reply>>
vars == <<storeVars, threadVars>>

Calls ==
    {"findWorkflow", "existsByCaption", "findByWorkflowId", "isUsedByItems",
     "findState", "findByStateId", "findBegin", "findEnd", "exists", "findEdge",
     "insert", "lastInsertId", "update", "remove", "reload"}
(* The repository methods that pass an exception on to the service.         *)
Rethrowing == Calls \ {"existsByCaption", "isUsedByItems", "exists", "update", "remove", "lastInsertId"}

ASSUME FailuresAssumption == Failures \subseteq Calls

Tables == {"workflow", "state", "edge"}
Codes  == {0, 200, 201, 204, 400, 404, 409, 500}

NoRequest == [op |-> "none", id |-> 0, end |-> 0, caption |-> Absent, weight |-> Absent, isArchive |-> Absent]
NoLocals  == [workflow |-> 0, isArchive |-> FALSE, states |-> {}, newId |-> 0]
NoReply   == [code |-> 0, id |-> 0]
Locals    == [workflow : 0 .. MaxId, isArchive : BOOLEAN, states : SUBSET Ids, newId : 0 .. MaxId]

TypeOK ==
    /\ IsTable(workflow, Captions)
    /\ IsTable(state, StateRow)
    /\ IsTable(edge, EdgeRow)
    /\ used \subseteq DOMAIN state
    /\ seq \in [Tables -> 0 .. MaxId]
    /\ last \in 0 .. MaxId
    /\ pc \in [Threads -> Calls \cup {"idle", "answer"}]
    /\ req \in [Threads -> Requests \cup {NoRequest}]
    /\ loc \in [Threads -> Locals]
    /\ reply \in [Threads -> [code : Codes, id : 0 .. MaxId]]

Init ==
    /\ workflow = SeedWorkflow
    /\ state = SeedState
    /\ edge = SeedEdge
    /\ used = SeedUsed
    /\ seq = SeedSeq
    /\ last = 0
    /\ pc = [t \in Threads |-> "idle"]
    /\ req = [t \in Threads |-> NoRequest]
    /\ loc = [t \in Threads |-> NoLocals]
    /\ reply = [t \in Threads |-> NoReply]

-----------------------------------------------------------------------------
(* The thread: going on to another call, and answering                      *)

Goto(t, call) ==
    /\ pc' = [pc EXCEPT ![t] = call]
    /\ UNCHANGED <<req, reply>>

Continue(t, call) == Goto(t, call) /\ UNCHANGED loc

Answer(t, code, id) ==
    /\ pc' = [pc EXCEPT ![t] = "answer"]
    /\ reply' = [reply EXCEPT ![t] = [code |-> code, id |-> id]]
    /\ loc' = [loc EXCEPT ![t] = NoLocals]
    /\ UNCHANGED req

(* What the handler makes of a method that returns nullopt, or of a delete  *)
(* that did not find its row.                                               *)
Refusal(o) ==
    IF o = "createState" THEN 400
    ELSE IF o \in {"createWorkflow", "createEdge"} THEN 409
    ELSE 404

(* POST and PUT handlers catch, the listener answers for the others.        *)
Thrown(o) == IF o \in DeleteOps THEN 500 ELSE 400

Refuse(t) == Answer(t, Refusal(req[t].op), 0) /\ UNCHANGED storeVars

(* exists(), isUsedByItems() and existsByCaption() return false when the    *)
(* database fails.                                                          *)
Answers(call, found) == IF call \in Failures THEN {found, FALSE} ELSE {found}

FirstCall == [createWorkflow |-> "existsByCaption", updateWorkflow |-> "findWorkflow",
              deleteWorkflow |-> "findWorkflow",    createState    |-> "findWorkflow",
              updateState    |-> "findState",       deleteState    |-> "findState",
              createEdge     |-> "findBegin",       deleteEdge     |-> "findEdge"]

Malformed(r) ==
    \/ r.caption \in {Absent, ""}
    \/ r.op = "createState" /\ r.weight # Absent /\ r.weight \notin LegalWeights

Receive(t, r) ==
    /\ pc[t] = "idle"
    /\ req' = [req EXCEPT ![t] = r]
    /\ IF r.op \in {"createWorkflow", "createState"} /\ Malformed(r)
       THEN /\ pc' = [pc EXCEPT ![t] = "answer"]
            /\ reply' = [reply EXCEPT ![t] = [code |-> 400, id |-> 0]]
       ELSE /\ pc' = [pc EXCEPT ![t] = FirstCall[r.op]]
            /\ UNCHANGED reply
    /\ UNCHANGED <<storeVars, loc>>

Respond(t) ==
    /\ pc[t] = "answer"
    /\ pc' = [pc EXCEPT ![t] = "idle"]
    /\ req' = [req EXCEPT ![t] = NoRequest]
    /\ reply' = [reply EXCEPT ![t] = NoReply]
    /\ UNCHANGED <<storeVars, loc>>

(* A repository call throws: the database refuses it, or the row it found   *)
(* cannot be mapped to a DTO.                                               *)
LostThrow(t) ==                                  \* seeded fault
    /\ pc' = [pc EXCEPT ![t] = "lost"]
    /\ UNCHANGED <<storeVars, req, loc, reply>>
Throw(t) == Answer(t, Thrown(req[t].op), 0) /\ UNCHANGED storeVars

CallFails(t) ==
    /\ pc[t] \in Failures \cap Rethrowing
    /\ Throw(t)

Readable(caption) == caption \notin Dated

-----------------------------------------------------------------------------
(* WorkflowService                                                          *)

AfterFindWorkflow(t) ==
    CASE req[t].op = "createState"    -> "insert"
      [] req[t].op = "deleteWorkflow" -> "findByWorkflowId"
      [] req[t].op = "updateWorkflow" ->
            IF req[t].caption \in {Absent, workflow[req[t].id]} THEN "update" ELSE "existsByCaption"

FindWorkflow(t) ==
    /\ pc[t] = "findWorkflow"
    /\ \/ req[t].id \notin DOMAIN workflow /\ Refuse(t)
       \/ /\ req[t].id \in DOMAIN workflow
          /\ \/ Readable(workflow[req[t].id]) /\ Continue(t, AfterFindWorkflow(t)) /\ UNCHANGED storeVars
             \/ ~Readable(workflow[req[t].id]) /\ Throw(t)

CaptionTaken(c) == c # "" /\ \E w \in DOMAIN workflow : workflow[w] = c

ExistsByCaption(t) ==
    /\ pc[t] = "existsByCaption"
    /\ \E found \in Answers("existsByCaption", CaptionTaken(req[t].caption)) :
          \/ found /\ Refuse(t)
          \/ /\ ~found
             /\ Continue(t, IF req[t].op = "createWorkflow" THEN "insert" ELSE "update")
             /\ UNCHANGED storeVars

Put(f, k, v)     == [x \in DOMAIN f \cup {k} |-> IF x = k THEN v ELSE f[x]]
Remove(f, S)     == Restrict(f, DOMAIN f \ S)
WithDefault(x, d) == IF x = Absent THEN d ELSE x

(* An INSERT takes the next identifier of its table.                        *)
LargestPlusOne(table, rows) ==                   \* seeded fault: no AUTOINCREMENT
    IF DOMAIN rows = {} THEN 1 ELSE 1 + CHOOSE i \in DOMAIN rows : \A j \in DOMAIN rows : j <= i
NextId(table, rows) == seq[table] + 1

Inserted(t, table, id) ==
    /\ seq' = [seq EXCEPT ![table] = id]
    /\ last' = id
    /\ Continue(t, "lastInsertId")

InsertWorkflow(t) ==
    /\ pc[t] = "insert" /\ req[t].op = "createWorkflow"
    /\ LET id == NextId("workflow", workflow) IN
          \/ /\ id \in Ids
             /\ workflow' = Put(workflow, id, req[t].caption)
             /\ Inserted(t, "workflow", id)
             /\ UNCHANGED <<state, edge, used>>
          \/ id \notin Ids /\ Throw(t)

PathId(t) ==                                     \* seeded fault
    /\ pc[t] = "lastInsertId"
    /\ loc' = [loc EXCEPT ![t].newId = req[t].id]
    /\ Goto(t, "reload")
    /\ UNCHANGED storeVars
(* The shared connection's identifier, whoever inserted last.               *)
LastInsertId(t) ==
    /\ pc[t] = "lastInsertId"
    /\ loc' = [loc EXCEPT ![t].newId = last]
    /\ Goto(t, "reload")
    /\ UNCHANGED storeVars

(* create and update methods end with findById of what they wrote.          *)
Reload(t) ==
    /\ pc[t] = "reload"
    /\ LET id      == loc[t].newId
           code    == IF req[t].op \in CreateOps THEN 201 ELSE 200
           found   == CASE req[t].op \in {"createWorkflow", "updateWorkflow"} -> id \in DOMAIN workflow
                        [] req[t].op \in {"createState", "updateState"}       -> id \in DOMAIN state
                        [] req[t].op = "createEdge"                           -> id \in DOMAIN edge
           mapped  == CASE req[t].op \in {"createWorkflow", "updateWorkflow"} -> Readable(workflow[id])
                        [] req[t].op \in {"createState", "updateState"}       -> Readable(state[id].caption)
                        [] req[t].op = "createEdge"                           -> TRUE
       IN \/ ~found /\ Refuse(t)
          \/ found /\ ~mapped /\ Throw(t)
          \/ found /\ mapped /\ Answer(t, code, id) /\ UNCHANGED storeVars

(* repo->update() returned false, or its row is written.                    *)
Updated(t) ==
    /\ loc' = [loc EXCEPT ![t].newId = req[t].id]
    /\ Goto(t, "reload")
    /\ UNCHANGED <<edge, used, seq, last>>

UpdateWorkflow(t) ==
    /\ pc[t] = "update" /\ req[t].op = "updateWorkflow"
    /\ \/ /\ req[t].id \in DOMAIN workflow /\ req[t].caption # Absent
          /\ workflow' = [workflow EXCEPT ![req[t].id] = req[t].caption]
          /\ Updated(t) /\ UNCHANGED state
       \/ /\ "update" \in Failures \/ req[t].id \notin DOMAIN workflow \/ req[t].caption = Absent
          /\ Refuse(t)

(* canDeleteWorkflow(): its states, then isUsedByItems() for each of them.  *)
StatesOf(w) == {s \in DOMAIN state : state[s].workflow = w}
FindByWorkflowId(t) ==
    /\ pc[t] = "findByWorkflowId"
    /\ LET found == StatesOf(req[t].id) IN
          \/ /\ \A s \in found : Readable(state[s].caption)
             /\ loc' = [loc EXCEPT ![t].states = found]
             /\ Goto(t, IF found = {} THEN "remove" ELSE "isUsedByItems")
             /\ UNCHANGED storeVars
          \/ (\E s \in found : ~Readable(state[s].caption)) /\ Throw(t)

Conflict(t) == Answer(t, 409, 0) /\ UNCHANGED storeVars

IsAnyUsed(t) ==
    /\ pc[t] = "isUsedByItems" /\ req[t].op = "deleteWorkflow"
    /\ \E s \in loc[t].states : \E found \in Answers("isUsedByItems", s \in used) :
          \/ found /\ Conflict(t)
          \/ /\ ~found
             /\ loc' = [loc EXCEPT ![t].states = @ \ {s}]
             /\ Goto(t, IF loc[t].states = {s} THEN "remove" ELSE "isUsedByItems")
             /\ UNCHANGED storeVars

(* ON DELETE CASCADE                                                        *)
EdgesFrom(S) == {e \in DOMAIN edge : edge[e].begin \in S}    \* seeded fault
EdgesAt(S)   == {e \in DOMAIN edge : edge[e].begin \in S \/ edge[e].end \in S}

DropStates(S) ==
    /\ state' = Remove(state, S)
    /\ edge' = Remove(edge, EdgesAt(S))
    /\ used' = used \ S

RemoveFails(t) ==
    /\ pc[t] = "remove"
    /\ \/ "remove" \in Failures
       \/ req[t].op = "deleteWorkflow" /\ req[t].id \notin DOMAIN workflow
       \/ req[t].op = "deleteState" /\ req[t].id \notin DOMAIN state
       \/ req[t].op = "deleteEdge" /\ req[t].id \notin DOMAIN edge
    /\ Answer(t, 500, 0)
    /\ UNCHANGED storeVars

RemoveWorkflow(t) ==
    /\ pc[t] = "remove" /\ req[t].op = "deleteWorkflow" /\ req[t].id \in DOMAIN workflow
    /\ workflow' = Remove(workflow, {req[t].id})
    /\ DropStates(StatesOf(req[t].id))
    /\ Answer(t, 204, 0)
    /\ UNCHANGED <<seq, last>>

-----------------------------------------------------------------------------
(* StateService                                                             *)

AfterFindState(t) ==
    IF req[t].op = "deleteState" \/ req[t].isArchive = TRUE THEN "isUsedByItems" ELSE "update"

FindState(t) ==
    /\ pc[t] = "findState"
    /\ \/ req[t].id \notin DOMAIN state /\ Refuse(t)
       \/ /\ req[t].id \in DOMAIN state
          /\ \/ Readable(state[req[t].id].caption) /\ Continue(t, AfterFindState(t)) /\ UNCHANGED storeVars
             \/ ~Readable(state[req[t].id].caption) /\ Throw(t)

IsUsed(t) ==
    /\ pc[t] = "isUsedByItems" /\ req[t].op \in {"updateState", "deleteState"}
    /\ \E found \in Answers("isUsedByItems", req[t].id \in used) :
          \/ found /\ (IF req[t].op = "deleteState" THEN Conflict(t) ELSE Refuse(t))
          \/ /\ ~found
             /\ Continue(t, IF req[t].op = "deleteState" THEN "findByStateId" ELSE "update")
             /\ UNCHANGED storeVars

InsertState(t) ==
    /\ pc[t] = "insert" /\ req[t].op = "createState"
    /\ LET id  == NextId("state", state)
           row == [workflow  |-> req[t].id,
                   caption   |-> req[t].caption,
                   weight    |-> WithDefault(req[t].weight, 0),
                   isArchive |-> WithDefault(req[t].isArchive, FALSE)]
       IN \/ /\ id \in Ids /\ req[t].id \in DOMAIN workflow
             /\ state' = Put(state, id, row)
             /\ Inserted(t, "state", id)
             /\ UNCHANGED <<workflow, edge, used>>
          \/ (id \notin Ids \/ req[t].id \notin DOMAIN workflow) /\ Throw(t)

(* The columns UPDATE State SET writes: never workflowId.                   *)
RowMoved(row, r) ==                              \* seeded fault
    [workflow  |-> r.end,
     caption   |-> WithDefault(r.caption, row.caption),
     weight    |-> WithDefault(r.weight, row.weight),
     isArchive |-> WithDefault(r.isArchive, row.isArchive)]
RowUpdated(row, r) ==
    [workflow  |-> row.workflow,
     caption   |-> WithDefault(r.caption, row.caption),
     weight    |-> WithDefault(r.weight, row.weight),
     isArchive |-> WithDefault(r.isArchive, row.isArchive)]

NothingToSet(r) == r.caption = Absent /\ r.weight = Absent /\ r.isArchive = Absent

UpdateState(t) ==
    /\ pc[t] = "update" /\ req[t].op = "updateState"
    /\ \/ /\ req[t].id \in DOMAIN state /\ ~NothingToSet(req[t])
          /\ state' = [state EXCEPT ![req[t].id] = RowUpdated(@, req[t])]
          /\ Updated(t) /\ UNCHANGED workflow
       \/ /\ "update" \in Failures \/ req[t].id \notin DOMAIN state \/ NothingToSet(req[t])
          /\ Refuse(t)

SkipEdges(t) ==                                  \* seeded fault
    pc[t] = "findByStateId" /\ Continue(t, "remove") /\ UNCHANGED storeVars
FindByStateId(t) ==
    /\ pc[t] = "findByStateId"
    /\ \/ EdgesAt({req[t].id}) # {} /\ Conflict(t)
       \/ EdgesAt({req[t].id}) = {} /\ Continue(t, "remove") /\ UNCHANGED storeVars

RemoveState(t) ==
    /\ pc[t] = "remove" /\ req[t].op = "deleteState" /\ req[t].id \in DOMAIN state
    /\ DropStates({req[t].id})
    /\ Answer(t, 204, 0)
    /\ UNCHANGED <<workflow, seq, last>>

-----------------------------------------------------------------------------
(* EdgeService                                                              *)

FindBegin(t) ==
    /\ pc[t] = "findBegin"
    /\ \/ req[t].id \notin DOMAIN state /\ Refuse(t)
       \/ /\ req[t].id \in DOMAIN state
          /\ LET row == state[req[t].id] IN
                \/ /\ Readable(row.caption)
                   /\ loc' = [loc EXCEPT ![t].workflow = row.workflow, ![t].isArchive = row.isArchive]
                   /\ Goto(t, "findEnd")
                   /\ UNCHANGED storeVars
                \/ ~Readable(row.caption) /\ Throw(t)

ValidEdge(l, end) == l.workflow = end.workflow /\ ~l.isArchive /\ ~end.isArchive

FindEnd(t) ==
    /\ pc[t] = "findEnd"
    /\ \/ req[t].end \notin DOMAIN state /\ Refuse(t)
       \/ /\ req[t].end \in DOMAIN state
          /\ LET row == state[req[t].end] IN
                \/ Readable(row.caption) /\ ValidEdge(loc[t], row)
                   /\ Continue(t, "exists") /\ UNCHANGED storeVars
                \/ Readable(row.caption) /\ ~ValidEdge(loc[t], row) /\ Refuse(t)
                \/ ~Readable(row.caption) /\ Throw(t)

EdgeOf(r) == [begin |-> r.id, end |-> r.end]
HasEdge(row) == \E e \in DOMAIN edge : edge[e] = row

Exists(t) ==
    /\ pc[t] = "exists"
    /\ \E found \in Answers("exists", HasEdge(EdgeOf(req[t]))) :
          \/ found /\ Refuse(t)
          \/ ~found /\ Continue(t, "insert") /\ UNCHANGED storeVars

(* The FOREIGN KEYs and UNIQUE(beginStateId, endStateId) of table Edge.     *)
KeysOnly(row) == {row.begin, row.end} \subseteq DOMAIN state    \* seeded fault
Constraints(row) == {row.begin, row.end} \subseteq DOMAIN state /\ ~HasEdge(row)

InsertEdge(t) ==
    /\ pc[t] = "insert" /\ req[t].op = "createEdge"
    /\ LET id  == NextId("edge", edge)
           row == EdgeOf(req[t])
       IN \/ /\ id \in Ids /\ Constraints(row)
             /\ edge' = Put(edge, id, row)
             /\ Inserted(t, "edge", id)
             /\ UNCHANGED <<workflow, state, used>>
          \/ (id \notin Ids \/ ~Constraints(row)) /\ Throw(t)

FindEdge(t) ==
    /\ pc[t] = "findEdge"
    /\ \/ req[t].id \notin DOMAIN edge /\ Refuse(t)
       \/ req[t].id \in DOMAIN edge /\ Continue(t, "remove") /\ UNCHANGED storeVars

RemoveEdge(t) ==
    /\ pc[t] = "remove" /\ req[t].op = "deleteEdge" /\ req[t].id \in DOMAIN edge
    /\ edge' = Remove(edge, {req[t].id})
    /\ Answer(t, 204, 0)
    /\ UNCHANGED <<workflow, state, used, seq, last>>

-----------------------------------------------------------------------------

(* No service of the server writes Item: its rows come from elsewhere.      *)
PlaceItem(s) ==
    /\ Placing
    /\ s \in DOMAIN state \ used
    /\ used' = used \cup {s}
    /\ UNCHANGED <<workflow, state, edge, seq, last, threadVars>>

WorkflowStep(t) ==
    \/ FindWorkflow(t) \/ ExistsByCaption(t) \/ InsertWorkflow(t) \/ UpdateWorkflow(t)
    \/ FindByWorkflowId(t) \/ IsAnyUsed(t) \/ RemoveWorkflow(t)
StateStep(t) ==
    \/ FindState(t) \/ IsUsed(t) \/ InsertState(t) \/ UpdateState(t) \/ FindByStateId(t) \/ RemoveState(t)
EdgeStep(t) ==
    \/ FindBegin(t) \/ FindEnd(t) \/ Exists(t) \/ InsertEdge(t) \/ FindEdge(t) \/ RemoveEdge(t)
Step(t) ==
    \/ WorkflowStep(t) \/ StateStep(t) \/ EdgeStep(t)
    \/ LastInsertId(t) \/ Reload(t) \/ RemoveFails(t) \/ CallFails(t) \/ Respond(t)

Next ==
    \/ \E t \in Threads : Step(t) \/ \E r \in Requests : Receive(t, r)
    \/ \E s \in Ids : PlaceItem(s)

Spec     == Init /\ [][Next]_vars
(* The listener's pool keeps running every thread it gave a request to.     *)
FairSpec == Spec /\ \A t \in Threads : WF_vars(Step(t))

-----------------------------------------------------------------------------
(* Properties                                                               *)

(* Every state is in a workflow of the table and every edge joins two       *)
(* states of the table, however the checks of one request and the deletes   *)
(* of another interleave (foreign keys with ON DELETE CASCADE).             *)
ReferencesExist ==
    /\ \A s \in DOMAIN state : state[s].workflow \in DOMAIN workflow
    /\ \A e \in DOMAIN edge : {edge[e].begin, edge[e].end} \subseteq DOMAIN state

(* An edge never crosses workflows, although validateEdge() read its two    *)
(* states long before the INSERT: a state that went in between cannot come  *)
(* back under the same identifier in another workflow.                      *)
EdgeWithinWorkflow ==
    \A e \in DOMAIN edge :
        {edge[e].begin, edge[e].end} \subseteq DOMAIN state
            => state[edge[e].begin].workflow = state[edge[e].end].workflow

(* No two edges join the same states, although exists() is checked in a     *)
(* statement of its own: the table's UNIQUE decides between two requests.   *)
UniqueEdges ==
    \A e, f \in DOMAIN edge : edge[e] = edge[f] => e = f

(* A row a client was told is deleted is still gone when the answer leaves. *)
DeletedStaysDeleted ==
    \A t \in Threads : reply[t].code = 204 =>
        /\ req[t].op = "deleteWorkflow" => req[t].id \notin DOMAIN workflow
        /\ req[t].op = "deleteState"    => req[t].id \notin DOMAIN state
        /\ req[t].op = "deleteEdge"     => req[t].id \notin DOMAIN edge

(* Each statement of each request does to the rows what WorkflowGraph       *)
(* promises, or nothing.                                                    *)
Abstract == INSTANCE WorkflowGraph
ImplementsWorkflowGraph == Abstract!Spec

(* Every request is answered, whichever of its repository calls fails or    *)
(* finds a row it cannot map: an exception ends in the handler's catch or   *)
(* in the listener's, never past both.                                      *)
RequestsAnswered == \A t \in Threads : (pc[t] # "idle") ~> (pc[t] = "idle")

(* deleteState() takes no edge and no item along: it answers 409 instead.   *)
(* A failing isUsedByItems() says "not used", so where it may fail this is  *)
(* not promised.                                                            *)
DeleteStateSparesOthers ==
    [][\A t \in Threads :
          (/\ "isUsedByItems" \notin Failures
           /\ req[t].op = "deleteState" /\ pc'[t] = "answer" /\ reply'[t].code = 204)
              => edge' = edge /\ used' = used]_vars

(* A create that has inserted its row, and can look it up again, is         *)
(* answered 201 with the identifier the INSERT took; but when its caption   *)
(* reads like a date it is answered 400, and the row is in the table all    *)
(* the same.                                                                *)
TableOf == [createWorkflow |-> "workflow", createState |-> "state", createEdge |-> "edge"]
Rows    == [workflow |-> DOMAIN workflow, state |-> DOMAIN state, edge |-> DOMAIN edge]

InsertedIsAnswered ==
    [][\A t \in Threads :
          (/\ "reload" \notin Failures
           /\ pc[t] = "reload" /\ req[t].op \in CreateOps /\ pc'[t] = "answer")
              => LET table == TableOf[req[t].op] IN
                 /\ seq[table] \in Rows[table]
                 /\ reply'[t] = IF req[t].op = "createEdge" \/ Readable(req[t].caption)
                                THEN [code |-> 201, id |-> seq[table]]
                                ELSE [code |-> 400, id |-> 0]]_vars
=============================================================================
