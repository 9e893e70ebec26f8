---------------------------- MODULE WorkflowGraph ----------------------------
(***************************************************************************)
(* What the workflow, state and edge services promise about the rows they  *)
(* keep, with requests forgotten: a set of workflows, each a graph of      *)
(* states and edges.  A state is born in an existing workflow and never    *)
(* leaves it, an edge joins two states of one workflow and no edge repeats *)
(* another, deleting takes along what hangs on the row, and an identifier  *)
(* that was given out never comes back.                                    *)
(***************************************************************************)
EXTENDS Integers

CONSTANTS Ids, SeedWorkflow, SeedState, SeedEdge, SeedUsed, SeedSeq

VARIABLES workflow, state, edge, used, seq

vars == <<workflow, state, edge, used, seq>>

Init ==
    /\ workflow = SeedWorkflow
    /\ state = SeedState
    /\ edge = SeedEdge
    /\ used = SeedUsed
    /\ seq = SeedSeq

(* g is f with row k added, and f without the rows of S.                    *)
Added(f, g, k)   == DOMAIN g = DOMAIN f \cup {k} /\ \A x \in DOMAIN f \ {k} : g[x] = f[x]
Removed(f, g, S) == DOMAIN g = DOMAIN f \ S /\ \A x \in DOMAIN g : g[x] = f[x]

Fresh(table, id) == id > seq[table] /\ seq' = [seq EXCEPT ![table] = id]

AddWorkflow(id) ==
    /\ Fresh("workflow", id)
    /\ Added(workflow, workflow', id)
    /\ workflow'[id] # ""
    /\ UNCHANGED <<state, edge, used>>

Rename(w) ==
    /\ DOMAIN workflow' = DOMAIN workflow
    /\ \A x \in DOMAIN workflow \ {w} : workflow'[x] = workflow[x]
    /\ UNCHANGED <<state, edge, used, seq>>

AddState(id) ==
    /\ Fresh("state", id)
    /\ Added(state, state', id)
    /\ state'[id].workflow \in DOMAIN workflow
    /\ state'[id].weight \in 0 .. 100
    /\ UNCHANGED <<workflow, edge, used>>

ChangeState(s) ==
    /\ DOMAIN state' = DOMAIN state
    /\ \A x \in DOMAIN state \ {s} : state'[x] = state[x]
    /\ s \in DOMAIN state => state'[s].workflow = state[s].workflow
    /\ UNCHANGED <<workflow, edge, used, seq>>

Joins(e, b, f) ==
    /\ {b, f} \subseteq DOMAIN state /\ state[b].workflow = state[f].workflow
    /\ e.begin = b /\ e.end = f

AddEdge(id) ==
    /\ Fresh("edge", id)
    /\ Added(edge, edge', id)
    /\ Joins(edge'[id], edge'[id].begin, edge'[id].end)
    /\ \A e \in DOMAIN edge \ {id} : edge[e] # edge'[id]
    /\ UNCHANGED <<workflow, state, used>>

DropEdge(e) ==
    /\ Removed(edge, edge', {e})
    /\ UNCHANGED <<workflow, state, used, seq>>

(* The states in S go, with the edges that begin or end in them and with    *)
(* the items that are in them.                                              *)
DropStates(S) ==
    /\ Removed(state, state', S)
    /\ Removed(edge, edge', {e \in DOMAIN edge : edge[e].begin \in S \/ edge[e].end \in S})
    /\ used' = used \ S
    /\ UNCHANGED seq

DropState(s) == DropStates({s}) /\ UNCHANGED workflow

DropWorkflow(w) ==
    /\ Removed(workflow, workflow', {w})
    /\ DropStates({s \in DOMAIN state : state[s].workflow = w})

UseState ==
    /\ used \subseteq used' /\ used' \subseteq DOMAIN state
    /\ UNCHANGED <<workflow, state, edge, seq>>

Next ==
    \/ UseState
    \/ \E id \in Ids :
          \/ AddWorkflow(id) \/ Rename(id) \/ DropWorkflow(id)
          \/ AddState(id) \/ ChangeState(id) \/ DropState(id)
          \/ AddEdge(id) \/ DropEdge(id)

Spec == Init /\ [][Next]_vars
=============================================================================
