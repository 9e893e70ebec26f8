-------------------------- MODULE MCWorkflowServices --------------------------
(* Requests and seed rows for model checking WorkflowServices.              *)
EXTENDS WorkflowServices, TLC

Symmetry == Permutations(Threads)

(* A request that says nothing but its operation and row.                   *)
Bare(o, i) ==
    [op |-> o, id |-> i, end |-> 1, caption |-> Absent, weight |-> Absent, isArchive |-> Absent]

State(w, archived) == [workflow |-> w, caption |-> "a", weight |-> 0, isArchive |-> archived]

(* Calls that may fail: all of them, or those that do not deceive a check.  *)
NoCalls   == {}
AllCalls  == Calls
LoudCalls == Calls \ {"isUsedByItems", "reload"}

NoStates     == {}
FirstState   == {1}
SecondState  == {2}
OneWorkflow  == <<"a">>
TwoWorkflows == <<"a", "b">>
OneState     == <<State(1, FALSE)>>
TwoStates    == <<State(1, FALSE), State(1, FALSE)>>
ThreeStates  == <<State(1, FALSE), State(1, FALSE), State(2, FALSE)>>
NoEdges      == <<>>

Seq(w, s, e) == [workflow |-> w, state |-> s, edge |-> e]
SeqOf120 == Seq(1, 2, 0)
SeqOf230 == Seq(2, 3, 0)
SeqOf110 == Seq(1, 1, 0)

NewEdge(b, e)  == [Bare("createEdge", b) EXCEPT !.end = e]
NewState(w)    == [Bare("createState", w) EXCEPT !.caption = "a"]
NewWorkflow(c) == [Bare("createWorkflow", 1) EXCEPT !.caption = c]
Rename(w, c)   == [Bare("updateWorkflow", w) EXCEPT !.caption = c]
Archive(s, a)  == [Bare("updateState", s) EXCEPT !.isArchive = a]

(* Deletes against creates: what an INSERT may find gone.                   *)
GraphRequests ==
    {NewEdge(1, 2), NewEdge(1, 3), NewState(2)}
    \cup {Bare("deleteState", s) : s \in {2, 3}} \cup {Bare("deleteWorkflow", w) : w \in {1, 2}}
    \cup {Bare("deleteEdge", 1), [Bare("updateState", 2) EXCEPT !.end = 2, !.caption = "dated"]}

(* What one client at a time does.                                          *)
SerialRequests ==
    {NewWorkflow(c) : c \in {"a", "dated"}} \cup {Rename(w, c) : w \in {1, 2}, c \in {"a", "b"}}
    \cup {NewState(w) : w \in {1, 2}} \cup {[NewState(1) EXCEPT !.caption = "dated"]}
    \cup {NewEdge(b, e) : b, e \in {1, 2}}
    \cup {Archive(s, a) : s \in {1, 2}, a \in BOOLEAN}
    \cup {Bare(o, i) : o \in DeleteOps, i \in {1, 2}}

DeleteRequests == {NewEdge(1, 2), Bare("deleteState", 1)}
=============================================================================
