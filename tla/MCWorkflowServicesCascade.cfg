CONSTANTS
    Threads = {t1, t2}
    Captions = {"", "a", "b"}
    Dated = {}
    Absent = Absent
    Weights = {0}
    MaxId = 4
    Requests <- DeleteRequests
    Failures <- NoCalls
    Placing = FALSE
    SeedWorkflow <- OneWorkflow
    SeedState <- TwoStates
    SeedEdge <- NoEdges
    SeedUsed <- NoStates
    SeedSeq <- SeqOf120
SPECIFICATION Spec
SYMMETRY Symmetry
PROPERTIES
    DeleteStateSparesOthers
