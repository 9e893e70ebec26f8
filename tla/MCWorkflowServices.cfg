CONSTANTS
    Threads = {t1, t2}
    Captions = {"a", "b", "dated"}
    Dated = {"dated"}
    Absent = Absent
    Weights = {0}
    MaxId = 4
    Requests <- GraphRequests
    Failures <- AllCalls
    Placing = TRUE
    SeedWorkflow <- TwoWorkflows
    SeedState <- ThreeStates
    SeedEdge <- NoEdges
    SeedUsed <- NoStates
    SeedSeq <- SeqOf230
SPECIFICATION Spec
SYMMETRY Symmetry
INVARIANTS
    TypeOK
    ReferencesExist
    EdgeWithinWorkflow
    UniqueEdges
    DeletedStaysDeleted
PROPERTIES
    ImplementsWorkflowGraph
