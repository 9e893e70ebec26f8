CONSTANTS
    Threads = {t1}
    Captions = {"a", "b", "dated"}
    Dated = {"dated"}
    Absent = Absent
    Weights = {0}
    MaxId = 2
    Requests <- SerialRequests
    Failures <- LoudCalls
    Placing = FALSE
    SeedWorkflow <- OneWorkflow
    SeedState <- OneState
    SeedEdge <- NoEdges
    SeedUsed <- FirstState
    SeedSeq <- SeqOf110
SPECIFICATION FairSpec
PROPERTIES
    DeleteStateSparesOthers
    InsertedIsAnswered
    RequestsAnswered
