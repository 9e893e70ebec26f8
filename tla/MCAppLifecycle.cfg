SPECIFICATION FairSpec
CONSTANTS
    Ids = {"7"}
    AnyId = AnyId
    Requests = {r1, r2}
    Calls <- MCCalls
    NoCall = NoCall
    Pool = 2
CHECK_DEADLOCK FALSE
INVARIANTS
    
    CleanExit
PROPERTIES
    StopHeeded
    Answered
