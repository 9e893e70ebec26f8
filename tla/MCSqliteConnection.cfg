CONSTANTS
    Threads = {t1, t2, t3}
    Connections = {c1}
    NoThread = NoThread
    MaxRow = 1
SPECIFICATION FairSpec
INVARIANTS
    TransactionIsolated
    WritersExclude
    FlagTracksTransaction
PROPERTIES
    OnlyOwnerWrites
    ImplementsTxStore
    CallsServed
