CONSTANTS
    Threads = {t1, t2}
    Connections = {c1}
    NoThread = NoThread
    MaxRow = 2
SPECIFICATION Spec
INVARIANT CreateReturnsOwnId
