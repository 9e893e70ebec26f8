\* The first runs of two processes on a new file; one may be killed.
SPECIFICATION Spec
CONSTANTS
    Procs = {p1, p2}
    NoProc = NoProc
    Max = 2
    Parts = 2
    SharedFirstRun = TRUE
    Failures = FALSE
    Kills = TRUE
PROPERTY CommitSetsVersion
