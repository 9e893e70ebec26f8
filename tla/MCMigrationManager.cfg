\* Two processes, the two migrations of two statements each, failures and kills.
SPECIFICATION FairSpec
CONSTANTS
    Procs = {p1, p2}
    NoProc = NoProc
    Max = 2
    Parts = 2
    SharedFirstRun = FALSE
    Failures = TRUE
    Kills = TRUE
INVARIANTS WholeMigrations VersionMatches
PROPERTY ImplementsSchemaVersions RunsEnd
