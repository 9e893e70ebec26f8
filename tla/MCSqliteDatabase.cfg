CONSTANTS
    Threads = {t1, t2, t3}
    Slots = {s1, s2, s3}
    Nothing = Nothing
    MaxShutdowns = 2
SPECIFICATION FairSpec
INVARIANTS
    FewActive
    HandedOutConfigured
    NotClosedInUse
PROPERTIES
    CallsEnd
