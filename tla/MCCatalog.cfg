CONSTANTS
    Threads = {t1, t2}
    Absent = Absent
    Null = Null
    Wrong = Wrong
    Broken = Broken
    Fraction = Fraction
    Text = Text
    Cut <- MCCut
    Single <- MCSingle
    Ticks = 2
    LongHalf = 16
    Workloads <- MCWorkloads
    Patience = 3
    MaxId = 5
    Half = 16
    Rank <- MCRank
    Dated = {"dated"}
    Failures = TRUE
    Writers = {"Item", "LinkType", "ItemField", "Comment"}
    SeedRows <- MCSeedRows
    SeedUsed = {}
SPECIFICATION Spec
SYMMETRY Symmetry
CHECK_DEADLOCK FALSE
INVARIANTS
    RowsSound
    AnswersTrue
    DeletedStaysGone
    DeleteSparesUsed
    EchoesBody
    PagesCover
    DtosCarryFields
