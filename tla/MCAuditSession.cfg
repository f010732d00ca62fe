SPECIFICATION Spec
CONSTANTS
    None = None
    s1 = s1
    s2 = s2
    c1 = c1
    c2 = c2
    Sessions <- MCSessions
    Commits <- MCCommits
    Stores <- MCNoStores
    MaxAudits = 3
    DeletesReports = FALSE
    RemovalFails = FALSE
    Crashes = TRUE
CHECK_DEADLOCK FALSE
SYMMETRY Symmetry
INVARIANTS
    PairNeverMixed
    RecordedPairSurvives
    PublishedIsRecorded
