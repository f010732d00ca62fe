SPECIFICATION Spec
CONSTANTS
    None = None
    s1 = s1
    s2 = s2
    c1 = c1
    c2 = c2
    Sessions <- MCOneSession
    Commits <- MCTwoCommits
    Stores <- MCStores
    MaxAudits = 2
    DeletesReports = TRUE
    RemovalFails = TRUE
    Crashes = TRUE
CHECK_DEADLOCK FALSE
INVARIANTS
    TypeOK
    KeptWithAudit
    OneCommit
    SealEarned
PROPERTIES
    ExecutionEarned
