SPECIFICATION Spec
CONSTANTS
    None = None
    ue5 = ue5
    ue5tools = ue5tools
    c1 = c1
    c2 = c2
    Servers <- MCServers
    Prefixes <- MCPrefixes
    Calls <- MCCalls
    Polls = 2
    ManualReloads = FALSE
SYMMETRY Symmetry
CHECK_DEADLOCK FALSE
INVARIANTS
    TypeOK
    SharedReload
PROPERTY
    AdviceAwaitsOutcome
