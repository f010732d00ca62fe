SPECIFICATION Spec
CONSTANTS
    None = None
    ue5 = ue5
    ue5tools = ue5tools
    c1 = c1
    c2 = c2
    Servers <- MCOneServer
    Prefixes <- MCNoPrefixes
    Calls <- MCCalls
    Polls = 2
    ManualReloads = TRUE
CHECK_DEADLOCK FALSE
PROPERTIES
    HooksReturn
