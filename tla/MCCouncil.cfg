SPECIFICATION Spec
CONSTANTS
    None = None
    p1 = p1  p2 = p2  a = a  b = b  d = d  steady = steady  reading = reading  r1 = r1  r2 = r2  v1 = v1  v2 = v2  v3 = v3
    Paths <- MCPaths
    Contents <- MCOneContent
    Binary <- MCNone
    Opaque <- MCNone
    Dense <- MCNone
    Breaking <- MCNone
    Size <- MCSize
    MaxFacts = 9
    Findings <- MCFindings
    FileOf <- MCFileOf
    Fragment <- MCFragment
    Seed <- MCSeed
    MaxGraphNodes = 9
    MaxGraphEdges = 7
    MaxDepth = 5
    MaxChains = 8
    MaxBranches = 12
    MaxCycles = 2
    SeverityOf <- MCMinor
    SignatureOf <- MCSignatureOf
    Floor = "minor"
    Roles <- MCRoles
    Mandatory <- MCMandatory
    Category <- MCCategory
    CoverageFloor = 1
    Reviewers <- MCReviewers
    MaxFaults = 1
SYMMETRY ReviewerSymmetry
INVARIANTS TypeOK DecisionEarned TraceDescribesLedger
PROPERTIES KeepsPromise

