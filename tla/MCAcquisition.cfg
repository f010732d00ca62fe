SPECIFICATION Spec
CONSTANTS
    None = None
    p = p
    q = q
    root = root
    dirA = dirA
    dirB = dirB
    text = text
    bin = bin
    odd = odd
    wide = wide
    code = code
    leaf = leaf
    tarball = tarball
    packed = packed
    stream = stream
    chatty = chatty
    crowded = crowded
    Paths <- MCPaths
    Trees <- MCTrees
    Root = root
    Contents <- MCContents
    Size <- MCSize
    Binary = {bin, wide, tarball, stream, crowded}
    Dense = {}
    Breaking = {}
    Opaque = {odd}
    Payload <- MCPayload
    MaxNestedDepth = 3
    MaxArtifacts = 14
    MaxPayloads = 7
    MaxTotalDecodedBytes = 9
    MaxEntries = 3
    MaxExpandedBytes = 4
    MaxEntryBytes = 3
    MaxRatio = 2
    MaxSourceBytes = 2
    MaxCandidates = 7
    MaxLiteralChars = 2
    MaxArrayItems = 2
    Repositories <- MCRepositories
    MaxFacts = 2
    MaxFailures = 1
    MaxDetours = 2
INVARIANTS TypeOK CompleteCoversTree DecodedWholeTree
PROPERTIES PreparedOnWholeTree AcquisitionEnds
