SPECIFICATION Spec
CONSTANTS
    None = None
    tree1 = tree1
    tree2 = tree2
    npm = npm
    cargo = cargo
    poetry = poetry
    left = left
    wheel = wheel
    ours = ours
    second = second
    third = third
    broken = broken
    missing = missing
    tgz = tgz
    whl = whl
    inner = inner
    bomb = bomb
    bomb1 = bomb1
    bomb2 = bomb2
    torn = torn
    code = code
    x1 = x1
    x2 = x2
    Sources <- MCSources
    Manifests <- MCManifests
    SourceOf <- MCSourceOf
    Packages <- MCPackages
    FormatOf <- MCFormatOf
    ManifestOf <- MCManifestOf
    Kind <- MCKind
    Requires <- MCRequires
    Direct <- MCDirect
    Payloads <- MCPayloads
    ContentOf <- MCContentOf
    Archives <- MCArchives
    Contains <- MCContains
    Unreadable <- MCUnreadable
    Size <- MCSize
    Calls <- MCCalls
    MetadataSize = 1
    MaxPackages = 4
    MaxDepth = 1
    MaxRequests = 3
    MaxResponseBytes = 2
    MaxTotalBytes = 3
    MaxArchiveDepth = 1
    MaxArchiveEntries = 5
    MaxScannedText = 4
    MaxAudits = 2
SYMMETRY Symmetry
CHECK_DEADLOCK FALSE
INVARIANTS
    TypeOK
    CompleteIsWhole
