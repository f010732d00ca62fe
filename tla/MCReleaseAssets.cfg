SPECIFICATION Spec
CONSTANTS
    None = None
    s1 = s1
    s2 = s2
    v1 = v1
    v2 = v2
    commit = commit
    exe = exe
    zip = zip
    iso = iso
    x1 = x1
    x2 = x2
    Sessions <- MCSessions
    Releases <- MCReleases
    SourceOf <- MCSourceOf
    Assets <- MCAssets
    ReleaseOf <- MCReleaseOf
    Oversized <- MCOversized
    Calls <- MCCalls
    MaxAssets = 1
    MaxAudits = 2
    MaxChanges = 1
SYMMETRY Symmetry
CHECK_DEADLOCK FALSE
INVARIANTS
    TypeOK
    VerdictOnWholeRelease
    FilesAccountable
