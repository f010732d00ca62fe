SPECIFICATION Spec
CONSTANTS
    None = None
    main = main
    manifest = manifest
    notes = notes
    dir = dir
    alice = alice
    bob = bob
    chains = chains
    prompts = prompts
    deep = deep
    truncatedGraph = truncatedGraph
    hook = hook
    load = load
    script = script
    field = field
    one = one
    other = other
    Objects = {main, manifest, notes, dir}
    Manifests = {manifest}
    Injected = {notes}
    Facts = {hook, load, script, field}
    Graphs = {deep, truncatedGraph}
    Blocking = {truncatedGraph}
    Categories = {chains, prompts}
    ViewSets = {{main, manifest, notes}}
    Suspects = {main, chains}
    Reviewers <- MCReviewers
    Source <- MCSource
    Fact <- MCFact
    Reports <- MCReports
    Category <- MCCategory
    ObjectRank <- MCObjectRank
    DependsOn <- MCDependsOn
    MaxCategoryFacts = 3
    MaxDepth = 4
SYMMETRY Symmetry
CHECK_DEADLOCK FALSE
INVARIANTS
    TypeOK
    ContainerValid
    StageEarned
    ReviewedIndependently
    SealedSnapshotWasReviewed
    FindingsDecided
PROPERTY
    EvidenceFrozen
