SPECIFICATION MCSpec
CONSTANTS
    gA = gA
    gB = gB
    gC = gC
    x = x
    y = y
    s1 = s1
    s2 = s2
    e1 = e1
    eBad = eBad
    None = None
    GenIds = {gA, gB, gC}
    MutIds = {x, y}
    Shas = {s1, s2}
    Manifests <- MCManifests
    Mutations <- MCMutations
    Commits <- MCCommits
    Failures = {e1}
    BadFailure = eBad
    MaxSeq = 2
    Bundles <- SomeBundles
    Tails <- SomeTails
    MaxEntries = 9
    MaxLines = 10
    MaxGraphNodes = 5
    MaxGraphEdges = 6
    MaxRevisions = 2
    MaxDeaths = 2
    PlaneSpaces = {"w", "x"}
    Generations = {"g", "h"}
    Clients = {"c1", "c2"}
    NoGen = NoGen
    RestoredSlots <- SomeSlots
    MaxSequence = 2
    MaxManaged = 2
    References <- SomeReferences
    Contents <- SomeContents
    AllowedBuckets = {"b"}
    MaxBundleSize = 3
    RequireDigest = TRUE
    Versioned <- PinnedVersions
    MaxFetches = 2
INVARIANTS ControlSafe BuildIsReplay FetchedIsAuthorised AnswersExact
CHECK_DEADLOCK FALSE
