SPECIFICATION MCSpec
CONSTANTS
    Ids = {1, 2}
    Vals = {"v", "x"}
    Workspaces = {"w", "u"}
    Writes <- MCWrites
    MaxInternal = 3
    MaxFailures = 1
    MaxCrashes = 1
    None = None
    NoValue = NoValue
    SnapIds = {"a", "b"}
    SnapVecs = {"u", "v"}
    Confs = {"f32", "i8"}
    ExactConf = "i8"
    Absent = Absent
    MaxSnapWrites = 3
    MaxStarts = 3
    SlotCount = 5
    Queries <- SomeQueries
    Exact <- ExactOrder
    FilterFactor = 1
    MinFiltered = 1
    RerankFloor = 3
    MaxChanges = 1
    gA = gA
    gB = gB
    gC = gC
    m1 = m1
    m2 = m2
    s1 = s1
    s2 = s2
    e1 = e1
    eBad = eBad
    GenIds = {gA, gB, gC}
    MutIds = {m1, m2}
    Shas = {s1, s2}
    Manifests <- MCManifests
    Mutations <- MCMutations
    Commits <- MCDistinctCommits
    Failures = {e1}
    BadFailure = eBad
    MaxSeq = 3
    Contents <- TwoContents
    Summaries = {1, 2}
    RevisionSeqs = {1}
    Inputs = {"i1", "i2"}
    Builders = {"p", "q"}
    Replicas = {"r1", "r2"}
    Nothing = Nothing
    MaxCuts = 1
    MaxDeaths = 1
INVARIANTS ShardConsistent HnswSound RecordSound FilesWhole
PROPERTIES HistoryKept ImplementsMap
CHECK_DEADLOCK FALSE
