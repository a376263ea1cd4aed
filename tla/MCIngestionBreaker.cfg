SPECIFICATION BreakerSpec
CONSTANTS
    WShards = {1, 2}
    WIds = {"x", "y"}
    Home <- Homes
    Clients = {"u", "v"}
    MaxCalls = 2
    WriteTtl = 1
    Nobody = Nobody
    Requests = {"r1", "r2", "r3"}
    MaxConcurrent = 1
    MaxQueue = 2
    MaxRate = 2
    MaxLeaks = 1
    Batches = {"p", "q"}
    MaxPending = 2
    BatchPermits = 1
    MinSize = 1
    MaxSize = 3
    MaxBatches = 3
    Messages = {"m1"}
    Docs = {"b"}
    DocsOf <- OneUpload
    Python = {"b"}
    MaxDeliver = 2
    MaxMarks = 1
    FailureThreshold = 2
    HalfOpenCalls = 1
    MaxFaults = 0
    Repeats = {"m1"}
    Nothing = Nothing
    Keys = {1, 2}
    Runners = {"loop", "trigger"}
    DeletionThreshold = 2
    Volatile = {1}
    MaxEtag = 1
    MaxEpoch = 1
    MaxVersion = 1
    Hits = {1, 2, 3}
    SearchRequests <- Searches
    SearchK = 2
    RrfK = 60
    Neighbors <- RelatedTo
    QuerySeeds <- NamedInQuery
    MaxExpanded = 2
    Overlap <- QueryTerms
    Similar <- SameVector
    GroupKey <- Sections
    ParentId <- Parents
    TokensOf <- Lengths
    Budget = 3
    MaxWrites = 1
    TagIds = {1, 2}
    TagNames = {"k"}
    TagValues <- Tags
    TagFilters <- Filters
    Width = 3
    TextDocs = {"x", "y"}
    Texts <- SomeTexts
    MaxTagOps = 3
    GraphChunks = {"a", "b", "c"}
    Entities = {"f"}
    Metas <- MetaSets
    NodeRank <- Ranks
    HopLimit = 4
    WalkLimit = 3
    WalkDepth = 2
    MaxGraphOps = 3
    NoMeta = NoMeta
    NoProjection = NoProjection
    Calls = {"g1", "g2", "g3"}
    CallOp <- Called
    TimeoutHeader <- Headers
    Permits <- PermitsOf
    AcquireTimeout = 1
    LongestWait = 3
    RecordQueue = 1
    FileRecords = 1
    MaxFiles = 1
    LastTick = 2
    MaxSpoolFaults = 1
    MaxServerRuns = 2
    AuthConfigs <- Configs
    MemoryCalls <- Asks
    MemoryRows <- Rows
    BadNames = {"bad"}
    ShortTokens = {"s"}
    LastMs = 2
    MaxStarts = 2
    Absent = Absent
PROPERTY CircuitResets
CHECK_DEADLOCK FALSE
