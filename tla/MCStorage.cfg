SPECIFICATION MCSpec
CONSTANTS
    RIds = {"a", "b"}
    Writers = {"u", "v"}
    MaxWrites = 3
    MaxIndices = 2
    Ops = {"p", "q"}
    Total = 2
    Interval = 2
    MaxRetries = 1
    MaxSecond = 1
    NoRebuild = NoRebuild
    Vectors = {1, 2, 3}
    MaxGuardWrites = 2
    MaxAppends = 4
    Blocks = 5
    ChunkSize = 2
    UploadRetries = 2
    MaxUploads = 2
    NoUpload = NoUpload
    SnapIds = {1, 2}
    FileSize <- Sizes
    MarkerSize = 8
    Makers = {"u", "v"}
    MaxSnapshots = 1
    LastSecond = 1
    NoCall = NoCall
    Jobs = {1, 2}
    Workers = {"u", "v"}
    MaxAttempts <- Attempts
    Lease = 1
    Delay = 1
    Absent = Absent
    KindBytes <- BytesOf
    UsedKinds = {"compiler_job", "compiler_job_failure", "outbox", "projection_data", "projection_set", "id"}
    Workspaces <- Spaces
    LocalNames <- NameSet
    LastSequenceNo = 2
    MaxBatchWrites = 2
INVARIANTS    JobsSound KeysApart
PROPERTIES JobsSettle
CHECK_DEADLOCK FALSE
