SPECIFICATION CellSpec
CONSTANTS
    r1 = r1
    r2 = r2
    gA = gA
    gB = gB
    gC = gC
    None = None
    Replicas = {r1, r2}
    Gens = {gA, gB}
    MaxSeq = 1
    Quorum = 1
    MaxFaults = 1
    Odd = {r2}
    BuildsFail = TRUE
    Unreadable = TRUE
    Rollbacks = TRUE
    Abandons = TRUE
    Drains = FALSE
    Events = {1, 2, 3}
    Senders = {"r1", "r2"}
    Subscribed = {1, 2, 3}
    MAX_RETRIES = 1
    MAX_QUEUE_SIZE = 2
    Starters = {"t1", "t2"}
    Requirements <- AllNeeds
    LowNeeds <- SmallNeeds
    GovernorCfg <- GovernorLimits
    CpuReadings = {10, 70}
    MaxStarted = 4
    Tasks = {"t1", "t2"}
    Outcomes = {"Completed"}
    MaxRuns = 3
    MaxSeconds = 4
    MaxHistory = 2
    PageSize = 1
    AuditMax = 3
    MaxAudits = 4
    Workspaces = {"w1", "w2"}
    StagingIds = {"s1", "s2"}
    Fingerprints = {1, 2}
    NoExecution = NoExecution
INVARIANTS CellSound DeliveriesAccounted TasksSound LocalFollowsAuthority ReadyPeersAgree
