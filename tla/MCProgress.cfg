SPECIFICATION MCSpec
CONSTANTS
    Shards = {1, 2}
    Searches = {"u", "v"}
    RetryAfter = 2
    MinCoverage = 50
    Never = Never
    ResultIds = {1, 2, 3}
    Scores = {1, 2, 3}
    GroupOf <- Groups
    Capacity = 3
    TopK = 2
    PerGroup = 1
    Threshold = 2
    MaxOffers = 6
    CShards = {1, 2}
    EventRoom = 1
    TriggerRoom = 1
    MaxCompactions = 1
INVARIANTS SearchExact
PROPERTIES ShardsReturn 
CHECK_DEADLOCK FALSE
