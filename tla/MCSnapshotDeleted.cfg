SPECIFICATION MCSpec
CONSTANTS
    Assertions = {"a"}
    Sources = {"e"}
    Scopes = {"s"}
    SubjectOf <- MCSubjectOf
    Proofs = {{"s"}}
    Drafts <- MCDrafts
    MaxSeq = 3
    MaxInputs = 0
    MaxPlans = 1
    Clients = {"c"}
    ReplayBatch = 2
    MinBlock = 3
    Overhead = 2
    MaxSnapshots = 1
    MaxCrashes = 1
    None = None
INVARIANT DeletionReachesSnapshots
CHECK_DEADLOCK FALSE
