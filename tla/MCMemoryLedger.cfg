SPECIFICATION MCSpec
CONSTANTS
    Assertions = {"a", "b"}
    Sources = {"e"}
    Scopes = {"own", "shared"}
    SubjectOf <- MCSubjectOf
    Proofs <- MCProofs
    Drafts <- MCDrafts
    MaxSeq = 4
    MaxInputs = 1
    MaxPlans = 1
    None = None
    ExportLimits = {4, 9}
    Callers = {1, 2}
    ProofOf <- MCProofOf
    Granted <- MCGranted
    RequestPool <- MCRequestPool
    Builds <- MCBuilds
    MaxSends = 3
    MaxRestarts = 1
    VersionPool <- SomeVersions
    ArtifactNames = {"reference", "other"}
    Proposals <- SomeProposals
    MaxVersions = 3
    GraphInputs <- SomeGraphInputs
    WalkBounds <- SomeWalkBounds
    MaxDepth = 8
    MaxResult = 9
    ObservationPool <- SomeObservations
    HeadPool <- SomeHeads
    MaxObservations = 2
    EventPool <- SomeEvents
    MaxSteps = 2
    MaxText = 3
    MaxEvents = 3
    PageSpaces = {"w", "x"}
    ReaderSpace = "w"
    EntryIds = {1, 2}
    LastSequence = 3
    MaxPageEntries = 2
    MaxPages = 2
    NoToken = NoToken
INVARIANTS LedgerConsistent ServiceExact CompilersSound EvidenceSound
PROPERTIES PastIsFixed
CHECK_DEADLOCK FALSE
