SPECIFICATION Spec
CONSTANTS
    Candidates = {c1}
    MaxAttempts = 2
    Consumers = {p1, p2}
    Workers = {w1, w2}
    Keys = {k1}
    Attempts <- MCAttempts
    Origins <- MCOrigins
    None = None
    LeaseDuration = 1
    Extension = 1
    Backoff = 1
    BlockForever = FALSE
    Outcomes = {"succeeded"}
    Heartbeats = FALSE
    Cancellable = TRUE
    MaxCrashes = 1
    MaxTime = 2
    MaxObservations = 2
SYMMETRY PoolSymmetry
INVARIANTS
    TypeOK
    AckedIsReleased
    RetryFollowsRelease
    TerminalHasEvidence
    ReceiptResumable
    ActiveRunCanSettle
    OneSlotPerCandidate
PROPERTIES
    CandidateHistory
    EntryLifecycle
CHECK_DEADLOCK FALSE
