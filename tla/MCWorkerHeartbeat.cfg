SPECIFICATION Spec
CONSTANTS
    Candidates = {c1}
    MaxAttempts = 1
    Consumers = {p1, p2}
    Workers = {w1}
    Keys = {k1}
    Attempts <- MCAttempts
    Origins <- MCOrigins
    None = None
    LeaseDuration = 1
    Extension = 1
    Backoff = 1
    BlockForever = FALSE
    Outcomes = {"succeeded", "failed"}
    Heartbeats = TRUE
    Cancellable = FALSE
    MaxCrashes = 0
    MaxTime = 2
    MaxObservations = 3
SYMMETRY Symmetry
INVARIANTS
    AckedIsReleased
    ReleaseHasReceipt
PROPERTIES
    LedgerSpec
CHECK_DEADLOCK FALSE
