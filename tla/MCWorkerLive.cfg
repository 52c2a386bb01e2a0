SPECIFICATION FairSpec
CONSTANTS
    Candidates = {c1}
    MaxAttempts = 2
    Consumers = {p1, p2}
    Workers = {w1}
    Keys = {k1}
    Attempts <- MCAttempts
    Origins <- MCOrigins
    None = None
    LeaseDuration = 3
    Extension = 1
    Backoff = 1
    BlockForever = FALSE
    Outcomes = {"succeeded", "failed"}
    Heartbeats = FALSE
    Cancellable = TRUE
    MaxCrashes = 0
    MaxTime = 2
    MaxObservations = 2
PROPERTIES
    EntryAcked
    SlotFreed
    CandidateCloses
CHECK_DEADLOCK FALSE
