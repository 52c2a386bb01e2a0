SPECIFICATION FairSpec
CONSTANTS
    Candidates = {c1}
    MaxAttempts = 1
    Consumers = {p1}
    Workers = {w1}
    Keys = {k1}
    Attempts <- MCAttempts
    Origins <- MCOrigins
    None = None
    LeaseDuration = 3
    Extension = 1
    Backoff = 1
    BlockForever = FALSE
    Outcomes = {"succeeded"}
    Heartbeats = FALSE
    Cancellable = FALSE
    MaxCrashes = 1
    MaxTime = 1
    MaxObservations = 2
PROPERTIES
    SlotFreed
CHECK_DEADLOCK FALSE
