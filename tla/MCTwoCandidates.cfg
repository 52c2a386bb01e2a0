SPECIFICATION FairSpec
CONSTANTS
    Candidates = {c1, c2}
    MaxAttempts = 1
    Consumers = {p1}
    Workers = {w1, w2}
    Keys = {k1}
    Attempts <- MCAttempts
    Origins <- MCOrigins
    None = None
    LeaseDuration = 3
    Extension = 1
    Backoff = 1
    BlockForever = FALSE
    Outcomes = {"succeeded"}
    Heartbeats = FALSE
    Cancellable = FALSE
    MaxCrashes = 0
    MaxTime = 1
    MaxObservations = 2
PROPERTIES
    CandidateCloses
CHECK_DEADLOCK FALSE
