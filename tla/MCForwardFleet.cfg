\* Two instances, one with a client that serialises its calls, two workers,
\* three calls and one crash; leases last one tick.
SPECIFICATION Spec
CONSTANTS
    Attempts = {f1, f2}
    Workers = {w1, w2}
    Keys = {k1, k2, k3}
    Origins = {"forward"}
    None = None
    LeaseDuration = 1
    Extension = 1
    MaxTime = 1
    MaxObservations = 2
    Serialised = {f1}
    TieBreak <- MCTieBreak
    MaxCrashes = 1
SYMMETRY Symmetry
INVARIANTS
    FleetTypeOK
    OneWorkerPerInstance
    RunningHasWorker
PROPERTIES
    AnsweredStopFrees
CHECK_DEADLOCK FALSE
