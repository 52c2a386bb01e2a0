SPECIFICATION LedgerSpec
CONSTANTS
    Attempts = {a1, a2}
    Workers = {w1}
    Keys = {k1}
    Origins = {worker}
    None = None
    LeaseDuration = 1
    Extension = 2
    MaxTime = 3
    MaxObservations = 3
SYMMETRY Symmetry
INVARIANTS
    LedgerTypeOK
    SerialCapacity
    ReleasedTogether
    HistoryLoadable
PROPERTIES
    ReleaseIsFinal
CHECK_DEADLOCK FALSE
