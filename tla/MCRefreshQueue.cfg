\* j1 is enqueued once, has a start_at and may have nothing to fetch; j2 is a
\* synthetic instrument and is enqueued again.
SPECIFICATION Spec
CONSTANTS
    Jobs = {j1, j2}
    Recurring = {j2}
    Locked = {j1}
    ZeroWidth = {j1}
    Synthetic = {j2}
    Workers = {w1, w2}
    None = none
    Limit = 2
    MaxEnqueues = 2
    MaxFaults = 2
INVARIANTS
    TypeOK
    ObservedHasBars
    NoDuplicateWork
PROPERTIES
    OwnerKept
    EventuallyCompleted
CHECK_DEADLOCK FALSE
