\* Two worker processes with the default block_ms = 0, one message, no fault and
\* one RETRY answer.
SPECIFICATION Spec
CONSTANTS
    Messages = 1
    Process = {1, 2}
    Batch <- MCBatch
    BlockForever = TRUE
    MaxFaults = 0
    MaxRetries = 1
PROPERTIES
    IdleReclaimed
CHECK_DEADLOCK FALSE
