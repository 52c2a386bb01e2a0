\* Two worker processes, one with a batch of two and one with a batch of one,
\* two messages, one fault of any kind and one RETRY answer; block_ms > 0.
SPECIFICATION Spec
CONSTANTS
    Messages = 2
    Process = {1, 2}
    Batch <- MCBatch
    BlockForever = FALSE
    MaxFaults = 1
    MaxRetries = 1
INVARIANTS
    TypeOK
    EnqueuedOnce
    PublishedIsOnStream
    GoneIsCompleted
PROPERTIES
    ImplementsDelivery
    EventuallyPublished
