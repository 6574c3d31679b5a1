CONSTANTS
    Events = {e1, e2}
    Malformed = {}
    Workers = {w1, w2}
    BufferSize = 1
    LocalLog = TRUE
    HasForwarder = TRUE
    NoEvent = none
    BatchSize = 2
    MaxRetries = 2
SPECIFICATION PipeSpec
CHECK_DEADLOCK FALSE
INVARIANT PipeTypeOK
PROPERTIES
    ImplementsLedger
    DueEventsDelivered
    PipelineShutsDown
