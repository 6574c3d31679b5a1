CONSTANTS
    Events = {e1, e2, e3, e4}
    Workers = {w1, w2}
    BatchSize = 2
    MaxRetries = 2
SPECIFICATION Spec
CHECK_DEADLOCK FALSE
INVARIANTS
    TypeOK
    EveryEventCounted
    DuplicatesBounded
    ShutdownLosesNothing
PROPERTIES
    EventuallySettled
