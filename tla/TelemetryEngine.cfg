CONSTANTS
    Events = {e1, e2, bad}
    Malformed = {bad}
    Workers = {w1, w2}
    BufferSize = 2
    LocalLog = TRUE
    HasForwarder = TRUE
    NoEvent = none
SPECIFICATION Spec
CHECK_DEADLOCK FALSE
INVARIANTS
    TypeOK
    Conservation
    AtMostOnce
    DrainComplete
