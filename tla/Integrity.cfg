CONSTANTS
    Events = {kill, tamper, e1}
    KillEvent = kill
    TamperEvent = tamper
    Malformed = {}
    Workers = {w1}
    Callers = {"tamper", "checker"}
    Calls <- MCCalls
    RingSize = 1
    BufferSize = 1
    LocalLog = TRUE
    HasForwarder = FALSE
    NoEvent = none
SPECIFICATION IntegritySpec
CHECK_DEADLOCK FALSE
INVARIANTS
    IntegrityTypeOK
    FiresOnce
    FindingOutOrExcused
    BreachesAccounted
PROPERTY DetectionEndsProcess
