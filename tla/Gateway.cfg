CONSTANTS
    Requests = {r1, r2}
    Playground = {r2}
    PIDs = {1, 2}
    MapCapacity = 1
    AttachFails = TRUE
    Root = FALSE
    Recycle = TRUE
    DockerStalls = TRUE
SPECIFICATION Spec
CHECK_DEADLOCK FALSE
INVARIANTS
    TypeOK
    LockedWhileWaited
    
    CountsExact
    NoStaleLock
    AuditTrail
 
