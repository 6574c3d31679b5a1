CONSTANTS
    Requests = {r1, r2}
    Playground = {}
    PIDs = {1}
    MapCapacity = 2
    AttachFails = FALSE
    Root = TRUE
    Recycle = TRUE
    DockerStalls = FALSE
SPECIFICATION Spec
CHECK_DEADLOCK FALSE
INVARIANT UnlockedAfterExecution
