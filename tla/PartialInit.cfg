CONSTANTS
    Requests = {r1, r2}
    Playground = {}
    PIDs = {1, 2}
    MapCapacity = 2
    AttachFails = TRUE
    Root = TRUE
    Recycle = FALSE
    DockerStalls = FALSE
SPECIFICATION Spec
CHECK_DEADLOCK FALSE
INVARIANT IsActiveMeansInitialised
