SPECIFICATION Spec
CONSTANTS
    d1 = d1
    d2 = d2
    d3 = d3
    NoThread = NoThread
    Device <- D1
    Tcp <- NoDevice
    Idle <- D1
    Configs <- ListD1
    MaxGen = 1
    MallocFails = FALSE
INVARIANTS
    ContextReleasedOnce
CHECK_DEADLOCK FALSE
