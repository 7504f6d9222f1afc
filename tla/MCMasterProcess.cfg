SPECIFICATION Spec
CONSTANTS
    d1 = d1
    d2 = d2
    d3 = d3
    NoThread = NoThread
    Device <- D1D2D3
    Tcp <- D1D3
    Idle <- D3
    Configs <- ListAny
    MaxGen = 2
    MallocFails = FALSE
INVARIANTS
    TypeOK
    MutualExclusion
    ContextReleasedOnce
    NoTcpContextLeaked
    OnlyDoomedReadFreedConfig
CHECK_DEADLOCK FALSE
