SPECIFICATION FairSpec
CONSTANTS
    d1 = d1
    d2 = d2
    d3 = d3
    NoThread = NoThread
    Device <- D1
    Tcp <- D1
    Idle <- NoDevice
    Configs <- ListD1
    MaxGen = 2
    MallocFails = FALSE
PROPERTIES
    EventsAreServed
CHECK_DEADLOCK FALSE
