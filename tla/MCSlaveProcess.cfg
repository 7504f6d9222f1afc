SPECIFICATION Spec
CONSTANTS
    s1 = s1
    s2 = s2
    s3 = s3
    s4 = s4
    Nobody = Nobody
    Slave <- MCSlave
    Tcp <- MCTcp
    Configs <- MCConfigs
    MaxGen = 2
    MaxFd = 2
    InitFails = TRUE
    CreateFails = TRUE
INVARIANTS
    TypeOK
    EverySocketPolled
    WatchesItsOwnSockets
    OnlyListenerLeaks
CHECK_DEADLOCK FALSE
