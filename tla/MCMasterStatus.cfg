SPECIFICATION FairSpec
CONSTANTS
    a = a
    b = b
    dev = dev
    Device = dev
    Action <- MCAction
    Error <- MCError
    MaxErr = 2
    Modes <- MCModes
INVARIANTS
    TypeOK
    OnlineMeansNoError
PROPERTIES
    AckMeansCleared
    ErrorStaysUntilReset
    TcpHonoursResets
    LostLinkReopened
CHECK_DEADLOCK FALSE
