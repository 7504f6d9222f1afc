SPECIFICATION Spec
CONSTANTS
    USEC = 5
    NSUS = 3
    LongLimit = 60
    MSEC = 1
    NoSection = NoSection
    NoId = NoId
    Files <- MCFiles
    Saved <- MCSaved
INVARIANTS
    TypeOK
    ParsedAsWritten
    RegistersCoverVariables
    TimeoutIsHalfMinInterval
    GapsFitSchedule
