SPECIFICATION LoopSpec
CONSTANTS
    USEC = 8
    NSUS = 4
    a1 = a1
    a2 = a2
    a3 = a3
    NoEvent = NoEvent
    Action <- MCAction
    ActionLists <- MCActionLists
    Interval_us <- MCInterval_us
    Clock <- MCClock
    Horizon = 9
    LongLimit = 65536
    Protocols = {"TCP", "RTU"}
    Backoff <- MCBackoff
    Durations = {0, 3}
    Jitter = {0, 1}
    MaxErr = 1
INVARIANTS
    LoopTypeOK
    CommandsSpaced
    NeverAheadOfSchedule
    LatenessBounded
CHECK_DEADLOCK FALSE
