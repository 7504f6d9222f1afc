SPECIFICATION Spec
CONSTANTS
    USEC = 2
    NSUS = 2
    a1 = a1
    a2 = a2
    a3 = a3
    NoEvent = NoEvent
    Action <- MCAction
    ActionLists <- MCActionLists
    Interval_us <- MCInterval_us
    Clock <- MCClock
    Horizon = 9
INVARIANTS
    TypeOK
    SortedByDueDate
    EachActionOnce
    DueWithinOneInterval
    NoDrift
    RateFair
PROPERTIES
    ServedInDueOrder
    ImplementsPeriodicDispatch
CHECK_DEADLOCK FALSE
