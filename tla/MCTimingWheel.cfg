SPECIFICATION FairSpec
CONSTANTS
    Addr = {a1, a2}
    NoTimer = NoTimer
    Count_Ticks = 3
    Intervals = {1, 2, 4}
    MaxTimers = 3
INVARIANTS
    TypeOK
    ScheduledOnce
    NoStaleTimer
    OnTime
PROPERTIES
    EveryTimerFires
    ImplementsService
CHECK_DEADLOCK FALSE
