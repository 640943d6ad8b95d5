SPECIFICATION Spec
CONSTANTS
    Addr = {a1, a2}
    NoTimer = NoTimer
    Count_Ticks = 3
    Intervals = {2, 3, 6}
    MaxTimers = 3
INVARIANTS
    
    LostOnlyOnWholeTurns
CHECK_DEADLOCK FALSE
