SPECIFICATION FairSpec
CONSTANTS
    Workers = {w1, w2, w3}
    MaxCounts = {0, 2}
    MaxAppends = 4
    MaxStarts = 2
INVARIANTS
    TypeOK
    NoLostWakeup
    StartOrder
    NothingLost
    StopIsQuiescent
PROPERTIES
    StopReturns
    EveryTaskBegun
    ImplementsExecutor
CHECK_DEADLOCK FALSE
