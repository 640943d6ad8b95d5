SPECIFICATION FairSpec
CONSTANTS
    Conns = {c1, c2}
    Timers = {t1, t2}
    None = None
    MaxPosted = 3
CONSTRAINT StillClean
INVARIANTS
    TypeOK
    OneAttempt
PROPERTIES
    DisconnectEnds
    TriesAgain
CHECK_DEADLOCK FALSE
