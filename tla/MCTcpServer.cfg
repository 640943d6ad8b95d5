SPECIFICATION FairSpec
CONSTANTS
    Conns = {c1, c2, c3}
    None = None
    MaxLoops = 2
INVARIANTS
    TypeOK
    Registered
PROPERTIES
    KeepsServing
    StopReturns
CHECK_DEADLOCK FALSE
