SPECIFICATION FairSpec
CONSTANTS
    Calls = {a, b}
    Empty = Empty
    Failed = Failed
    Junk = Junk
    InitialSize = 4
    HeaderLen = 2
    Bodies = {1, 3}
    FirstIds = {0}
    MaxConns = 2
INVARIANTS
    Framed
PROPERTIES
    ImplementsCalls
    Answered
CHECK_DEADLOCK FALSE
