SPECIFICATION Spec
CONSTANTS
    Conns = {c1, c2, c3}
    None = None
    MaxLoops = 2
INVARIANTS
    StopCloses
CHECK_DEADLOCK FALSE
