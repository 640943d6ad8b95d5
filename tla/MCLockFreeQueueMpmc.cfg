SPECIFICATION Spec
CONSTANTS
    Producers = {p1, p2}
    Consumers = {c1, c2}
    Bounds = {0, 1}
    Word = 16
    MaxNodes = 4
SYMMETRY Symmetry
INVARIANTS
    NoUseAfterFree
CHECK_DEADLOCK FALSE
