SPECIFICATION Spec
CONSTANTS
    Producers = {p1, p2}
    Consumers = {c1, c2}
    Bounds = {0, 1}
    Word = 32
    MaxNodes = 5
SYMMETRY Symmetry
INVARIANTS
    CountTracks
    BoundOvershoot
    SafeForOneEach
PROPERTIES
    ImplementsFifo
CHECK_DEADLOCK FALSE
