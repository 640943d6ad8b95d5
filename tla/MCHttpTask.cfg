SPECIFICATION Spec
CONSTANTS
    MaxRequests = 3
    Pieces = 2
    Lengths = {0, 1, 2}
    Workers = 2
INVARIANTS
    OwnAnswer
PROPERTIES
    Finishes
CHECK_DEADLOCK FALSE
