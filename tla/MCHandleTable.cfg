SPECIFICATION Spec
CONSTANTS
    MAX_HANDLES = 4
    N_STD = 1
    Files = {f1, f2}
    CON = CON
    NONE = NONE
    MaxDepth = 2
    FlushFails = FALSE
INVARIANTS
    RefsExact
    NoLeaks
PROPERTIES
    ImplementsOpenFiles
CHECK_DEADLOCK FALSE
