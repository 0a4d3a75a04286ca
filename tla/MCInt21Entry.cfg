SPECIFICATION EntrySpec
CONSTANTS
    MaxPrograms = 4
    MaxContexts = 8
INVARIANTS
    OnlyHandlersNest
    CallsComeHome
    CountsMatch
CHECK_DEADLOCK FALSE
