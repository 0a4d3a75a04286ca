SPECIFICATION LoaderSpec
CONSTANTS
    MCB_START = 1
    ARENA_TOP = 12
    Requests = {1, 2, 3}
    Images <- MCImages
    EnvSizes = {1}
    PSP_PARAS = 1
    KeepSizes = {0, 2}
    MaxDepth = 3
INVARIANTS
    ChainTiles
    ProcessesHoldTheirBlocks
    ExecsNest
    OwnersAlive
    LargestIsGrantable
PROPERTIES
    OthersUntouched
    ExitCoalesces
    FailedExecRestores
CHECK_DEADLOCK FALSE
