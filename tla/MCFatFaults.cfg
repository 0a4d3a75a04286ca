SPECIFICATION Spec
CONSTANTS
    kmax_cluster = 4
    EntriesPerSector = 3
    knum_fats = 2
    Files = {f1}
    Handles = {h1}
    NONE = NONE
    ClusterUnits = 1
    ChainSlots = 2
    MaxSize = 2
    Faults = {1, 2, 3, 4, 5}
INVARIANTS
    MirrorsAgree
PROPERTIES
    CommitsAreDurable
