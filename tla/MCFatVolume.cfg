SPECIFICATION Spec
CONSTANTS
    kmax_cluster = 5
    EntriesPerSector = 3
    knum_fats = 2
    Files = {f1, f2}
    Handles = {h1}
    NONE = NONE
    ClusterUnits = 2
    ChainSlots = 2
    MaxSize = 4
    Faults = {}
SYMMETRY FileSymmetry
INVARIANTS
    NoCrossLinks
    NothingLost
    ChainsCoverSizes
    PositionsRight
PROPERTIES
    ShortOnlyWhenFull
