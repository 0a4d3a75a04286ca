SPECIFICATION Spec
CONSTANTS
    kmax_cluster = 4
    EntriesPerSector = 3
    knum_fats = 2
    Names = {n1, n2}
    RootSlots = 2
    SlotsPerSector = 3
    MaxIo = 11
    MaxFaults = 1
    MaxSearchFaults = 0
SYMMETRY NameSymmetry
CHECK_DEADLOCK FALSE
INVARIANTS
    TreeIsSound
    DiskIsSound
    SearchesAreComplete
PROPERTIES
    ImplementsNameTree
