SPECIFICATION FairSpec
CONSTANTS
    kbio_spt = 3
    kbio_heads = 2
    Cylinders = 2
    Word = 65536
    Page = 8
    SectorSize = 2
    MaxBurst = 3
    Tries = 3
    Removable = TRUE
    Starts <- MCStarts
    Counts = {1, 2, 5}
    Addresses <- MCAddresses
    MaxAsks = 1
INVARIANTS
    BurstsFit
PROPERTIES
    RequestsEnd
    ImplementsService
