SPECIFICATION Spec
CONSTANTS
    Drives = {0, 2}
    Floppies = {0}
    LastSector = 1
    Parts = {1, 2}
    READ_CACHE_SECTORS = 2
    SUBDIR_CACHE_SLOTS = 2
    MaxWrites = 2
INVARIANTS
    WindowsAgree
    SavedIsOnDisk
PROPERTIES
    ImplementsStore
