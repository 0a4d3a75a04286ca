SPECIFICATION FairSpec
CONSTANTS
    Bands <- MCBands
    MaxJumps = 3
    MaxBoots = 3
INVARIANTS
    JumpHolds
    StalledIsTheLastBoots
PROPERTIES
    BootIsAnswered
