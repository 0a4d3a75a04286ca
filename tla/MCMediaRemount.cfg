SPECIFICATION Spec
CONSTANTS
    Disks = {d1, d2}
    NoDisk = none
    HardDisk = hd
    Disc = cd
    kfat_secs = 2
    krsc = 2
    MaxSwaps = 2
SYMMETRY DiskSymmetry
INVARIANTS
    InFlightSurvives
