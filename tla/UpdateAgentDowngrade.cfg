SPECIFICATION Spec
CONSTANTS
    Keys = {k1, k2}
    Versions = {1, 2, 3}
    InitialVersion = 1
    Manifest <- MCManifest
    Reqs = {r1, r2}
    Procs = {p1}
    MaxStops = 0
    Supervised = TRUE
    StoreFaults = FALSE
SYMMETRY MCSymmetry
PROPERTY OnlyUpgrades
