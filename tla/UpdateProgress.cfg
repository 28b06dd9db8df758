SPECIFICATION UpdateProgressSpec
CONSTANTS
    Keys = {k1, k2}
    Versions = {1, 2, 3}
    InitialVersion = 1
    Manifest <- MCManifest
    Reqs = {r1}
    Procs = {p1}
    MaxStops = 2
    Supervised = TRUE
    StoreFaults = TRUE
    MaxVersion = 1
    Automatic = {1}
    MaxRuns = 2
    MaxOutages = 1
    MaxMounts = 1
CHECK_DEADLOCK FALSE
PROPERTIES EveryJobEnds TrackedRunsSettle
