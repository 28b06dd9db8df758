SPECIFICATION Spec
CONSTANTS
    Keys = {k1, k2}
    Versions = {1, 2, 3}
    InitialVersion = 1
    Manifest <- MCManifest
    Reqs = {r1, r2}
    Procs = {p1, p2}
    MaxStops = 1
    Supervised = TRUE
    StoreFaults = TRUE
SYMMETRY MCSymmetry
INVARIANTS TypeOK OneActiveUpdate InFlightNeverInterrupted OutcomesAreHonest
           RecordedVersionIsRunning RepliesMatchTheirKey
PROPERTY ImplementsContract
