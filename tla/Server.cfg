SPECIFICATION ServerSpec
CONSTANTS
    Keys = {k1, k2}
    Versions = {1, 2, 3}
    InitialVersion = 1
    Policy <- MCPolicy
    Handlers = {h1, h2}
    MaxRestarts = 1
    eur = eur
    usd = usd
    Currencies = {eur, usd}
    Reqs = {r1, r2}
    Agreements <- MCAgreements
    Patches <- MCPatches
    MonthDays = 1
    MaxAmount = 2
    LastDate = 4
    MaxVersion = 2
    Automatic = {1}
    MaxRuns = 1
    MaxOutages = 0
    MaxMounts = 2
SYMMETRY ServerSymmetry
CHECK_DEADLOCK FALSE
INVARIANTS
    ServerTypeOK NoFalseSuccess AcknowledgedRunsHaveTheirJob
    NeverOverpaid OneOutstanding
PROPERTIES PaidHistoryIsKept StoppedServicesAreNotBilled
