SPECIFICATION ProgressSpec
CONSTANTS
    Keys = {k1}
    Versions = {1, 2, 3}
    InitialVersion = 1
    Policy <- MCPolicy
    Handlers = {h1, h2}
    MaxRestarts = 1
    invite = invite
    reset = reset
    legacy = legacy
    Messages = {invite, legacy}
    Kind <- MCKind
    Workers = {w1, w2}
    LOCK_TIMEOUT = 3
    TIME_LIMIT = 1
    MAX_ATTEMPTS = 3
    MaxDelay = 2
    MaxQueued = 2
    MaxKills = 2
CHECK_DEADLOCK FALSE
INVARIANTS OneSender DeliveryIsAtLeastOnce
PROPERTIES EveryMessageSettles AcknowledgedRunsEnd
