SPECIFICATION RetrySpec
CONSTANTS
    Keys = {k1}
    Versions = {1, 2, 3}
    InitialVersion = 1
    Policy <- MCPolicy
    Handlers = {h1, h2}
    MaxRestarts = 1
CHECK_DEADLOCK FALSE
PROPERTY RunsEnd
