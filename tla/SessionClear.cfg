SPECIFICATION SessionSpec
CONSTANTS
    Users = {a}
    Calls = {read}
    MaxPairs = 2
CHECK_DEADLOCK FALSE
PROPERTY LogoutClearsTheSession
