SPECIFICATION Spec
CONSTANTS
    Dialogs = {d1}
    Slots = {1}
    ScanLimit = 3
    LastId = 2
    MaxBirths = 4
    MaxOthers = 0
    MaxTroubles = 0
INVARIANT NewUserListed
CHECK_DEADLOCK FALSE
