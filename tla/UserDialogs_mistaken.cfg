SPECIFICATION Spec
CONSTANTS
    Dialogs = {d1}
    Slots = {1}
    ScanLimit = 2
    LastId = 1
    MaxBirths = 4
    MaxOthers = 2
    MaxTroubles = 0
PROPERTY RemovedWasOwn
CHECK_DEADLOCK FALSE
