SPECIFICATION Spec
CONSTANTS
    Dialogs = {d1, d2}
    Slots = {1, 2}
    ScanLimit = 3
    LastId = 2
    MaxBirths = 5
    MaxOthers = 1
    MaxTroubles = 1
SYMMETRY Symmetry
INVARIANTS
    TypeOK
    WrongOnlyIfGone
    ListedUnlessOvertaken
PROPERTY NoKnownSlotOverwritten
CHECK_DEADLOCK FALSE
