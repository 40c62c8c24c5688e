SPECIFICATION Spec
CONSTANTS
    Dialogs = {d1, d2}
    MaxTimeouts = 1
    MaxDrops = 1
    MaxCloses = 1
SYMMETRY Symmetry
INVARIANTS
    SomebodySucceeded
    FlagNotStuck
CHECK_DEADLOCK FALSE
