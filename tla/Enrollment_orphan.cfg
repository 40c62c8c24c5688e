SPECIFICATION Spec
CONSTANTS
    Dialogs = {d1}
    MaxTimeouts = 0
    MaxDrops = 0
    MaxCloses = 1
INVARIANT NoOrphan
CHECK_DEADLOCK FALSE
