SPECIFICATION FairSpec
CONSTANTS
    Dialogs = {d1}
    MaxTimeouts = 1
    MaxDrops = 1
    MaxCloses = 1
INVARIANTS
    TypeOK
    OrphanOnlyKnownWays
    SuccessIsReal
    PollsAreRiddenOut
PROPERTIES
    DialogEnds
    DoorIsReleased
CHECK_DEADLOCK FALSE
