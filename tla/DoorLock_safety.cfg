SPECIFICATION Spec
CONSTANTS
    Polls = {p1, p2}
    Callers = {c1, c2}
    Moving = 1
    Default = 2
    Relaxed = 3
    PushIdle = 1
    FastFor = 2
    TransitionFor = 2
    OpenFor = 1
    MaxMoves = 1
    MaxCommands = 2
    MaxTroubles = 1
    MaxEnrollments = 1
    MaxFrames = 2
SYMMETRY Symmetry
INVARIANTS
    TypeOK
    TransitionIsTimed
    OwnTransition
    BackstopArmed
PROPERTY UnreachableIsShown
