SPECIFICATION Spec
CONSTANTS
    Polls = {p1}
    Callers = {c1}
    Moving = 1
    Default = 2
    Relaxed = 4
    PushIdle = 4
    FastFor = 3
    TransitionFor = 3
    OpenFor = 2
    MaxMoves = 1
    MaxCommands = 1
    MaxTroubles = 0
    MaxEnrollments = 0
    MaxFrames = 2
INVARIANT FastPolling
