SPECIFICATION LoopSpec
CONSTANTS
    Callers = {poll, service}
    Ids = {1, 2, 3, 4, 5}
    MaxLate = 1
INVARIANTS
    TypeOK
    Watched
    Serialised
    OwnAnswer
    LoginFirst
    PendingNotForgotten
    FreshStart
    AnnouncedIsCurrent
    StoppedIsClean
PROPERTIES
    QuietAfterStop
    ServiceSafety
    DeadLinkNoticed
    CallsReturn
    StopFinishes
    RecoversIfFair
    ProgressIfFair
CHECK_DEADLOCK FALSE
