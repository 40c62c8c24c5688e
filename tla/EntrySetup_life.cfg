SPECIFICATION FairSpec
CONSTANTS
    Addresses = {home, away}
    Home = home
    Passwords = {1, 2}
    MaxChanges = 2
    MaxTroubles = 1
    MaxSubmits = 1
    MaxVisits = 1
INVARIANTS
    TypeOK
    NothingLeftOpen
PROPERTIES
    OnlyToDoors
    StaysOnDoor
    Settles
CHECK_DEADLOCK FALSE
