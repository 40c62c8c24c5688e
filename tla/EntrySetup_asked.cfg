SPECIFICATION Spec
CONSTANTS
    Addresses = {home, away}
    Home = home
    Passwords = {1, 2}
    MaxChanges = 0
    MaxTroubles = 0
    MaxSubmits = 1
    MaxVisits = 1
PROPERTY
    AskedOnlyAfterRejection
CHECK_DEADLOCK FALSE
