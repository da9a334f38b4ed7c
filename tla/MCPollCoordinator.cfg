SPECIFICATION FairSpec
CONSTANTS
    Timeout = 4
    LockWait = 3
    Threshold = 3
    Tolerated = 1
    WaitPerFailure = 2
    MaxWait = 5
    MaxFailed = 5
INVARIANTS
    ViewIsTrue
PROPERTIES
    ReauthIsEarned
    PollingNeverStops
    WrongPasswordEscalates
