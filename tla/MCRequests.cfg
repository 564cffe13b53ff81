SPECIFICATION FairSpec
CONSTANTS
    c1 = c1
    c2 = c2
    Calls <- MCCalls
    Settings <- MCSettings
    Digits = 1
    MaxTasks = 2
INVARIANTS
    HoldIsTrue
    TransferVerdict
    RequestIsNewest
    UnregisteredIsGone
    KeyReleased
PROPERTY
    RequestsEnd
CHECK_DEADLOCK FALSE
