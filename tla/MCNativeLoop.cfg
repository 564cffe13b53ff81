SPECIFICATION FairSpec
CONSTANTS
    Re = {r1, r2}
    Caller = {c1}
    NoThread = NoThread
    QCap = 2
    MaxCmds = 3
    MaxInits = 2
INVARIANTS
    QueueOutlivesLoop
    InOrderAtMostOnce
PROPERTIES
    NothingAfterStop
    AcceptedIsHandled
    CallsReturn
CHECK_DEADLOCK FALSE
