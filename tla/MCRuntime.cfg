SPECIFICATION Spec
CONSTANTS
    SeqMod = 3
    QCap = 1
    MaxCmds = 3
INVARIANTS
    NoLostFuture
    OwnAnswer
    SuccessorIsSafe
    CloseIsNotDeath
    NobodyLeftWaiting
    DrainedStaysIdle
CHECK_DEADLOCK FALSE
