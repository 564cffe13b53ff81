SPECIFICATION Spec
CONSTANTS
    SeqMod = 4
    QCap = 1
    MaxCmds = 3
INVARIANT
    DrainRefuses
CHECK_DEADLOCK FALSE
