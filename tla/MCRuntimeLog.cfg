SPECIFICATION SysFairSpec
CONSTANTS
    SeqMod = 3
    QCap = 1
    MaxCmds = 1
    Cap = 4
    HdrLen = 2
    MaxText = 1
    MaxLines = 3
    MaxRuns = 2
INVARIANT
    LinesAreKept
PROPERTIES
    CloseEnds
    DeathIsReported
    LinesAreRead
CHECK_DEADLOCK FALSE
