SPECIFICATION FairSpec
CONSTANTS
    MaxOps = 2
INVARIANTS
    StateIsReported
    VerdictIsTrue
    OnlyTimeoutsOrphan
PROPERTY
    WaitEnds
CHECK_DEADLOCK FALSE
