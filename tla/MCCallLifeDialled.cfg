SPECIFICATION Spec
CONSTANTS
    MaxOps = 0
INVARIANT
    DialledStateIsReported
CHECK_DEADLOCK FALSE
