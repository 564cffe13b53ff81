SPECIFICATION Spec
CONSTANTS
    Byte <- MCByte
    Stream <- MCStream
    Zero = 0
    Cap = 4
    MaxLen = 3
    MaxOffered = 7
    MaxShort = 1
INVARIANTS
    NoSharedSlot
    CountersAreTrue
PROPERTIES
    SizeErrsSafe
    ImplementsFifo
CHECK_DEADLOCK FALSE
