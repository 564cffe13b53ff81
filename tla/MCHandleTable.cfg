SPECIFICATION Spec
CONSTANTS
    NSlots = 2
    GenMod = 2
    Ptr = {p1, p2, p3}
    NoPtr = NoPtr
    MaxAllocs = 5
SYMMETRY Symmetry
INVARIANTS
    RefsBalanced
    NoFalseHandle
    NoLeakedSlot
CHECK_DEADLOCK FALSE
