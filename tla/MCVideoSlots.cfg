SPECIFICATION Spec
CONSTANTS
    a = a
    b = b
    writer = writer
    reader = reader
    Call = {a, b}
    NoCall = NoCall
    Mine = a
    Nobody = Nobody
    Writing = {writer}
    Reading = {writer}
    NSlots = 1
    NRing = 2
    Trigger = 1
    MaxSources = 2
    MaxTaps = 1
    MaxFrames = 3
INVARIANTS
    SlotsAreLive
    NoTornFrame
    NoMisdirectedFrame
    CountersAgree
CHECK_DEADLOCK FALSE
