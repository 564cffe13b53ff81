SPECIFICATION Spec
CONSTANTS
    a = a
    b = b
    Call = {a, b}
    NoCall = NoCall
    Mine = a
    writer = writer
    reader = reader
    Writing = {writer}
    Reading = {writer}
    NSlots = 1
    RingFrames = 2
    MaxSources = 2
    MaxTaps = 1
INVARIANTS
    SlotsAreLive
    NoMisdirectedPcm
    FlushIsPrompt
    FlushIsServed
CHECK_DEADLOCK FALSE
