SPECIFICATION Spec
CONSTANTS
    f = f
    g = g
    Callback = {f, g}
    MaxChanges = 3
    MaxEvents = 2
INVARIANT
    OffStops
CHECK_DEADLOCK FALSE
