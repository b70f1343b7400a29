SPECIFICATION Spec
CONSTANTS
    Tabs = {t1}
    Slots = {p1, p2}
    MaxIntents = 2
    Texts = {hi}
    MinAge = 1
    GcAge = 2
    MaxTicks = 1
    MaxHead = 1
    MaxPages = 3
    MaxPasses = 2
    MaxFaults = 3
    t1 = t1
    p1 = p1
    p2 = p2
    hi = hi
SYMMETRY Symmetry
INVARIANT
    ReadmitOnce
CHECK_DEADLOCK FALSE
