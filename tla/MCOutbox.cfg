SPECIFICATION Spec
CONSTANTS
    Tabs = {t1, t2}
    Slots = {p1, p2}
    MaxIntents = 2
    Texts = {hi}
    MinAge = 1
    GcAge = 1
    MaxTicks = 2
    MaxHead = 1
    MaxPages = 2
    MaxPasses = 2
    MaxFaults = 2
    t1 = t1
    t2 = t2
    p1 = p1
    p2 = p2
    hi = hi
SYMMETRY Symmetry
INVARIANT
    TextNeverVoid
PROPERTY
    OldestGoesFirst
CHECK_DEADLOCK FALSE
