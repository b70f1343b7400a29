SPECIFICATION Spec
CONSTANTS
    Asks = {a1}
    Leaves = {l1, l2}
    Bodies <- MCBodies
    MaxEdits = 2
    MaxRetries = 1
    a1 = a1
    l1 = l1
    l2 = l2
INVARIANTS
    GrantIsUnanimous
    NoSilentHang
    CacheCoherent
PROPERTIES
    HandlerEnds
CHECK_DEADLOCK FALSE
