CONSTANTS
    MaxChanges = 3
    MaxTroubles = 1
    RingSize = 1
SPECIFICATION Spec
INVARIANT FrontierCurrent
PROPERTIES
    NoRewind
    Converges
CHECK_DEADLOCK FALSE
