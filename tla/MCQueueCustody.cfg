SPECIFICATION CustodySpec
CONSTANTS
    Procs = {d1, d2}
    None = None
    MaxGen = 3
    MaxWrites = 3
SYMMETRY Daemons
INVARIANTS
    OneOwner
    NoLostUpdate
PROPERTIES
    FenceMonotone
    NoStaleWrite
CHECK_DEADLOCK FALSE
