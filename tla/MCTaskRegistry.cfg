SPECIFICATION Spec
CONSTANTS
    Sessions = {s1, s2, s3}
    Designs = {d1, d2}
    MaxOps = 3
    MaxFaults = 1
    s1 = s1
    s2 = s2
    s3 = s3
    d1 = d1
    d2 = d2
INVARIANTS
    NoLostUpdate
    
PROPERTIES
    ReadyIsCertified
    OperationsEnd
CHECK_DEADLOCK FALSE
