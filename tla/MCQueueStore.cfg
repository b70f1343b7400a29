SPECIFICATION Spec
CONSTANTS
    MaxItems = 2
    MaxClock = 2
    AdmissionIds = {a1, a2}
    NoId = NoId
    Payloads = {p1}
    Handles = {h1, h2}
    Nil = Nil
    StaleAfter = 0
    TTL <- MCTTL
    Cap <- MCCap
    ReceiptCap = 1
INVARIANTS
    CacheCoherent
    AdmissionOnce
    
    TerminalBounded
PROPERTIES
    LegacyModePreservesPolicyFile
    ImplementsLifecycle
CHECK_DEADLOCK FALSE
