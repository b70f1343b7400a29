SPECIFICATION Spec
CONSTANTS
    Sessions = {s1, s2}
    Sigs = {g1}
    Exempt = {}
    Adverse = {"fail A"}
    AgentOf <- MCAgentOf
    Entries <- MCEntries
    MaxCalls = 4
    MaxTime = 1
    MaxParallel = 2
    Threshold = 3
    Window = 2
    PriorMatches = 1
    LeaseTime <- MCLeaseTime
    MaxDenials <- MCMaxDenials
    MinInterval = 0
    MinAccrued = 1
    Deadline = 1
    Freshness = 1
    Global = 1
    MaxSessions = 1
    RingMax = 3
    s1 = s1
    s2 = s2
    g1 = g1
INVARIANTS
    SlotsBalanced
    DenialsCapped
    DenialHasEvidence
CHECK_DEADLOCK FALSE
