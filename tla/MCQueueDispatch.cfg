SPECIFICATION Spec
CONSTANTS
    MaxItems = 1
    MaxAttempts = 2
    MaxReconciles = 2
    MaxGen = 2
    MaxCrashes = 1
    Policies = {"now"}
    NoAgent = {1}
    BarrierCertified = TRUE
    BumpWhileServing = FALSE
    PromptLoop = FALSE
    RestartDuringTick = FALSE
INVARIANTS
    
    
    SentIsDelivered
    
    
CHECK_DEADLOCK FALSE
