SPECIFICATION FairSpec
CONSTANTS
    MaxItems = 1
    MaxAttempts = 1
    MaxReconciles = 1
    MaxGen = 1
    MaxCrashes = 0
    Policies = {"queue"}
    NoAgent = {}
    BarrierCertified = FALSE
    BumpWhileServing = TRUE
    PromptLoop = TRUE
    RestartDuringTick = TRUE
PROPERTIES
    DispatchSettles
    ImplementsLifecycle
CHECK_DEADLOCK FALSE
