SPECIFICATION FairSpec
CONSTANTS
    NumTasks = 4
    Deps <- MCDeps
    GateTask = {}
    Domains <- MCDomains
    MaxAttempts <- MCMaxAttempts
    MaxParallel = 2
    LeaseLength = 2
    MaxDelay = 2
    MaxInterventions = 4
INVARIANTS
    TypeOK
    ExecutionSound
    BudgetHonoured
    ConflictExclusion
    StatusAgrees
    CapacityRespected
PROPERTIES
    EventuallySettled
    ImplementsLifecycle
CHECK_DEADLOCK FALSE
