SPECIFICATION Spec
CONSTANTS
    NumTasks = 2
    MaxAttempts = 2
    PoolSizes = {2}
    DelaySettings = {TRUE}
    MaxCrashes = 0
INVARIANTS
    BatchNeverRejects
CHECK_DEADLOCK FALSE
