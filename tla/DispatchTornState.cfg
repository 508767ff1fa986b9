SPECIFICATION Spec
CONSTANTS
    NumTasks = 2
    MaxAttempts = 2
    PoolSizes = {1}
    DelaySettings = {TRUE}
    MaxCrashes = 1
INVARIANTS
    StateReadable
CHECK_DEADLOCK FALSE
