SPECIFICATION FairSpec
CONSTANTS
    NumTasks = 2
    MaxAttempts = 2
    PoolSizes = {1, 2}
    DelaySettings = {TRUE, FALSE}
    MaxCrashes = 1
INVARIANTS
    TypeOK
    SequentialPoolSound
PROPERTIES
    LockReleased
CHECK_DEADLOCK FALSE
