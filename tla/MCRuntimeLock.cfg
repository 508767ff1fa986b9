SPECIFICATION FairSpec
CONSTANTS
    a = a
    b = b
    c = c
    d = d
    Command <- MCCommand
    PidOf <- MCPidOf
    MaxCrashes = 2
INVARIANTS
    TypeOK
    HolderIsRecorded
    SomeoneAcquired
PROPERTIES
    ImplementsLock
    StaleIsTakenOver
CHECK_DEADLOCK FALSE
