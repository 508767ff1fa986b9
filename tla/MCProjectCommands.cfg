SPECIFICATION FairSpec
CONSTANTS
    a = a
    b = b
    c = c
    v = v
    w = w
    Command <- MCCommand
    Reader <- MCReader
    Evaluator <- MCEvaluator
    Workflow <- MCWorkflow
    Earlier <- MCEarlier
    StartCommand = TRUE
    MaxSaves = 2
    MaxPolls = 1
    MaxCrashes = 1
INVARIANTS
    TypeOK
    SelectionStands
    HistoryAgrees
PROPERTY
    OwnServerStops
CHECK_DEADLOCK FALSE
