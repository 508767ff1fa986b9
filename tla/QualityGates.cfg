SPECIFICATION FairSpec
CONSTANTS
    NumTasks = 1
    MaxReviewRounds = 1
    MaxIterations = 2
    UiEnabled = TRUE
    MaxCommands = 1
    MaxFaults = 1
INVARIANTS
    TypeOK
    CompletionApproved
    FixRoundsBounded
    ExhaustionIsReal
PROPERTY
    RunPauses
