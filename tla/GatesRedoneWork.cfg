SPECIFICATION Spec
CONSTANTS
    NumTasks = 1
    MaxReviewRounds = 1
    MaxIterations = 1
    UiEnabled = FALSE
    MaxCommands = 1
    MaxFaults = 0
INVARIANT
    RedoneWorkIsApproved
