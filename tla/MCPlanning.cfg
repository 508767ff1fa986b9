SPECIFICATION Spec
CONSTANTS
    NotAPlan <- MCNotAPlan
    Graphs <- MCGraphs
    Answers <- MCAnswers
    Failures <- MCFailures
    KnownCapabilities = {"api"}
    MaxTransport = 2
    Delays <- MCDelays
    Jitter = TRUE
INVARIANTS
    TypeOK
    VerdictIsRight
    FirstValidWins
    ReportIsSchedule
    FailureIsDiagnosed
    WaitsWithinBudget
PROPERTIES
    Validation
    RetriesOnlyTransient
    PlanningEnds
