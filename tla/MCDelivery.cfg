CONSTANTS
    NumAgents = 3
    GateAgents = {3}
    Capabilities <- MCCapabilities
    Priority <- MCPriority
    NumTasks = 2
    FixTasks = {2}
    WithArtifacts = {1}
    FirstAgent <- MCFirstAgent
    Routing <- MCRouting
    Policies <- MCPolicies
    Nothing = Nothing
    MaxLeases <- MCMaxLeases
    MaxMishaps = 2
SPECIFICATION Spec
INVARIANTS
    TypeOK
    CompletedIsKept
    IntegratedWhenCompleted
    FixBuildsOnReviewed
    CopiesStayOut
PROPERTY OwnResultOnly
