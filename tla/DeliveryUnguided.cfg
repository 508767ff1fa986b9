CONSTANTS
    NumAgents = 3
    GateAgents = {3}
    Capabilities <- MCCapabilities
    Priority <- MCPriority
    NumTasks = 2
    FixTasks = {}
    WithArtifacts = {}
    FirstAgent <- MCFirstAgent
    Routing <- MCUnguidedRouting
    Policies = {}
    Nothing = Nothing
    MaxLeases <- MCOneLease
    MaxMishaps = 0
SPECIFICATION Spec
INVARIANT AllWorkIntegrated
