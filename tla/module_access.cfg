SPECIFICATION Spec
CONSTANTS
    Names <- MCNames
    Required <- MCRequired
    Needs <- MCNeeds
    Grants <- MCGrants
    Requests <- MCRequests
    AllowedPaths <- MCAllowedPaths
    AllowedNet <- MCAllowedNet
    Capacity = 2
    Unit = 2
    Rate = 1
    MaxTime = 3
    MaxInstances = 2
    MaxConns = 1
INVARIANTS AccountsKept NoLateDenial DependenciesInitialized
CHECK_DEADLOCK FALSE
