SPECIFICATION FairSpec
CONSTANTS
    n1 = n1
    n2 = n2
    k1 = k1
    k2 = k2
    Nodes <- MCNodes
    Shared <- MCShared
    Kinds <- MCKinds
    Filters <- MCFilters
    RingSize = 1
    MaxEvents = 2
    MaxTasks = 2
INVARIANTS DeliversWhatIsKept LifecycleKept
PROPERTIES SubscribersServed
CHECK_DEADLOCK FALSE
