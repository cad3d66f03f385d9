SPECIFICATION Spec
CONSTANTS
    h1 = h1  h2 = h2
    Handles = {h1, h2}
    Bodies = {"a"}
    UsedTags = {"CONTROL"}
    Modes = {"detailed"}
    Nodes = {"n1"}
    Deadlines = {1}
    DefaultTtl = 1
    Maintenance = {}
    PoolSize = 1
    Capacity = 1
    MaxIds = 2
    MaxWrites = 2
    MaxHops = 2
    MaxTime = 2
SYMMETRY Interchangeable
INVARIANTS HandlesAccounted
PROPERTIES PacketsAreValues TimesSurvive
CHECK_DEADLOCK FALSE
