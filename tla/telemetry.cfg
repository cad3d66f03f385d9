SPECIFICATION Spec
CONSTANTS
    Calls = {"a", "b", "c"}
    Plans <- SmallPlans
    Nodes = {"n1"}
    Flows = {"f1", "f2"}
    Lengths = {3}
    Durations = {2, 5}
    Budget = 4
    Bounds <- TwoBounds
    Depths = {0}
    Window = 2
    MaxHops = 1
    MaxTime = 3
INVARIANTS RecordsKept PercentileBrackets ExportsAgree
CHECK_DEADLOCK FALSE
