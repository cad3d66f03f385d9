\* Two overlapping execute_parallel calls on the diamond, and a late one that
\* is refused; a may fail, b may reject or panic, one permit each, and where
\* the branches converge lanes of one packet.
SPECIFICATION Spec
CONSTANTS
  c1 = c1  c2 = c2  c3 = c3  src = src  a = a  b = b  x = x  y = y  sink = sink
  Free = Free
  Call = {c1, c2, c3}
  Node <- DiamondNodes
  Path <- OneForkPaths
  ParallelCall = {c1, c2, c3}
  EntryOf <- ThirdAtA
  LaneOf <- OneControl
  EntryPoints = {src}
  ExitPoints = {sink}
  Edges <- DiamondEdges
  Capacity <- DiamondCapacity
  MaxBranches = 0
  Emits <- DiamondEmits
  Absorbers = {}
  Failers = {a}
  Panickers = {b}
  Limited = {b}
  Late = {c3}
  ShutdownRuns = TRUE
INVARIANTS TypeOK QueueCoversOwed NoStrayBranch PermitsConserved ResultsComplete NoForgedPackets
CHECK_DEADLOCK FALSE
