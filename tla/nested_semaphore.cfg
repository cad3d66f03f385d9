SPECIFICATION FairSpec
CONSTANTS
  c1 = c1  c2 = c2  c3 = c3  src = src  a = a  b = b  x = x  y = y  sink = sink
  Free = Free
  Call = {c1}
  Node <- NestedNodes
  Edges <- NestedEdges
  Emits <- NestedEmits
  Path <- NestedPaths
  ParallelCall = {c1}
  EntryOf <- EnterAtSrc
  LaneOf <- AllBulk
  EntryPoints = {src}
  ExitPoints = {b, x, y}
  Capacity <- NestedCapacity1
  MaxBranches = 1
  Absorbers = {}
  Failers = {}
  Panickers = {}
  Limited = {}
  Late = {}
  ShutdownRuns = FALSE
PROPERTY AllCallsReturn
CHECK_DEADLOCK FALSE
