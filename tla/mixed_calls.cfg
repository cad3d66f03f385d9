\* execute_parallel and execute_sequential together, scheduled fairly, on a
\* nested fan-out: x fails, src panics, b rejects; two permits, lanes of two.
\* A late execute_sequential at a node that is no entry point is refused.
SPECIFICATION FairSpec
CONSTANTS
  c1 = c1  c2 = c2  c3 = c3  src = src  a = a  b = b  x = x  y = y  sink = sink
  Free = Free
  Call = {c1, c2, c3}
  Node <- NestedNodes
  Edges <- MixedEdges
  Emits <- MixedEmits
  Path <- MixedPaths
  ParallelCall = {c1}
  EntryOf <- ThirdAtA
  LaneOf <- AllBulk
  EntryPoints = {src}
  ExitPoints = {x, y}
  Capacity <- NestedCapacity2
  MaxBranches = 2
  Absorbers = {}
  Failers = {x}
  Panickers = {src}
  Limited = {b}
  Late = {c3}
  ShutdownRuns = FALSE
INVARIANTS LockOwner FlowAccounted
PROPERTIES CallsSettle
