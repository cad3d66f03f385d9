\* Three nodes, up to three edges; marks and feedback from callers name m1.
SPECIFICATION TopologySpec
CONSTANTS
  m1 = m1  n2 = n2  n3 = n3
  NodeId = {m1, n2, n3}
  Markable = {m1}
  MaxEdges = 3
  MaxMarks = 1
SYMMETRY Unmarked
INVARIANTS GraphConsistent SearchesAgree
PROPERTIES SplicesKeepPaths FailureKeepsGraph
