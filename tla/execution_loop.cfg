SPECIFICATION FairSpec
CONSTANTS
  n1 = n1  n2 = n2
  Node = {n1, n2}
  InitFails = {n1}
  ShutdownFails = {n2}
  Packets = 3
  Pauses = 2
  SourceCapacity = 2
  SinkCapacity = 1
  Events = {"cancel", "closeSource", "closeSink", "dropHandles", "contend"}
INVARIANTS TypeOK AtMostOneLate LifecycleOrder LeavesNothingBehind
PROPERTIES ImplementsPipe LoopProgresses
CHECK_DEADLOCK FALSE
