SPECIFICATION Spec
CONSTANTS
  d1 = d1
  Data <- MCData
  MaxEvents = 2
  MaxIteration = 0
  MaxTime = 1
  StoreRunId = StoreRunId
  RunId = RunId
CHECK_DEADLOCK FALSE
INVARIANTS
  CommandVerifies
