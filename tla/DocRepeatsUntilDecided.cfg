SPECIFICATION Spec
CONSTANTS
  None = None
  NoVector = NoVector
  MaxRuntimeSeconds = 2
  DependencyPolicy = "frozen"
  MaxIterations = 2
  MaxModelCalls = 2
  MaxFailureRecords = 2
  MaxCommands = 1
  Vectors <- MCVectors
INVARIANT
  RepeatsUntilDecided
