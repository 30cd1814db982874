SPECIFICATION FairSpec
CONSTANTS
  None = None
  NoVector = NoVector
  MaxRuntimeSeconds = 2
  DependencyPolicy = "frozen"
  MaxIterations = 2
  MaxModelCalls = 2
  MaxFailureRecords = 2
  MaxCommands = 2
  Vectors <- MCVectors
INVARIANTS
  TypeOK
  
  DeclarationsAreBacked
  LogReplays
PROPERTIES
  SandboxIsReleased
