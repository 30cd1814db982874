SPECIFICATION Spec
CONSTANTS
  None = None
  MaxRuntimeSeconds = 2
  DependencyPolicy = "frozen"
  Evaluators <- MCEvaluators
  MaxEvaluators = 3
  Durations <- MCDurations
  Sizes <- MCSizes
  MaxAddedLines = 1
  MaxRemovedLines = None
  MaxTotalLines = 3
INVARIANTS
  TypeOK
  AcceptableIsBacked
  NothingRunsPastAGate
  VectorCountsResults
