SPECIFICATION Spec
CONSTANTS
  None = None
  NoVector = NoVector
  MaxRuntimeSeconds = 2
  DependencyPolicy = "frozen"
  MaxIterations = 3
  MaxModelCalls = 4
  MaxFailureRecords = 2
  MaxCommands = 0
  Vectors <- MCVectors
INVARIANTS
  
  RejectedWorkIsNotBuiltOn
  CompletedIsVerified
  LogIsSorted
  HistoryMatchesStore
  BudgetIsRespected
  ContextIsCurrent
  CountsMatchTables
  ReportedCompletionIsVerified
PROPERTIES
  BestMovesForward
  TerminalIsFinal
  LedgerSpec
