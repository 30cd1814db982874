SPECIFICATION Spec
CONSTANTS
  d1 = d1
  Data <- MCData
  MaxEvents = 4
  MaxIteration = 1
  MaxTime = 3
  StoreRunId = StoreRunId
  RunId = RunId
CHECK_DEADLOCK FALSE
INVARIANTS
  TypeOK
  ChainIsIntact
  ReadBackIsTheChain
  FoundManifestVerifies
  ManifestSealsTheRun
  RecordedFilesAreWhole
