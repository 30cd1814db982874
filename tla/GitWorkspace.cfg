SPECIFICATION Spec
CONSTANTS
  Paths = {"gitignore", "hideable"}
  IgnoreFile = "gitignore"
  Texts = {"missing", "hides", "other"}
  Missing = "missing"
  Patterns <- PatternsOf
  MaxCommits = 3
  MaxTurn = 1
INVARIANTS
  TypeOK
PROPERTIES
  CheckpointCommitsAll
  RestoreBringsBack
  ImplementsWorkspace
