SPECIFICATION Spec
CONSTANTS
  Paths = {"gitignore", "hideable"}
  IgnoreFile = "gitignore"
  Texts = {"missing", "hides"}
  Missing = "missing"
  Patterns <- PatternsOf
  MaxCommits = 2
  MaxTurn = 1
PROPERTIES
  RestoreIsExact
