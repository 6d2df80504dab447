CONSTANTS
  Letter = {"a", "d", "n", "o", "r"}
  Digit = {"1"}
  Keyword <- Keywords
  Sources <- TestedSources
SPECIFICATION Spec
CHECK_DEADLOCK FALSE
INVARIANT ScannedAsTested
