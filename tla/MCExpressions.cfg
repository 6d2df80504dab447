CONSTANTS
  Letter = {"a", "d", "n", "o", "r"}
  Digit = {"1"}
  Keyword <- Keywords
  Sources <- AllSources
SPECIFICATION Spec
CHECK_DEADLOCK FALSE
INVARIANTS
  TypeOK
  ScannedAsSpecified
  ByOneFollows
  TranslatedAsSpecified
  CrashesOnlyAtTheEnd
PROPERTY
  Terminates
