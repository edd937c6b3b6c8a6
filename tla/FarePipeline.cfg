CONSTANTS
  None = None
  air = air
  ota1 = ota1
  ota2 = ota2
  raises = raises
  Raises <- raises
  Sources <- MCSources
  Direct <- MCDirect
  Searches <- MCSearches
  Answers <- MCAnswers
  DirectFirst = TRUE
  Weight <- MCWeight
  Bases <- MCBases
  Scale = 60
  MinimumGroup = 5
  MaxCrashes = 1
  MaxRevocations = 1
SPECIFICATION Spec
INVARIANTS
  TypeOK
  VerdictExplained
  FaresAccount
  IndexIsMean
  ReportsAgree
PROPERTIES
  ExclusionIsFinal
  OutliersAreFew
CHECK_DEADLOCK FALSE
