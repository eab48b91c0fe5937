\* Three runs over one file, with one change by others.
SPECIFICATION FairSpec
CONSTANTS
  FailClosed = TRUE
  Lower <- MCLower
  Text <- MCText
  Says <- MCSays
  Bare <- MCBare
  Pages <- MCPages
  Blank <- MCBlank
  LLMAnswers <- MCLLMAnswers
  Additions <- MCAdditions
  OldFiles <- MCOldFiles
  TopN = 2
  MaxChanges = 1
  MaxRuns = 3
INVARIANTS
  TypeOK
  NoActWithoutPermission
  ExtractsFromVerified
  SavedIsNotNews
  ResourcesReleased
PROPERTIES
  SavesMerge
  RunEnds
CHECK_DEADLOCK FALSE
