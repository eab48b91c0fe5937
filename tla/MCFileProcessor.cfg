\* Two .json files and another, one change while the agent runs, two runs.
SPECIFICATION Spec
CONSTANTS
  a = a
  b = b
  n = n
  Files <- MCFiles
  JsonFiles <- MCJsonFiles
  NoFile = NoFile
  Document <- MCDocument
  MaxChanges = 1
  MaxRuns = 2
INVARIANTS
  TypeOK
  ExecutedWasGranted
  WritesOnce
  CleanRunIsComplete
CHECK_DEADLOCK FALSE
