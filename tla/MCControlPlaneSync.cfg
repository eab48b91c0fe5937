\* Two syncs at a time, two versions of each document.
SPECIFICATION FairSpec
CONSTANTS
  Syncs = {s1, s2}
  StaleAfter = 1
  MaxVersion = 2
INVARIANT
  TypeOK
PROPERTIES
  NotOlderThanStart
  NeverGoesBack
  GoesStale
  EverySyncSettles
CHECK_DEADLOCK FALSE
