\* Failing open, two sessions one after the other, whatever calls still wait, no aborts, everything that can go on does.
SPECIFICATION FairSpec
CONSTANTS
  Calls = {c1, c2}
  Events <- MCEvents
  Dirs <- MCDirs
  Home <- MCHome
  ToolDot <- MCToolDot
  MaxCommand = 2
  MaxPrompt = 2
  NoRequest = NoRequest
  Sessions = {s1, s2}
  NoMandate = NoMandate
  NoSession = NoSession
  NoKey = NoKey
  NoObject = NoObject
  FailClosed = FALSE
  PostVerify = TRUE
  HostSessions = "sequential"
  HostAborts = FALSE
  HostRewrites = TRUE
  MaxNow = 0
  HasExporter = TRUE
  SinkErrors = {}
INVARIANT
  MetricsCountSession
PROPERTIES
  VerdictIsTrue
  KeepsPromise
  MandatesDrain
  EveryCallCompletes
CHECK_DEADLOCK FALSE
