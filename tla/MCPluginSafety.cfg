\* Two calls, overlapping sessions, aborts, failing closed.
SPECIFICATION Spec
CONSTANTS
  Calls = {c1, c2}
  Events <- OneOfEach
  Dirs <- OneDir
  Home <- MCHome
  ToolDot <- MCToolDot
  MaxCommand = 2
  MaxPrompt = 2
  NoRequest = NoRequest
  Sessions = {s1, s2}
  NoMandate = NoMandate
  NoSession = NoSession
  NoKey = NoKey
  NoObject = NoObject
  FailClosed = TRUE
  PostVerify = TRUE
  HostSessions = "overlapping"
  HostAborts = TRUE
  HostRewrites = FALSE
  MaxNow = 1
  HasExporter = TRUE
  SinkErrors = {}
INVARIANTS
  TypeOK
  PendingIsOwed
  VerifiesOwnMandate
CHECK_DEADLOCK FALSE
