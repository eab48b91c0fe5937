\* Failing open, a sink that throws an ordinary error.
SPECIFICATION Spec
CONSTANTS
  Calls = {c1, c2}
  NoMandate = NoMandate
  FailClosed = FALSE
  HasExporter = FALSE
  SinkErrors = {"raw"}
INVARIANT
  DenialStands
CHECK_DEADLOCK FALSE
