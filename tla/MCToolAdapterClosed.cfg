\* Failing closed, no exporter, a telemetry sink that may throw anything.
SPECIFICATION Spec
CONSTANTS
  Calls = {c1, c2}
  NoMandate = NoMandate
  FailClosed = TRUE
  HasExporter = FALSE
  SinkErrors = {"denied", "unavailable", "raw"}
INVARIANTS
  TypeOK
  NoSilentGrant
  OnlyPermittedRun
CHECK_DEADLOCK FALSE
