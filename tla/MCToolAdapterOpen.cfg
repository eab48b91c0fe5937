\* Failing open, a sink that never throws, an exporter whose promises settle in the end.
SPECIFICATION FairExporterSpec
CONSTANTS
  Calls = {c1, c2}
  NoMandate = NoMandate
  FailClosed = FALSE
  HasExporter = TRUE
  SinkErrors = {}
INVARIANT
  OneFaithfulEvent
PROPERTIES
  KeepsPromise
  EveryToolSettles
CHECK_DEADLOCK FALSE
