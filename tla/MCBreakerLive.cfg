\* Two retries, steady demand, a listener that may throw on every transition.
SPECIFICATION BusySpec
CONSTANTS
  Callers = {a, b}
  FailureThreshold = 2
  ResetTimeout = 2
  SuccessThreshold = 2
  MaxRetries = 2
  ListenerThrows = {"closed", "open", "half_open"}
  MaxTotal = 0
INVARIANT
  CountersAgree
PROPERTIES
  EveryCallEnds
  RecoversFromOutage
