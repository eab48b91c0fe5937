\* With a retry.
SPECIFICATION Spec
CONSTANTS
  Callers = {a}
  FailureThreshold = 1
  ResetTimeout = 2
  SuccessThreshold = 1
  MaxRetries = 1
  ListenerThrows = {}
  MaxTotal = 0
PROPERTY
  NoCallWhileOpen
