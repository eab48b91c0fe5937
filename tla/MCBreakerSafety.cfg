\* Three callers, one retry, a listener that may throw, though not on closing.
SPECIFICATION Spec
CONSTANTS
  Callers = {a, b, c}
  FailureThreshold = 2
  ResetTimeout = 2
  SuccessThreshold = 2
  MaxRetries = 1
  ListenerThrows = {"open", "half_open"}
  MaxTotal = 2
INVARIANTS
  TypeOK
  CountedOnce
PROPERTIES
  OpensOnConsecutiveFailures
  ClosesOnConsecutiveSuccesses
