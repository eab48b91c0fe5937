\* Two calls, register called up to twice, failing open, either backend.
SPECIFICATION Spec
CONSTANTS
  Calls = {c1, c2}
  MaxRegisters = 2
  FailClosed = FALSE
INVARIANT
  TypeOK
PROPERTIES
  KeepsPromise
  NoBypass
CHECK_DEADLOCK FALSE
