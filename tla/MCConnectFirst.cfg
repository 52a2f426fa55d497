\* A source nobody has ever connected.
CONSTANTS
  CONNECT_WAIT = 6
  STATE_TTL = 6
  MaxWritten = 3
  Slowest = 2
  Faults = {}
  None = none
SPECIFICATION Spec
INVARIANT UnknowableIsUnreported
CHECK_DEADLOCK FALSE
