\* The streamed answer as the user sees it.
CONSTANTS
  Claim = {"a", "b", "c"}
  Cited <- MCCited
  MaxRounds = 2
  Grounding = {"degraded", "counted"}
  Here = here
  There = there
  Alias = alias
  Junk = junk
  Genesis = {k1, k2}
  Record <- MCRecord
  MaxLength = 2
  Feeds <- MCFeeds
  CONNECT_WAIT = 4
  STATE_TTL = 4
  MaxWritten = 3
  Slowest = 1
  Faults = {"request", "refresh"}
  Capture <- MCCapture
  MaxFaults = 2
  None = none
SPECIFICATION Spec
INVARIANT ShownVerbatim
CHECK_DEADLOCK FALSE
