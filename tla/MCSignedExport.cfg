CONSTANTS
  MaxRecords = 3
  MaxHooks = 1
  RotationAt = {2, 4}
  CompromiseAt = {1, 2, 3}
  WindowAt = {1, 2}
  EraseMode = {"erase", "closure"}
  AnchorOffered <- HonestAnchors
  ClockOffered <- StoppedClock
  HookOffered <- CompromiseHook
  MaxPosition = 9
  Trusted = {1, 3}
  Explored <- PlainOrSealed
SPECIFICATION Spec
INVARIANTS
  HonestIsValid
  CompromiseContained
PROPERTIES
  EventuallyVerdict
\* The pipeline ends with its verdict.
CHECK_DEADLOCK FALSE
