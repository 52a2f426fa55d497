CONSTANTS
  MaxRecords = 2
  MaxHooks = 2
  RotationAt = {2}
  CompromiseAt = {1, 2}
  WindowAt = {1}
  EraseMode = {"erase", "closure", "drop", "keep"}
  AnchorOffered <- HonestAnchors
  ClockOffered <- StoppedClock
  HookOffered <- MCHooks
  MaxPosition = 9
  Explored <- OneOrTwoHooks
  Trusted = {1, 2}
SPECIFICATION Spec
INVARIANTS
  ValidIsUnaltered
  DeviationIsReported
  VerifiersAgree
\* The pipeline ends with its verdict.
CHECK_DEADLOCK FALSE
