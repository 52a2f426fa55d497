CONSTANTS
  MaxRecords = 2
  MaxHooks = 0
  RotationAt = {}
  CompromiseAt = {}
  WindowAt = {1, 2}
  EraseMode = {}
  AnchorOffered = {}
  ClockOffered = {}
  HookOffered = {}
  MaxPosition = 9
  Explored <- AnyRecipe
  Trusted = {}
SPECIFICATION Spec
INVARIANTS
  WindowUpToTotal
\* The pipeline ends with its verdict.
CHECK_DEADLOCK FALSE
