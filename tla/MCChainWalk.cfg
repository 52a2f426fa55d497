CONSTANTS
  b1 = b1
  b2 = b2
  w1 = w1
  w2 = w2
  Walk = {w1, w2}
  Body = {b1, b2}
  Forged = Forged
  MaxU64 = 3
  Anchor <- MCAnchor
SPECIFICATION Spec
INVARIANTS
  TypeOK
  Contiguous
  EveryLinkChecked
  SharedHistory
\* A walk ends: with "ok" or with the first error.
CHECK_DEADLOCK FALSE
