CONSTANTS
  Key = {k1, k2}
  MaxU64 = 2
  JournalHead = {h1, h2}
  Count = {1}
  Time = {1, 2}
  Forged = Forged
SPECIFICATION Spec
INVARIANTS
  TypeOK
  BoundaryUnambiguous
  SignedAtOwnPosition
  ChainedFromGenesis
  ClockReported
\* Reading a file ends: with "ok" or with the first error.
CHECK_DEADLOCK FALSE
