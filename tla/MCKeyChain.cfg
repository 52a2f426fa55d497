CONSTANTS
  Key = {k1, k2, k3}
  MaxU64 = 3
  None = None
  Forged = Forged
SPECIFICATION Spec
INVARIANTS
  TypeOK
  ChainOfCustody
  EventsAscend
  SealedAuthority
PROPERTIES
  AuthorityStable
\* Reading a file ends: with "ok" or with the first error.
CHECK_DEADLOCK FALSE
