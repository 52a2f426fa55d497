\* Checks one at a time, killed or out of disk anywhere, and two at once.
CONSTANTS
  Process = {c1, c2}
  Scene <- Each
  Inode = {i1, i2, i3}
  Empty = empty
  Torn = torn
  None = none
SPECIFICATION Spec
INVARIANTS TypeOK EmptiedIsReported NoFalseAlarm
PROPERTY RecordsWhole
SYMMETRY Symmetry
