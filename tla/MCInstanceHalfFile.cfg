\* Two processes whose writes interrupt each other.
CONSTANTS
  Process = {c1, c2}
  Scene <- Crowd
  Inode = {i1, i2, i3}
  Empty = empty
  Torn = torn
  None = none
SPECIFICATION Spec
INVARIANT NeverHalfAFile
SYMMETRY Symmetry
