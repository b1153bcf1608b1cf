CONSTANTS
  a = a
  b = b
  f = f
  Names = {a, b}
  Foreign = {f}
  MaxEdits = 2
  MaxTrees = 2
SYMMETRY Interchangeable
SPECIFICATION Spec
INVARIANT TypeOK
PROPERTIES
  MovesKeepWork
  DestroysOnlyListed
CHECK_DEADLOCK FALSE
