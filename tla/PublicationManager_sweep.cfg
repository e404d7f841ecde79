SPECIFICATION MCSpec
CONSTANTS
  Ports = {443}
  Paths = {a, b}
  Handlers = {h1}
  Ext = ext
  None = none
  MaxToken = 2
  MaxExternal = 0
  MaxLate = 1
SYMMETRY CoordinateSymmetry
INVARIANT SweepIsFinal
CHECK_DEADLOCK FALSE
