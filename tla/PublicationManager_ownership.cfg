SPECIFICATION MCSpec
CONSTANTS
  Ports = {443}
  Paths = {a, b}
  Handlers = {h1, h2}
  Ext = ext
  None = none
  MaxToken = 2
  MaxExternal = 1
  MaxLate = 1
SYMMETRY CoordinateSymmetry
CHECK_DEADLOCK FALSE
INVARIANTS
  TypeOK
  SweptIsClean
  MappingHasOneHolder
PROPERTIES
  ForeignConfigPreserved
