SPECIFICATION Spec
CONSTANTS
  p1 = p1
  p2 = p2
  a1 = a1
  a2 = a2
  b1 = b1
  s1 = s1
  s2 = s2
  None = None
  Procs <- TwoProcs
  Calls <- FiveCalls
  ProcOf <- TheirProcs
  Sweepers <- TwoSweepers
CHECK_DEADLOCK FALSE
INVARIANTS
  TypeOK
  LeaseIsSound
PROPERTIES
  LeaseIsExclusive
