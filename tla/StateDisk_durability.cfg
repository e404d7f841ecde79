SPECIFICATION Spec
CONSTANTS
  MaxKey = 2
  MaxVersion = 2
  MaxCrashes = 2
CHECK_DEADLOCK FALSE
INVARIANTS
  TypeOK
  StoreIsHonest
  PowerLossIsRecoverable
  RefusedOnlyAfterFault
