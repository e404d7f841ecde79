SPECIFICATION Spec
CONSTANTS
  MaxToken = 2
  MaxCrashes = 1
CHECK_DEADLOCK FALSE
INVARIANTS
  TypeOK
  EnvelopeHasItsKey
  LeaseGuardsCustody
  SettledPairIsCoherent
  KeyMaterialWiped
