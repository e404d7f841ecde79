SPECIFICATION MCFairSpec
CONSTANTS
  r1 = r1
  r2 = r2
  Runs = {r1, r2}
  Waiters = {w1}
  MaxChanges = 1
  MaxCallbacks = 1
  WatcherFaults = TRUE
  None = None
INVARIANTS
  TypeOK
  DartSeesTheNode
  JoinsAreReal
PROPERTIES
  PublicationBarrier
  WaitersAreReleased
  TeardownCompletes
