SPECIFICATION MCSpec
CONSTANTS
  None = None
  t1 = t1
  t2 = t2
  t3 = t3
  Tokens <- ThreeTokens
  Calls <- AllCalls
  Scenarios = {"reapLogout", "resetRescue"}
CHECK_DEADLOCK FALSE
INVARIANTS
  CleanAnswersAreTrue
