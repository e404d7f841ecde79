SPECIFICATION MCFairSpec
CONSTANTS
  None = None
  t1 = t1
  t2 = t2
  t3 = t3
  Tokens <- ThreeTokens
  Calls <- AllCalls
  Scenarios = {"replace", "rescue", "reap", "reapDown", "logout", "reapLogout", "reset", "resetRescue", "resetAwait", "resetPrep", "refresh", "settling"}
CHECK_DEADLOCK FALSE
INVARIANTS
  TypeOK
  SlotsExclusive
  NoLateCommit
  CleanAnswersAreCovered
  RootHasOneWriter
  ProvenConfigIsLastLaunched
  HostNetworkBelongsToCurrent
PROPERTIES
  HostsOneNode
  LifecycleSettles
