SPECIFICATION MCSpec
CONSTANTS
  h1 = h1
  h2 = h2
  Scenarios = {"streams", "requests"}
  Handles = {h1, h2}
  Items = {i1, i2}
  Requests = {q1, q2}
  Runtimes = 2
  Backlog = 1
  MaxPending = 1
  None = None
CHECK_DEADLOCK FALSE
INVARIANTS
  DescriptorsAreReclaimed
