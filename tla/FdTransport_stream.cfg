SPECIFICATION MCFairSpec
CONSTANTS
  MaxReadChunkSize = 2
  MaxInboundQueuedBytes = 2
  MaxPendingWriteBytes = 2
  ReadBudget = 2
  WriteBudget = 2
  WriteChunk = 2
  SocketBuffer = 2
  Sizes = {1, 2}
  MaxSent = 3
  MaxWrites = 3
  MaxPauses = 1
  Faults = TRUE
  Scenarios = {"inbound", "outbound", "both"}
CHECK_DEADLOCK FALSE
INVARIANTS
  TypeOK
  InboundIsExact
  OutboundIsHonest
PROPERTIES
  TransferCompletes
