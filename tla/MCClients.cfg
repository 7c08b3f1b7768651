CONSTANTS
  MaxChunks = 2
  Batch = 1
  Transfers = {t1, t2}
  Bytes = {a, b}
  MaxFile = 2
  MaxTransfers = 1
  Nobody = nobody
  Calls = {c1, c2}
  Processes = {p1}
  MaxStdio = 1
  MaxBuffer = 2
  MaxOutput = 2
  Free = free
SPECIFICATION Spec
INVARIANTS
  FinishedIsComplete
  LeavesNothing
  PublishedIsAcknowledged
  StagedIsOwned
  KillIsFinal
  
  LiveIsOwned
  
PROPERTY
  StdioReturns
CHECK_DEADLOCK FALSE
