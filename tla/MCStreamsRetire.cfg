CONSTANTS
  c1 = c1
  c2 = c2
  p1 = p1
  p2 = p2
  free = free
  Free = free
  Calls <- TwoCalls
  Processes <- OneProcess
  Kinds <- BothKinds
  MaxStreams = 1
  MaxProcesses = 1
  MaxChunks = 1
SPECIFICATION Spec
INVARIANT
  CloseRetires
