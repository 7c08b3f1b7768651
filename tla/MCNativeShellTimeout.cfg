CONSTANTS
  MaxChunks = 2
  Batch = 1
SPECIFICATION Spec
INVARIANT
  TimedOutIsLate
CHECK_DEADLOCK FALSE
