CONSTANTS
  Calls = {c1, c2}
  Processes = {p1}
  MaxStdio = 1
  MaxBuffer = 1
  MaxOutput = 1
  Free = free
SPECIFICATION Spec
INVARIANT
  NothingOutlivesClose
CHECK_DEADLOCK FALSE
