SPECIFICATION Spec
CONSTANTS
  c1 = c1
  c2 = c2
  c3 = c3
  Free = Free
  Calls <- TwoCalls
  Ops = {"Spawn", "Close"}
  Backends = {"remote"}
  MaxId = 2
  MaxReservations = 2
  MaxActive = 1
  MaxProcesses = 1
  MaxForwards = 1
INVARIANTS StoppedIsDead
