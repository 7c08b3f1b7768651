SPECIFICATION Spec
CONSTANTS
  c1 = c1
  c2 = c2
  c3 = c3
  Free = Free
  Calls <- TwoCalls
  Ops = {"Spawn", "Cancel", "Forward", "CloseForward", "Exec", "Close", "IsRunning"}
  Backends = {"remote", "docker", "local", "openshell"}
  MaxId = 2
  MaxReservations = 2
  MaxActive = 2
  MaxProcesses = 1
  MaxForwards = 1
SYMMETRY SymTwo
INVARIANTS IndInv  CancelIsFinal CloseIsFinal
