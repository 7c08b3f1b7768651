CONSTANTS
  c1 = c1
  m1 = m1
  t1 = t1
  nobody = nobody
  Nobody = nobody
  Hosts <- BothHosts
  Collected <- OneCollected
  Managed <- OneManaged
  Tasks <- OneTask
SPECIFICATION FairSpec
INVARIANTS
  CleanedIsDead
PROPERTIES
  CollectorSpec DrainReturns
CHECK_DEADLOCK FALSE
