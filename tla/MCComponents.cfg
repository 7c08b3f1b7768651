SPECIFICATION Spec
CONSTANTS
  Cleaners = {k1}
  MaxCreates = 2
  MaxFaults = 2
  MaxCrashes = 1
  Foreign = 9
  Openers = {p1, p2}
  Boxes = {b1}
  JailIndexes = {}
  TemplateNames = {t1}
  MaxWrites = 1
  MaxCommands = 1
  Keepers = {h1, h2, h3}
  Minting = {h3}
  MaxStarts = 2
  MaxTries = 2
  MaxLosses = 2
  Users = {u1, u2}
  Reaper = reaper
  MaxBox = 1
  MaxInvocations = 2
  MaxNow = 1
  MaxMishaps = 1
  MaxSecond = 1
  MaxCount = 0
  MaxBirths = 3
  Labels = {l1, l2}
  Elsewhere = {1}
  MaxTroubles = 2
  Files = {1, 2}
  Derived = {2}
  Texts = {"a", "b"}
  MaxEdits = 1
  MaxSyncs = 2
  MaxDrops = 2
  Callers = {c1, c2}
  MaxPid = 2
  MaxSpawns = 2
  MaxStops = 1
  MaxCuts = 1
  Polls = 2
  Runs = {r1, r2}
  MaxFailures = 2
  MaxPieces = 2
  MaxLines = 3
  MaxArguments = 2
INVARIANTS
  
  AcknowledgedIsGone
  WorkloadIsJournalled
  RunningIsFiltered
  NothingLeaks
  RecordsAreKept
  BackendIsRecorded
  
  
  
  
PROPERTIES
  ForeignUntouched
  DestroyFinishes
  RemovesItsOwn
  ExpiredIsReaped
\* each part is finite and comes to rest
CHECK_DEADLOCK FALSE
