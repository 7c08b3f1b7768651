-------------------------- MODULE ResourcesRunning --------------------------
(***************************************************************************)
(* IndInv is preserved by the actions that start and stop what a resource  *)
(* runs: Create, Spawn, IsRunning and Cancel.                              *)
(***************************************************************************)
EXTENDS ResourcesLemmas


----------------------------------------------------------------------------
\* Create

\* Create, its consumed reservation and its published slot, preserves IndInv.
LEMMA CreateStep ==
  ASSUME IndInv, NEW c \in Calls, NEW r \in 1 .. next, NEW b \in Backends,
         Create(c, r, b)
  PROVE  IndInv'
<1>1. /\ call[c].at = "idle" /\ ~shutdown /\ r \in reservations /\ r \in Ids
      /\ kind[r] = "Resource"
      /\ reservations' = reservations \ {r}
      /\ UNCHANGED <<next, kind, of, shutdown, pending, closing, native, slot,
                     destroyed, processes, forwards, boxes, alive, commands,
                     tunnels, sweep, closed, cancelled, down>>
  BY Zenon DEF Create, Reserved, ids, fence, world, told, IndInv, TypeOK
<1>2. CASE UNCHANGED <<entries, guard, backend, call>>
  BY <1>1, <1>2, LessHolds, Zenon
<1>3. CASE /\ entries' = entries \cup {r} /\ Lock(c, r)
           /\ backend' = [backend EXCEPT ![r] = b]
           /\ Begin(c, "create.check", r, 0)
  <2>1. Moved(c, "create.check", r, 0)
    BY <1>1, <1>3, BeginMoves, BoundsAssumption DEF IndInv, Places, CreateAt, Ids
  <2>2. TypeOK'
    <3>1. /\ guard' \in [Ids -> Calls \cup {Free}]
          /\ backend' \in [Ids -> AllBackends \cup {"none"}]
      BY <1>1, <1>3, BackendsAssumption, Zenon DEF IndInv, TypeOK, Lock
    <3> QED
      BY <1>1, <1>3, <2>1, <3>1, Zenon DEF IndInv, TypeOK, Moved
  <2>3. /\ r \notin entries \cup closed \cup slot \cup boxes \cup destroyed
        /\ guard[r] = Free
        /\ \A i \in Ids : kind[i] \in {"Process", "Forward"} => of[i] # r
    <3>1. r \notin entries \cup closed /\ r \notin slot \cup boxes \cup destroyed
      BY <1>1, Zenon DEF IndInv, Kinded, Slots
    <3>2. \A d \in Calls : call[d].at \in Holding => call[d].r # r
      BY <1>1, <3>1 DEF IndInv, Working, WorkingOn, Held, HeldBy, Holding, CloseAt, CreateAt
    <3> QED
      BY <1>1, <3>1, <3>2 DEF IndInv, Minted, Mutex, TypeOK
  <2>4. OnlyTouches(r)
    <3>1. \A q \in Ids \ {r} : backend'[q] = backend[q]
      BY <1>3, Zenon DEF IndInv, TypeOK
    <3> QED
      BY <1>1, <1>3, <3>1, Zenon DEF OnlyTouches
  <2>5. Kinded' /\ Mutex'
    BY <1>1, <1>3, <2>1, <2>3, MutexAcquire, Zenon DEF IndInv, Kinded, Holding,
       CreateAt, CloseAt
  <2>6. WorkingOn(c)' /\ HeldBy(c)' /\ ClosingBy(c)'
    BY <1>1, <1>3, <2>1, <2>3, Zenon DEF Moved, WorkingOn, HeldBy, ClosingBy,
       CreateAt, SpawnAt, ExecAt, CancelAt, ForwardAt, CloseAt
  <2>7. SweepingBy(c)'
    BY <1>1, <2>1, NotSweeping, Zenon DEF IndInv, CloseAt, DownAt
  <2>8. Slots'
    <3>1. \A i \in alive : backend'[of[i]] = backend[of[i]]
      BY <1>1, <1>3, <2>3 DEF IndInv, Kinded, Minted, TypeOK
    <3>2. \A i \in entries' : backend'[i] # "none"
      BY <1>1, <1>3, BackendsAssumption DEF AllBackends, IndInv, Slots, TypeOK
    <3> QED
      BY <1>1, <1>3, <2>1, <2>3, <3>1, <3>2 DEF IndInv, Slots, Supervised, Moved
  <2>9. Acknowledged'
    <3>1. \A i \in cancelled : Supervised(i)' = Supervised(i)
      BY <1>1, <1>3, <2>3 DEF Supervised, IndInv, Acknowledged, TypeOK
    <3> QED
      BY <1>1, <1>3, <2>1, <2>3, <3>1 DEF IndInv, Acknowledged, Moved
  <2>10. Owns(c, r) /\ Settled(c)
    BY <1>1, <1>3, <2>1, <2>3, Zenon DEF Owns, Holding, Settled, Moved,
       CreateAt, SpawnAt, CloseAt, DownAt
  <2> QED
    BY <1>1, <2>1, <2>2, <2>3, <2>4, <2>5, <2>6, <2>7, <2>8, <2>9, <2>10,
       TaskStep, Zenon
<1> QED
  BY <1>2, <1>3, Zenon DEF Create

\* Create's checks under the slot mutex (closing, storage, spec) preserve IndInv.
LEMMA CreateCheckStep ==
  ASSUME IndInv, NEW c \in Calls, CreateCheck(c)
  PROVE  IndInv'
<1>1. PICK pl \in {"create.fail", "create.backend"} : Goto(c, pl)
  BY Zenon DEF CreateCheck
<1>2. /\ call[c].at = "create.check"
      /\ UNCHANGED <<registry, guard, owned, world, sweep, told>>
  BY Zenon DEF CreateCheck
<1>3. Moved(c, pl, call[c].r, call[c].p)
  BY <1>1, GotoMoves, Zenon DEF IndInv, Places, CreateAt
<1>4. UNCHANGED <<kind, entries, destroyed, slot>>
  BY <1>2, Zenon DEF registry, ids, owned, box
<1>5. WorkingOn(c)' /\ HeldBy(c)' /\ ClosingBy(c)'
  BY <1>2, <1>3, <1>4, Zenon DEF IndInv, Moved, Working, WorkingOn, Held,
     HeldBy, ClosingBy, CreateAt, SpawnAt, ExecAt, CancelAt, ForwardAt, CloseAt
<1>6. Mutex'
  BY <1>2, <1>3, MutexStay, Zenon DEF IndInv, Holding, CreateAt
<1>7. SweepingBy(c)'
  BY <1>2, <1>3, NotSweeping, Zenon DEF IndInv, CloseAt, DownAt
<1> QED
  BY <1>2, <1>3, <1>5, <1>6, <1>7, QuietStep, Zenon DEF IndInv, TypeOK,
     SpawnAt, StartPlaces

\* The provider allocating, refusing or leaving a record behind preserves IndInv.
LEMMA CreateBackendStep ==
  ASSUME IndInv, NEW c \in Calls, CreateBackend(c)
  PROVE  IndInv'
<1> DEFINE r == call[c].r
<1>1. /\ call[c].at = "create.backend"
      /\ UNCHANGED <<next, kind, of, shutdown, reservations, entries, pending,
                     closing, native, backend, destroyed, processes, forwards,
                     alive, commands, tunnels, sweep, closed, cancelled, down>>
  BY Zenon DEF CreateBackend, registry, ids, fence, told
<1>2. r \in Ids /\ kind[r] # "none" /\ r \in entries /\ r \notin destroyed \cup slot
  BY <1>1, Zenon DEF IndInv, Working, WorkingOn, Held, HeldBy, CreateAt
<1>3. PICK pl \in {"create.ports", "create.fail", "idle"} :
        /\ Moved(c, pl, call'[c].r, call'[c].p)
        /\ pl \in Holding => call'[c].r = r /\ UNCHANGED guard
        /\ pl \notin Holding => Unlock(r)
        /\ pl = "create.fail" => UNCHANGED slot
        /\ pl = "create.ports" => slot' = slot \cup {r}
  BY GotoMoves, ReturnMoves DEF CreateBackend, IndInv, Places, Holding, Moved,
     CreateAt, CloseAt
<1>4. /\ boxes \subseteq boxes' /\ slot \subseteq slot'
      /\ boxes' \subseteq boxes \cup {r} /\ slot' \subseteq slot \cup {r}
      /\ r \in boxes' => r \in slot'
  BY <1>2, Zenon DEF CreateBackend, IndInv, Slots
<1>5. TypeOK' /\ Kinded'
  BY <1>1, <1>2, <1>3, <1>4 DEF IndInv, TypeOK, Kinded, Moved, Unlock
<1>6. OnlyTouches(r)
  BY <1>1, <1>4, Zenon DEF OnlyTouches
<1>7. Mutex'
  BY <1>1, <1>2, <1>3, MutexStay, MutexRelease, Zenon DEF IndInv, Holding,
     CreateAt
<1>8. WorkingOn(c)' /\ HeldBy(c)' /\ ClosingBy(c)'
  BY <1>1, <1>2, <1>3, AtRest, Zenon DEF Moved, WorkingOn, HeldBy, ClosingBy,
     Holding, CreateAt, SpawnAt, ExecAt, CancelAt, ForwardAt, CloseAt, DownAt
<1>9. Slots'
  BY <1>1, <1>2, <1>3, <1>4 DEF IndInv, Slots, Supervised, Moved
<1>10. Acknowledged'
  BY <1>1, <1>3, AcknowledgedKept, Zenon DEF IndInv, StartPlaces
<1>11. SweepingBy(c)'
  BY <1>1, <1>3, NotSweeping, Zenon DEF IndInv, CreateAt, SpawnAt, CloseAt,
     DownAt
<1>12. Owns(c, r) /\ Settled(c)
  BY <1>1, <1>2, <1>3, Zenon DEF Owns, Holding, Settled, Moved, CreateAt,
     SpawnAt, CloseAt, DownAt
<1> QED
  BY <1>2, <1>3, <1>5, <1>6, <1>7, <1>8, <1>9, <1>10, <1>11, <1>12, TaskStep,
     Zenon

\* The end of Create, with or without the published ports, preserves IndInv.
LEMMA CreatePortsStep ==
  ASSUME IndInv, NEW c \in Calls, CreatePorts(c)
  PROVE  IndInv'
<1>1. /\ call[c].at = "create.ports" /\ Unlock(call[c].r)
      /\ Moved(c, "idle", 0, 0)
      /\ UNCHANGED <<registry, owned, world, sweep, told>>
  BY ReturnMoves, Zenon DEF CreatePorts, IndInv
<1>2. call[c].r \in Ids
  BY <1>1, Zenon DEF IndInv, Working, WorkingOn, CreateAt
<1>3. Mutex' /\ SweepingBy(c)'
  BY <1>1, <1>2, MutexRelease, NotSweeping, Zenon DEF IndInv, Holding,
     CreateAt, SpawnAt, CloseAt, DownAt
<1> QED
  BY <1>1, <1>3, AtRest, QuietStep, Zenon DEF IndInv, TypeOK, StartPlaces,
     Unlock, CreateAt, SpawnAt, CloseAt, DownAt

\* A failed Create that takes its entry back preserves IndInv.
LEMMA CreateFailStep ==
  ASSUME IndInv, NEW c \in Calls, CreateFail(c)
  PROVE  IndInv'
<1> DEFINE r == call[c].r
<1>1. /\ call[c].at = "create.fail" /\ Unlock(r)
      /\ Moved(c, "idle", 0, 0)
      /\ entries' = entries \ {r}
      /\ UNCHANGED <<next, kind, of, shutdown, reservations, pending,
                     closing, native, slot, backend, destroyed, processes, forwards,
                     boxes, alive, commands, tunnels, sweep, closed, cancelled, down>>
  BY ReturnMoves, Zenon DEF CreateFail, IndInv, ids, fence, owned, box, world,
     told
<1>2. r \in Ids /\ r \notin slot
  BY <1>1, Zenon DEF IndInv, Working, WorkingOn, Held, HeldBy, CreateAt
<1>3. TypeOK' /\ Kinded'
  BY <1>1, Zenon DEF IndInv, TypeOK, Kinded, Moved, Unlock
<1>4. Mutex' /\ SweepingBy(c)'
  BY <1>1, <1>2, MutexRelease, NotSweeping, Zenon DEF IndInv, Holding,
     CreateAt, SpawnAt, CloseAt, DownAt
<1>5. Slots'
  BY <1>1, <1>2 DEF IndInv, Slots, Supervised, Moved
<1>6. Acknowledged'
  BY <1>1, AcknowledgedKept, Zenon DEF IndInv, StartPlaces
<1>7. OnlyTouches(r)
  BY <1>1, Zenon DEF OnlyTouches
<1>8. Owns(c, r) /\ Settled(c)
  BY <1>1, <1>2, Zenon DEF Owns, Holding, Settled, Moved, CreateAt, SpawnAt,
     CloseAt, DownAt
<1> QED
  BY <1>1, <1>2, <1>3, <1>4, <1>5, <1>6, <1>7, <1>8, AtRest, TaskStep, Zenon

----------------------------------------------------------------------------
\* Spawn and IsRunning

\* Spawn, which turns its reservation into a queued startup, preserves IndInv.
LEMMA SpawnStep ==
  ASSUME IndInv, NEW c \in Calls, NEW p \in 1 .. next, NEW r \in 1 .. next,
         Spawn(c, p, r)
  PROVE  IndInv'
<1>1. /\ call[c].at = "idle" /\ ~shutdown /\ p \in reservations /\ kind[p] = "Process"
      /\ of[p] = r /\ reservations' = reservations \ {p}
      /\ UNCHANGED <<next, kind, of, shutdown, entries, closing, native, guard,
                     slot, backend, destroyed, processes, forwards, boxes, alive,
                     commands, tunnels, sweep, closed, cancelled, down>>
  BY Zenon DEF Spawn, Reserved, ids, fence, owned, box, world, told
<1>2. p \in Ids /\ r \in Ids /\ kind[r] = "Resource" /\ p \notin cancelled
  BY <1>1, Zenon DEF IndInv, TypeOK, Minted, Acknowledged, Ids
<1>3. Minted'
  BY <1>1, MintedKept, Zenon DEF IndInv
<1>4. CASE UNCHANGED <<pending, call>>
  BY <1>1, <1>4, LessHolds, Zenon
<1>5. CASE /\ pending' = [pending EXCEPT ![p] = "live"]
           /\ Begin(c, "spawn.slot", r, p)
  <2>1. Moved(c, "spawn.slot", r, p)
    BY <1>2, <1>5, BeginMoves, BoundsAssumption DEF IndInv, Places, Ids,
       SpawnAt
  <2>2. TypeOK' /\ Kinded'
    BY <1>1, <1>2, <1>5, <2>1 DEF IndInv, TypeOK, Kinded, Moved
  <2>3. Mutex'
    BY <1>1, <2>1, MutexStay, Zenon DEF IndInv, Holding, CreateAt, SpawnAt,
       CloseAt
  <2>4. Working'
    <3>1. WorkingOn(c)'
      BY <1>1, <1>2, <1>5, <2>1 DEF IndInv, TypeOK, Moved, WorkingOn, CreateAt,
         SpawnAt, ExecAt, CancelAt, ForwardAt, CloseAt, DownAt
    <3>2. ASSUME NEW d \in Calls \ {c} PROVE WorkingOn(d)'
      BY <1>1, <1>2, <1>5, <2>1 DEF IndInv, TypeOK, Moved, Working, WorkingOn
    <3> QED
      BY <3>1, <3>2, Zenon DEF Working
  <2>5. HeldBy(c)' /\ ClosingBy(c)' /\ OnlyTouches(0)
    BY <1>1, <2>1, Zenon DEF Moved, HeldBy, ClosingBy, OnlyTouches, CreateAt,
       SpawnAt, CloseAt, DownAt
  <2>6. \A d \in Calls \ {c} : call[d].at \in Holding => call[d].r # 0
    BY DEF IndInv, Working, WorkingOn, Holding, Ids, CreateAt, SpawnAt, ExecAt,
       CancelAt, ForwardAt, CloseAt, DownAt
  <2>7. Held' /\ Closing'
    BY <1>1, <2>1, <2>5, <2>6, HeldKept, ClosingKept, Zenon DEF IndInv, TypeOK
  <2>8. OneStartup'
    BY <1>1, <2>1 DEF IndInv, OneStartup, Working, WorkingOn, Moved
  <2>9. Slots'
    BY <1>1, <2>1 DEF IndInv, Slots, Supervised, Moved
  <2>10. Acknowledged'
    BY <1>1, <1>2, <1>5, <2>1 DEF IndInv, TypeOK, Acknowledged, Supervised, Moved
  <2>11. Sweeping'
    <3>1. SweepingBy(c)'
      BY <1>1, <2>1, NotSweeping, Zenon DEF IndInv, CreateAt, SpawnAt, CloseAt,
         DownAt
    <3>2. ASSUME NEW d \in Calls \ {c} PROVE SweepingBy(d)'
      BY <1>1, <2>1, Zenon DEF IndInv, Sweeping, SweepingBy, Moved
    <3> QED
      BY <1>1, <3>1, <3>2, Zenon DEF IndInv, Sweeping
  <2> QED
    BY <1>3, <2>2, <2>3, <2>4, <2>7, <2>8, <2>9, <2>10, <2>11, Zenon DEF IndInv
<1> QED
  BY <1>4, <1>5, Zenon DEF Spawn

\* The lookup of the slot by a queued startup preserves IndInv.
LEMMA SpawnSlotStep ==
  ASSUME IndInv, NEW c \in Calls, SpawnSlot(c)
  PROVE  IndInv'
<1>1. PICK pl \in {"spawn.lock", "spawn.done"} : Goto(c, pl)
  BY Zenon DEF SpawnSlot
<1>2. /\ call[c].at = "spawn.slot"
      /\ UNCHANGED <<registry, guard, owned, world, sweep, told>>
  BY Zenon DEF SpawnSlot
<1>3. Moved(c, pl, call[c].r, call[c].p)
  BY <1>1, GotoMoves, Zenon DEF IndInv, Places, SpawnAt
<1>4. UNCHANGED <<kind, of, reservations, pending>>
  BY <1>2, Zenon DEF registry, ids
<1>5. WorkingOn(c)' /\ HeldBy(c)' /\ ClosingBy(c)'
  BY <1>2, <1>3, <1>4, Zenon DEF IndInv, Moved, Working, WorkingOn, HeldBy,
     ClosingBy, CreateAt, SpawnAt, ExecAt, CancelAt, ForwardAt, CloseAt, DownAt
<1>6. Mutex' /\ SweepingBy(c)'
  BY <1>2, <1>3, MutexStay, NotSweeping, Zenon DEF IndInv, Holding, CreateAt,
     SpawnAt, CloseAt, DownAt
<1> QED
  BY <1>2, <1>3, <1>5, <1>6, QuietStep, Zenon DEF IndInv, TypeOK, StartPlaces,
     SpawnAt

\* A startup that takes the slot mutex, checks that it may still start and
\* records its process preserves IndInv.
LEMMA SpawnLockStep ==
  ASSUME IndInv, NEW c \in Calls, SpawnLock(c)
  PROVE  IndInv'
<1> DEFINE r == call[c].r
           p == call[c].p
<1>1. /\ call[c].at = "spawn.lock" /\ guard[r] = Free
      /\ UNCHANGED <<next, kind, of, shutdown, reservations, entries, pending,
                     closing, native, slot, backend, destroyed, forwards, boxes,
                     commands, tunnels, sweep, closed, cancelled, down>>
  BY Zenon DEF SpawnLock, registry, ids, fence, box, told
<1>2. /\ r \in Ids /\ p \in Ids /\ kind[p] = "Process" /\ of[p] = r
      /\ kind[r] # "none" /\ p \notin reservations /\ pending[p] # "no"
  BY <1>1, Zenon DEF IndInv, Working, WorkingOn, SpawnAt
<1>3. PICK pl \in {"spawn.done", "spawn.start"} :
        /\ Goto(c, pl)
        /\ pl = "spawn.done" => UNCHANGED guard
        /\ pl = "spawn.start" => Lock(c, r) /\ MaySpawn(r, p) /\ backend[r] # "local"
        /\ pl = "spawn.start" /\ backend[r] = "docker" =>
             processes' = [processes EXCEPT ![p] = "owned"]
  BY <1>2, Zenon DEF SpawnLock
<1>4. \/ UNCHANGED <<processes, alive>>
      \/ /\ MaySpawn(r, p) /\ processes' = [processes EXCEPT ![p] = "owned"]
         /\ alive' = alive \/ alive' = alive \cup {p}
  BY Zenon DEF SpawnLock
<1>5. Moved(c, pl, r, p)
  BY <1>3, GotoMoves, Zenon DEF IndInv, Places, SpawnAt
<1>6. TypeOK' /\ Kinded'
  BY <1>1, <1>2, <1>3, <1>4, <1>5 DEF IndInv, TypeOK, Kinded, Moved, Lock
<1>7. OnlyTouches(r)
  BY <1>1, <1>2, <1>4 DEF OnlyTouches, IndInv, TypeOK
<1>8. Mutex'
  BY <1>1, <1>2, <1>3, <1>5, MutexStay, MutexAcquire, Zenon DEF IndInv,
     Holding, CreateAt, SpawnAt, CloseAt
<1>9. WorkingOn(c)' /\ ClosingBy(c)'
  BY <1>1, <1>2, <1>5, Zenon DEF Moved, WorkingOn, ClosingBy, CreateAt,
     SpawnAt, ExecAt, CancelAt, ForwardAt, CloseAt, DownAt
<1>10. HeldBy(c)'
  <2>1. pl = "spawn.start" => /\ r \in slot \ destroyed
                              /\ backend[r] \in {"docker", "remote"}
    BY <1>2, <1>3 DEF MaySpawn, IndInv, Slots, TypeOK, AllBackends
  <2> QED
    BY <1>1, <1>2, <1>3, <1>5, <2>1 DEF Moved, HeldBy, IndInv, TypeOK,
       CreateAt, SpawnAt, CloseAt, DownAt
<1>11. Slots'
  BY <1>1, <1>2, <1>4, <1>5 DEF IndInv, TypeOK, Slots, Supervised, Moved, MaySpawn
<1>12. Acknowledged'
  <2>1. CASE MaySpawn(r, p)
    <3>1. p \notin cancelled
      BY <2>1, <1>2, Zenon DEF IndInv, TypeOK, Acknowledged, MaySpawn
    <3>2. alive' \subseteq alive \cup {p}
      BY <1>4, Zenon
    <3>3. \A d \in Calls : call'[d].p = p \/ call'[d] = call[d]
      BY <1>5, Zenon DEF Moved
    <3>4. ASSUME NEW i \in cancelled
          PROVE  /\ i \in alive' => ~Supervised(i)
                 /\ \A d \in Calls : call'[d].at \in StartPlaces => call'[d].p # i
      BY <3>1, <3>2, <3>3 DEF IndInv, Acknowledged, StartPlaces
    <3> QED
      BY <1>1, <3>4, Zenon DEF IndInv, Acknowledged, Supervised, StartPlaces
  <2>2. CASE ~MaySpawn(r, p)
    BY <2>2, <1>1, <1>3, <1>4, <1>5, AcknowledgedKept, Zenon DEF IndInv,
       StartPlaces
  <2> QED
    BY <2>1, <2>2, Zenon
<1>13. SweepingBy(c)'
  BY <1>1, <1>5, NotSweeping, Zenon DEF IndInv, CreateAt, SpawnAt, CloseAt,
     DownAt
<1>14. Owns(c, r) /\ Settled(c)
  BY <1>1, <1>2, <1>5, Zenon DEF Owns, Holding, Settled, Moved, SpawnAt
<1> QED
  BY <1>2, <1>5, <1>6, <1>7, <1>8, <1>9, <1>10, <1>11, <1>12, <1>13, <1>14,
     TaskStep, Zenon

\* The reply to a start, a lost one included, preserves IndInv.
LEMMA SpawnStartStep ==
  ASSUME IndInv, NEW c \in Calls, SpawnStart(c)
  PROVE  IndInv'
<1> DEFINE r == call[c].r
           p == call[c].p
<1>1. /\ call[c].at = "spawn.start"
      /\ UNCHANGED <<next, kind, of, shutdown, reservations, entries, pending,
                     closing, native, slot, backend, destroyed, forwards, boxes,
                     commands, tunnels, sweep, closed, cancelled, down>>
  BY Zenon DEF SpawnStart, registry, ids, fence, box, told
<1>2. /\ r \in Ids /\ p \in Ids /\ kind[p] = "Process" /\ of[p] = r
      /\ kind[r] # "none" /\ p \notin reservations /\ pending[p] # "no"
      /\ r \in slot \ destroyed /\ (backend[r] = "docker" => processes[p] = "owned")
      /\ backend[r] \in {"docker", "remote"} /\ p \notin cancelled
  BY <1>1, Zenon DEF IndInv, Working, WorkingOn, Held, HeldBy, Acknowledged,
     SpawnAt
<1>3. PICK pl \in {"spawn.done", "spawn.stop"} :
        /\ Goto(c, pl)
        /\ pl = "spawn.done" => Unlock(r)
        /\ pl = "spawn.stop" => UNCHANGED guard /\ backend[r] = "docker"
  BY Zenon DEF SpawnStart
<1>4. /\ processes' = processes \/ processes' = [processes EXCEPT ![p] = "owned"]
      /\ alive' = alive \/ alive' = alive \cup {p}
  BY Zenon DEF SpawnStart
<1>5. Moved(c, pl, r, p)
  BY <1>3, GotoMoves, Zenon DEF IndInv, Places, SpawnAt
<1>6. TypeOK' /\ Kinded'
  BY <1>1, <1>2, <1>3, <1>4, <1>5 DEF IndInv, TypeOK, Kinded, Moved, Unlock
<1>7. OnlyTouches(r)
  BY <1>1, <1>2, <1>4 DEF OnlyTouches, IndInv, TypeOK
<1>8. Mutex'
  BY <1>1, <1>2, <1>3, <1>5, MutexStay, MutexRelease, Zenon DEF IndInv,
     Holding, CreateAt, SpawnAt, CloseAt
<1>9. WorkingOn(c)' /\ ClosingBy(c)'
  BY <1>1, <1>2, <1>5, Zenon DEF Moved, WorkingOn, ClosingBy, CreateAt,
     SpawnAt, ExecAt, CancelAt, ForwardAt, CloseAt, DownAt
<1>10. HeldBy(c)'
  BY <1>1, <1>2, <1>3, <1>4, <1>5 DEF Moved, HeldBy, IndInv, TypeOK, CreateAt,
     SpawnAt, CloseAt, DownAt
<1>11. Slots'
  <2>2. \A i \in alive' : Supervised(i)' => processes'[i] = "owned"
    BY <1>1, <1>2, <1>4 DEF IndInv, TypeOK, Slots, Supervised
  <2> QED
    BY <1>1, <1>2, <1>4, <1>5, <2>2 DEF IndInv, TypeOK, Slots, Supervised, Moved
<1>12. Acknowledged'
  BY <1>1, <1>2, <1>4, <1>5 DEF IndInv, Acknowledged, Supervised, Moved
<1>13. SweepingBy(c)'
  BY <1>1, <1>5, NotSweeping, Zenon DEF IndInv, CreateAt, SpawnAt, CloseAt,
     DownAt
<1>14. Owns(c, r) /\ Settled(c)
  BY <1>1, <1>2, <1>5, Zenon DEF Owns, Holding, Settled, Moved, SpawnAt
<1> QED
  BY <1>2, <1>5, <1>6, <1>7, <1>8, <1>9, <1>10, <1>11, <1>12, <1>13, <1>14,
     TaskStep, Zenon

\* Stopping a Docker process that was cancelled during its start preserves
\* IndInv.
LEMMA SpawnStopStep ==
  ASSUME IndInv, NEW c \in Calls, SpawnStop(c)
  PROVE  IndInv'
<1> DEFINE r == call[c].r
           p == call[c].p
<1>1. /\ call[c].at = "spawn.stop" /\ Unlock(r) /\ Moved(c, "spawn.done", r, p)
      /\ UNCHANGED <<next, kind, of, shutdown, reservations, entries, pending,
                     closing, native, slot, backend, destroyed, forwards, boxes,
                     commands, tunnels, sweep, closed, cancelled, down>>
  BY GotoMoves, Zenon DEF SpawnStop, registry, ids, fence, box, told, IndInv,
     Places, SpawnAt
<1>2. /\ r \in Ids /\ p \in Ids /\ kind[p] = "Process" /\ of[p] = r
      /\ kind[r] # "none" /\ p \notin reservations /\ pending[p] # "no"
      /\ r \in slot /\ p \notin cancelled
  BY <1>1, Zenon DEF IndInv, Working, WorkingOn, Held, HeldBy, Acknowledged,
     SpawnAt
<1>3. PICK o \in {"stopped", "kept"} : StopAndForget(p, o)
  BY Zenon DEF SpawnStop
<1>4. \/ UNCHANGED <<alive, processes>>
      \/ alive' = alive \ {p} /\ processes' = [processes EXCEPT ![p] = "absent"]
  BY <1>2, <1>3, Zenon DEF StopAndForget, Kills, StopOk, IndInv, TypeOK
<1>5. TypeOK' /\ Kinded'
  BY <1>1, <1>2, <1>4 DEF IndInv, TypeOK, Kinded, Moved, Unlock
<1>6. OnlyTouches(r)
  BY <1>1, <1>2, <1>4 DEF OnlyTouches, IndInv, TypeOK
<1>7. Mutex' /\ SweepingBy(c)'
  <2>1. Mutex'
    BY <1>1, <1>2, MutexRelease, Zenon DEF IndInv, Holding, CreateAt, SpawnAt,
       CloseAt
  <2>2. SweepingBy(c)'
    <3>1. call[c].at \notin CloseAt \cup DownAt /\ "spawn.done" \notin DownAt
      BY <1>1, Zenon DEF CloseAt, DownAt
    <3> QED
      BY <1>1, <3>1, NotSweeping, Zenon DEF IndInv
  <2> QED
    BY <2>1, <2>2, Zenon
<1>8. WorkingOn(c)' /\ HeldBy(c)' /\ ClosingBy(c)'
  BY <1>1, <1>2, Zenon DEF Moved, WorkingOn, HeldBy, ClosingBy, CreateAt,
     SpawnAt, ExecAt, CancelAt, ForwardAt, CloseAt, DownAt
<1>9. Slots'
  BY <1>1, <1>2, <1>4 DEF IndInv, TypeOK, Slots, Supervised, Moved
<1>10. Acknowledged'
  BY <1>1, <1>4, AcknowledgedKept, Zenon DEF IndInv, StartPlaces
<1>11. Owns(c, r) /\ Settled(c)
  BY <1>1, <1>2, Zenon DEF Owns, Holding, Settled, Moved, SpawnAt
<1> QED
  BY <1>1, <1>2, <1>5, <1>6, <1>7, <1>8, <1>9, <1>10, <1>11, TaskStep, Zenon

\* A startup that leaves the queue preserves IndInv.
LEMMA SpawnDoneStep ==
  ASSUME IndInv, NEW c \in Calls, SpawnDone(c)
  PROVE  IndInv'
<1> DEFINE p == call[c].p
<1>1. /\ call[c].at = "spawn.done" /\ Moved(c, "spawn.notify", 0, 0)
      /\ pending' = [pending EXCEPT ![p] = "no"]
      /\ UNCHANGED <<next, kind, of, shutdown, reservations, entries, closing,
                     native, guard, owned, world, sweep, closed, cancelled, down>>
  <2>1. 0 \in 0 .. MaxId
    BY BoundsAssumption
  <2> QED
    BY <2>1, BeginMoves, Zenon DEF SpawnDone, ids, fence, told, IndInv, Places
<1>2. UNCHANGED <<slot, backend, destroyed, processes, forwards, boxes, alive,
                  commands, tunnels>>
  BY <1>1, Zenon DEF owned, box, world
<1>3. TypeOK' /\ Minted'
  BY <1>1, <1>2, MintedKept, Zenon DEF IndInv, TypeOK, Moved
<1>12. Kinded'
  BY <1>1, <1>2 DEF IndInv, TypeOK, Kinded
<1>4. Mutex' /\ SweepingBy(c)'
  BY <1>1, MutexStay, NotSweeping, Zenon DEF IndInv, Holding, CreateAt,
     SpawnAt, CloseAt, DownAt
<1>5. Working'
  <2>1. ASSUME NEW d \in Calls \ {c} PROVE WorkingOn(d)'
    <3>1. call'[d] = call[d] /\ WorkingOn(d)
          /\ (call[d].at \in SpawnAt => call[d].p # p)
      BY <1>1, Zenon DEF IndInv, Working, OneStartup, Moved, SpawnAt
    <3> QED
      BY <1>1, <3>1 DEF WorkingOn, IndInv, TypeOK
  <2> QED
    BY <1>1, <2>1, AtRest, Zenon DEF Working
<1>6. OnlyTouches(0)
  BY <1>1, <1>2, Zenon DEF OnlyTouches
<1>7. \A d \in Calls \ {c} : call[d].at \in Holding => call[d].r # 0
  BY DEF IndInv, Working, WorkingOn, Holding, Ids, CreateAt, SpawnAt, ExecAt,
     CancelAt, ForwardAt, CloseAt, DownAt
<1>8. Held' /\ Closing' /\ OneStartup'
  BY <1>1, <1>2, <1>6, <1>7, AtRest, HeldKept, ClosingKept, OneStartupKept,
     Zenon DEF IndInv, TypeOK, SpawnAt
<1>9. Slots'
  BY <1>1, SlotsKept, Zenon DEF IndInv
<1>10. \A i \in Ids : pending'[i] \in {pending[i], "no"}
  BY <1>1, Zenon DEF IndInv, TypeOK
<1>11. Acknowledged' /\ Sweeping'
  BY <1>1, <1>2, <1>4, <1>10, AcknowledgedKept, SweepingKept, Zenon DEF IndInv,
     StartPlaces
<1> QED
  BY <1>3, <1>4, <1>5, <1>8, <1>9, <1>11, <1>12, Zenon DEF IndInv

\* Waking the Shutdown loops that wait for startups preserves IndInv.
LEMMA SpawnNotifyStep ==
  ASSUME IndInv, NEW c \in Calls, SpawnNotify(c)
  PROVE  IndInv'
<1>1. /\ call[c].at = "spawn.notify" /\ Moved(c, "idle", 0, 0)
      /\ UNCHANGED <<registry, guard, owned, world, told>>
  BY ReturnMoves, Zenon DEF SpawnNotify, IndInv
<1>2. UNCHANGED <<next, kind, of, shutdown, reservations, entries, pending,
                  closing, native, slot, backend, destroyed, processes,
                  forwards, boxes, alive, commands, tunnels, closed,
                  cancelled, down>>
  BY <1>1, Zenon DEF registry, ids, fence, owned, box, world, told
<1>3. /\ sweep' \in [Calls -> SweepType]
      /\ \A d \in Calls : /\ sweep'[d].active = sweep[d].active
                          /\ sweep'[d].todo = sweep[d].todo
                          /\ sweep'[d].failed = sweep[d].failed
  <2> DEFINE woken(d) == sweep[d].woken \/ call[d].at \in {"down.check", "down.sleep"}
  <2>1. sweep' = [d \in Calls |-> [sweep[d] EXCEPT !.woken = woken(d)]]
    BY Zenon DEF SpawnNotify
  <2>2. ASSUME NEW d \in Calls
        PROVE  sweep[d] \in SweepType /\ woken(d) \in BOOLEAN
    BY Zenon DEF IndInv, TypeOK, SweepType
  <2> HIDE DEF woken
  <2> QED
    BY <2>1, <2>2, Zenon DEF SweepType
<1>4. TypeOK' /\ Kinded' /\ Minted'
  BY <1>1, <1>2, <1>3 DEF IndInv, TypeOK, Kinded, Minted, Moved
<1>5. Mutex'
  BY <1>1, MutexStay, Zenon DEF IndInv, Holding, CreateAt, SpawnAt, CloseAt
<1>6. OnlyTouches(0)
  BY <1>2, Zenon DEF OnlyTouches
<1>7. \A d \in Calls \ {c} : call[d].at \in Holding => call[d].r # 0
  BY DEF IndInv, Working, WorkingOn, Holding, Ids, CreateAt, SpawnAt, ExecAt,
     CancelAt, ForwardAt, CloseAt, DownAt
<1>8. Working' /\ Held' /\ Closing' /\ OneStartup'
  BY <1>1, <1>2, <1>6, <1>7, AtRest, WorkingKept, HeldKept, ClosingKept,
     OneStartupKept, Zenon DEF IndInv, TypeOK, SpawnAt
<1>9. Slots' /\ Acknowledged'
  BY <1>1, <1>2, SlotsKept, AcknowledgedKept, Zenon DEF IndInv, StartPlaces
<1>10. Sweeping'
  BY <1>1, <1>2, <1>3 DEF IndInv, Sweeping, SweepingBy, Moved, CreateAt,
     SpawnAt, CloseAt, DownAt
<1> QED
  BY <1>4, <1>5, <1>8, <1>9, <1>10, Zenon DEF IndInv

\* IsRunning, which stops and forgets a process that has ended, preserves IndInv.
LEMMA IsRunningStep ==
  ASSUME IndInv, NEW p \in 1 .. next, IsRunning(p)
  PROVE  IndInv'
<1> DEFINE r == of[p]
<1>1. /\ UNCHANGED <<next, kind, of, shutdown, reservations, entries, pending,
                     closing, native, slot, backend, destroyed, forwards, boxes,
                     commands, tunnels, call, sweep, guard, closed, cancelled, down>>
      /\ guard[r] = Free /\ r \in slot /\ kind[p] = "Process" /\ p \in Ids /\ r \in Ids
      /\ processes[p] # "absent"
  <2>1. p \in Ids
    BY BoundsAssumption DEF IndInv, TypeOK, Ids
  <2> QED
    BY <2>1, Zenon DEF IsRunning, registry, ids, fence, box, told, IndInv,
       Minted, TypeOK
<1>2. PICK o \in StopOutcomes(backend[r]) : StopAndForget(p, o)
  BY Zenon DEF IsRunning
<1>3. /\ processes' \in [Ids -> {"absent", "owned", "stopped"}]
      /\ \A i \in Ids \ {p} : processes'[i] = processes[i]
      /\ alive' \subseteq alive
      /\ p \in alive' /\ Supervised(p) => processes'[p] = processes[p]
  BY <1>1, <1>2, Zenon DEF StopAndForget, StopOutcomes, Kills, StopOk,
     Supervised, IndInv, TypeOK
<1>4. TypeOK' /\ Kinded' /\ Minted' /\ Mutex'
  <2>1. TypeOK'
    BY <1>1, <1>3, Zenon DEF IndInv, TypeOK
  <2>2. Kinded'
    BY <1>1, <1>3, Zenon DEF IndInv, Kinded
  <2>3. Minted' /\ Mutex'
    BY <1>1 DEF IndInv, Minted, Mutex
  <2> QED
    BY <2>1, <2>2, <2>3, Zenon
<1>5. Working' /\ OneStartup' /\ Sweeping'
  BY <1>1, Zenon DEF IndInv, Working, WorkingOn, OneStartup, Sweeping, SweepingBy
<1>6. Slots'
  <2>1. \A i \in alive' : Supervised(i) => processes'[i] = processes[i]
    BY <1>3 DEF IndInv, TypeOK
  <2> QED
    <3>1. \A i \in Ids : processes'[i] # "absent" => of[i] \in slot
      BY <1>1, <1>3, Zenon DEF IndInv, Slots
    <3>2. \A i \in alive' : Supervised(i) => processes'[i] = "owned"
      BY <1>3, <2>1, Zenon DEF IndInv, Slots
    <3> QED
      BY <1>1, <1>3, <3>1, <3>2 DEF IndInv, Slots, Supervised
<1>9. Acknowledged'
  <2>1. \A i \in cancelled : i \in alive' => ~Supervised(i)
    BY <1>3, Zenon DEF IndInv, Acknowledged
  <2> QED
    BY <1>1, <2>1, Zenon DEF IndInv, Acknowledged, Supervised
<1>7. OnlyTouches(r)
  BY <1>1, <1>3, Zenon DEF OnlyTouches
<1>8. ASSUME NEW d \in Calls PROVE HeldBy(d)' /\ ClosingBy(d)'
  <2>1. call'[d] = call[d] /\ HeldBy(d) /\ ClosingBy(d) /\ WorkingOn(d)
    BY <1>1, Zenon DEF IndInv, Held, Closing, Working
  <2>2. call[d].at \in Holding => call[d].r # r
    BY <1>1, CallsAssumption DEF IndInv, Mutex, TypeOK
  <2> QED
    BY <1>4, <1>7, <2>1, <2>2, HeldByKept, ClosingByKept, Zenon DEF TypeOK
<1> QED
  BY <1>4, <1>5, <1>6, <1>8, <1>9, Zenon DEF IndInv, Held, Closing

----------------------------------------------------------------------------
\* Cancel

\* Cancel, which drops the reservation and marks the queued startup, preserves
\* IndInv.
LEMMA CancelStep ==
  ASSUME IndInv, NEW c \in Calls, NEW p \in 1 .. next, NEW r \in 1 .. next,
         Cancel(c, p, r)
  PROVE  IndInv'
<1>1. /\ call[c].at = "idle" /\ Begin(c, "cancel.slot", r, p)
      /\ reservations' = reservations \ {p}
      /\ pending' = [pending EXCEPT ![p] = IF @ = "no" THEN "no" ELSE "cancelled"]
      /\ UNCHANGED <<next, kind, of, shutdown, entries, closing, native, guard,
                     owned, world, sweep, closed, cancelled, down>>
  BY Zenon DEF Cancel, ids, fence, told
<1>2. p \in Ids /\ kind[p] # "none" /\ r \in Ids /\ kind[r] # "none"
  BY HandleIds, Zenon
<1>3. Moved(c, "cancel.slot", r, p)
  BY <1>1, HandleIds, BeginMoves, Zenon DEF IndInv, Places, CancelAt
<1>4. UNCHANGED <<slot, backend, destroyed, processes, forwards, boxes, alive,
                  commands, tunnels>>
  BY <1>1, Zenon DEF owned, box, world
<1>5. /\ \A i \in Ids : \/ pending'[i] = pending[i]
                        \/ pending[i] # "no" /\ pending'[i] = "cancelled"
      /\ pending'[p] # "live"
      /\ pending' \in [Ids -> {"no", "live", "cancelled"}]
  BY <1>1, <1>2, Zenon DEF IndInv, TypeOK
<1>6. TypeOK' /\ Kinded'
  BY <1>1, <1>3, <1>4, <1>5 DEF IndInv, TypeOK, Kinded, Moved
<1>7. Mutex' /\ SweepingBy(c)'
  BY <1>1, <1>3, MutexStay, NotSweeping, Zenon DEF IndInv, Holding, CreateAt,
     SpawnAt, CancelAt, CloseAt, DownAt
<1>8. WorkingOn(c)' /\ HeldBy(c)' /\ ClosingBy(c)'
  BY <1>1, <1>2, <1>3, <1>5, Zenon DEF Moved, WorkingOn, HeldBy, ClosingBy,
     CreateAt, SpawnAt, CancelAt, CloseAt, DownAt
<1>9. OnlyTouches(0)
  BY <1>1, <1>4, Zenon DEF OnlyTouches
<1>10. Slots'
  BY <1>1, <1>3, SlotsKept, Zenon DEF IndInv
<1>11. Acknowledged'
  BY <1>1, <1>3, <1>4, <1>5, AcknowledgedKept, Zenon DEF IndInv, StartPlaces
<1>12. Settled(c)
  BY <1>1, <1>3, <1>5, Zenon DEF Settled, Moved, CreateAt, SpawnAt, CancelAt,
     CloseAt, DownAt
<1> QED
  BY <1>3, <1>5, <1>6, <1>7, <1>8, <1>9, <1>10, <1>11, <1>12, FreeStep, Zenon

\* The lookup of the slot by Cancel preserves IndInv.
LEMMA CancelSlotStep ==
  ASSUME IndInv, NEW c \in Calls, CancelSlot(c)
  PROVE  IndInv'
<1> DEFINE r == call[c].r
           p == call[c].p
<1>1. /\ call[c].at = "cancel.slot"
      /\ UNCHANGED <<next, kind, of, shutdown, reservations, entries, pending,
                     closing, native, guard, owned, world, sweep, closed, down>>
  BY Zenon DEF CancelSlot, registry, ids, fence
<1>2. /\ r \in Ids /\ kind[r] # "none" /\ p \in Ids /\ kind[p] # "none"
      /\ p \notin reservations /\ pending[p] # "live"
  BY <1>1, Zenon DEF IndInv, Working, WorkingOn, CancelAt
<1>3. UNCHANGED <<slot, backend, destroyed, processes, forwards, boxes, alive,
                  commands, tunnels>>
  BY <1>1, Zenon DEF owned, box, world
<1>4. PICK pl \in {"cancel.lock", "idle"} :
        /\ Moved(c, pl, call'[c].r, call'[c].p)
        /\ pl = "cancel.lock" => /\ call'[c].r = r /\ call'[c].p = p
                                 /\ UNCHANGED cancelled
        /\ pl = "idle" => r \notin entries /\ Acknowledge(p, "Process", r)
  BY GotoMoves, ReturnMoves, Zenon DEF CancelSlot, IndInv, Places, Moved,
     CancelAt
<1>5. TypeOK' /\ Kinded'
  BY <1>1, <1>2, <1>3, <1>4 DEF IndInv, TypeOK, Kinded, Moved, Acknowledge
<1>6. Mutex' /\ SweepingBy(c)'
  BY <1>1, <1>4, MutexStay, NotSweeping, Zenon DEF IndInv, Holding, CreateAt,
     SpawnAt, CancelAt, CloseAt, DownAt
<1>7. WorkingOn(c)' /\ HeldBy(c)' /\ ClosingBy(c)'
  BY <1>1, <1>2, <1>4, AtRest, Zenon DEF Moved, WorkingOn, HeldBy, ClosingBy,
     CreateAt, SpawnAt, CancelAt, CloseAt, DownAt
<1>8. OnlyTouches(0)
  BY <1>1, <1>3, Zenon DEF OnlyTouches
<1>9. Slots'
  BY <1>1, <1>4, SlotsKept, Zenon DEF IndInv
<1>10. Acknowledged'
  <2>1. ASSUME NEW i \in cancelled' \ cancelled PROVE Over(c, i)
    <3>1. i = p /\ kind[p] = "Process" /\ of[p] = r /\ r \notin entries
      BY <1>4, <2>1, Zenon DEF Acknowledge
    <3>2. p \notin alive \/ ~Supervised(p)
      BY <1>2, <3>1, Zenon DEF IndInv, Slots
    <3>3. \A d \in Calls \ {c} : call[d].at \in StartPlaces => call[d].p # p
      <4>1. r \notin slot
        BY <3>1, Zenon DEF IndInv, Slots
      <4> QED
        BY <1>2, <3>1, <4>1, NoStarter, Zenon
    <3> QED
      BY <1>1, <1>2, <1>3, <3>1, <3>2, <3>3, Zenon DEF Over, IndInv, Kinded
  <2> QED
    BY <1>1, <1>3, <1>4, <2>1, AcknowledgedTold, Zenon DEF IndInv, StartPlaces
<1>11. Settled(c)
  BY <1>1, <1>4, Zenon DEF Settled, Moved, CreateAt, SpawnAt, CancelAt,
     CloseAt, DownAt
<1> QED
  BY <1>4, <1>5, <1>6, <1>7, <1>8, <1>9, <1>10, <1>11, FreeStep, Zenon

\* Cancel taking the slot mutex, or finding no process to stop, preserves IndInv.
LEMMA CancelLockStep ==
  ASSUME IndInv, NEW c \in Calls, CancelLock(c)
  PROVE  IndInv'
<1> DEFINE r == call[c].r
           p == call[c].p
<1>1. /\ call[c].at = "cancel.lock" /\ guard[r] = Free
      /\ UNCHANGED <<next, kind, of, shutdown, reservations, entries, pending,
                     closing, native, owned, world, sweep, closed, down>>
  BY Zenon DEF CancelLock, registry, ids, fence
<1>2. /\ r \in Ids /\ kind[r] # "none" /\ p \in Ids /\ kind[p] # "none"
      /\ p \notin reservations /\ pending[p] # "live"
  BY <1>1, Zenon DEF IndInv, Working, WorkingOn, CancelAt
<1>3. UNCHANGED <<slot, backend, destroyed, processes, forwards, boxes, alive,
                  commands, tunnels>>
  BY <1>1, Zenon DEF owned, box, world
<1>4. PICK pl \in {"cancel.stop", "idle"} :
        /\ Moved(c, pl, call'[c].r, call'[c].p)
        /\ pl = "cancel.stop" =>
             /\ call'[c].r = r /\ call'[c].p = p /\ UNCHANGED cancelled
             /\ Lock(c, r) /\ r \in slot /\ p \in TrackedOf(r)
        /\ pl = "idle" => /\ ~(r \in slot /\ p \in TrackedOf(r))
                          /\ Acknowledge(p, "Process", r) /\ UNCHANGED guard
  BY GotoMoves, ReturnMoves, Zenon DEF CancelLock, IndInv, Places, Moved,
     CancelAt
<1>5. TypeOK' /\ Kinded'
  BY <1>1, <1>2, <1>3, <1>4 DEF IndInv, TypeOK, Kinded, Moved, Acknowledge, Lock
<1>6. Mutex'
  BY <1>1, <1>2, <1>4, MutexStay, MutexAcquire, Zenon DEF IndInv, Holding,
     CreateAt, CancelAt, CloseAt
<1>7. WorkingOn(c)' /\ HeldBy(c)' /\ ClosingBy(c)'
  BY <1>1, <1>2, <1>3, <1>4, AtRest, Zenon DEF Moved, WorkingOn, HeldBy,
     ClosingBy, TrackedOf, ProcessesOf, CreateAt, SpawnAt, CancelAt, CloseAt,
     DownAt
<1>8. OnlyTouches(r)
  BY <1>1, <1>3, Zenon DEF OnlyTouches
<1>9. Slots' /\ SweepingBy(c)'
  BY <1>1, <1>4, SlotsKept, NotSweeping, Zenon DEF IndInv, CreateAt, SpawnAt,
     CancelAt, CloseAt, DownAt
<1>10. Acknowledged'
  <2>1. ASSUME NEW i \in cancelled' \ cancelled PROVE Over(c, i)
    <3>1. /\ i = p /\ kind[p] = "Process" /\ of[p] = r
          /\ r \notin slot \/ processes[p] = "absent"
      BY <1>2, <1>4, <2>1, Zenon DEF Acknowledge, TrackedOf, ProcessesOf
    <3>2. p \notin alive \/ ~Supervised(p)
      BY <1>2, <3>1, Zenon DEF IndInv, Slots
    <3>3. \A d \in Calls \ {c} : call[d].at \in StartPlaces => call[d].p # p
      BY <1>1, <1>2, <3>1, NoStarter, Zenon
    <3> QED
      BY <1>1, <1>2, <1>3, <3>1, <3>2, <3>3, Zenon DEF Over, IndInv, Kinded
  <2> QED
    BY <1>1, <1>3, <1>4, <2>1, AcknowledgedTold, Zenon DEF IndInv, StartPlaces
<1>11. Owns(c, r) /\ Settled(c)
  BY <1>1, <1>2, <1>4, Zenon DEF Owns, Holding, Settled, Moved, CreateAt,
     SpawnAt, CancelAt, CloseAt, DownAt
<1> QED
  BY <1>2, <1>4, <1>5, <1>6, <1>7, <1>8, <1>9, <1>10, <1>11, TaskStep, Zenon

\* Cancel stopping the process, whatever comes of it, preserves IndInv.
LEMMA CancelStopStep ==
  ASSUME IndInv, NEW c \in Calls, CancelStop(c)
  PROVE  IndInv'
<1> DEFINE r == call[c].r
           p == call[c].p
<1>1. /\ call[c].at = "cancel.stop" /\ Unlock(r) /\ Moved(c, "idle", 0, 0)
      /\ UNCHANGED <<next, kind, of, shutdown, reservations, entries, pending,
                     closing, native, slot, backend, destroyed, forwards, boxes,
                     commands, tunnels, sweep, closed, down>>
  BY ReturnMoves, Zenon DEF CancelStop, registry, ids, fence, box, IndInv
<1>2. /\ r \in Ids /\ p \in Ids /\ p \notin reservations /\ pending[p] # "live"
      /\ r \in slot /\ kind[p] = "Process" /\ of[p] = r
  BY <1>1, Zenon DEF IndInv, Working, WorkingOn, Held, HeldBy, TrackedOf,
     ProcessesOf, CancelAt
<1>3. PICK o \in StopOutcomes(backend[r]) :
        /\ StopAndForget(p, o)
        /\ IF StopOk(o) THEN Acknowledge(p, "Process", r) ELSE UNCHANGED cancelled
  BY Zenon DEF CancelStop
<1>4. /\ processes' \in [Ids -> {"absent", "owned", "stopped"}]
      /\ \A i \in Ids \ {p} : processes'[i] = processes[i]
      /\ alive' \subseteq alive
      /\ p \in alive' /\ Supervised(p) => processes'[p] = processes[p]
  BY <1>2, <1>3, Zenon DEF StopAndForget, StopOutcomes, Kills, StopOk,
     Supervised, IndInv, TypeOK
<1>5. cancelled' = cancelled \/ (cancelled' = cancelled \cup {p}
        /\ (p \in alive' => ~Supervised(p)))
  BY <1>2, <1>3, Zenon DEF Acknowledge, StopAndForget, StopOutcomes, Kills,
     StopOk, Supervised
<1>6. TypeOK' /\ Kinded'
  <2>1. TypeOK'
    BY <1>1, <1>2, <1>4, <1>5, Zenon DEF IndInv, TypeOK, Moved, Unlock
  <2>2. Kinded'
    BY <1>1, <1>2, <1>4, Zenon DEF IndInv, Kinded
  <2> QED
    BY <2>1, <2>2, Zenon
<1>7. OnlyTouches(r)
  BY <1>1, <1>2, <1>4, Zenon DEF OnlyTouches
<1>8. Mutex' /\ SweepingBy(c)'
  BY <1>1, <1>2, MutexRelease, NotSweeping, Zenon DEF IndInv, Holding,
     CreateAt, SpawnAt, CancelAt, CloseAt, DownAt
<1>9. Slots'
  <2>1. \A i \in alive' : Supervised(i) => processes'[i] = processes[i]
    BY <1>4, Zenon DEF IndInv, TypeOK
  <2> QED
    BY <1>1, <1>2, <1>4, <2>1 DEF IndInv, Slots, Supervised, Moved
<1>10. Acknowledged'
  <2>1. ASSUME NEW i \in cancelled' \ cancelled PROVE Over(c, i)
    <3>1. i = p /\ (p \in alive' => ~Supervised(p))
      BY <1>5, <2>1, Zenon
    <3>2. \A d \in Calls \ {c} : call[d].at \in StartPlaces => call[d].p # p
      BY <1>1, <1>2, NoStarter, Zenon DEF Holding
    <3>3. p \notin tunnels \cup forwards
      BY <1>2, Zenon DEF IndInv, Kinded
    <3> QED
      BY <1>1, <1>2, <3>1, <3>2, <3>3, Zenon DEF Over
  <2> QED
    BY <1>1, <1>4, <2>1, AcknowledgedTold, Zenon DEF IndInv, StartPlaces
<1>11. Owns(c, r) /\ Settled(c)
  BY <1>1, <1>2, Zenon DEF Owns, Holding, Settled, Moved, CreateAt, SpawnAt,
     CancelAt, CloseAt, DownAt
<1> QED
  BY <1>1, <1>2, <1>6, <1>7, <1>8, <1>9, <1>10, <1>11, AtRest, TaskStep, Zenon

=============================================================================
