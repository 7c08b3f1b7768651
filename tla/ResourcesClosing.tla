-------------------------- MODULE ResourcesClosing --------------------------
(***************************************************************************)
(* IndInv is preserved by Forward, CloseForward and Close.                 *)
(***************************************************************************)
EXTENDS ResourcesLemmas


----------------------------------------------------------------------------
\* Forward and CloseForward

\* Forward, which looks its slot up, preserves IndInv.
LEMMA ForwardStep ==
  ASSUME IndInv, NEW c \in Calls, NEW f \in 1 .. next, NEW r \in 1 .. next,
         Forward(c, f, r)
  PROVE  IndInv'
<1>1. /\ call[c].at = "idle" /\ Begin(c, "forward.lock", r, f)
      /\ UNCHANGED <<registry, guard, owned, world, sweep, told>>
  BY Zenon DEF Forward
<1>2. r \in Ids /\ kind[r] # "none" /\ f \in Ids /\ kind[f] # "none" /\ UNCHANGED kind
  BY <1>1, HandleIds, Zenon DEF registry, ids
<1>3. Moved(c, "forward.lock", r, f)
  BY <1>1, HandleIds, BeginMoves, Zenon DEF IndInv, Places, ForwardAt
<1>4. WorkingOn(c)' /\ HeldBy(c)' /\ ClosingBy(c)'
  BY <1>2, <1>3, Zenon DEF Moved, WorkingOn, HeldBy, ClosingBy, CreateAt,
     SpawnAt, ExecAt, CancelAt, ForwardAt, CloseAt, DownAt
<1>5. Mutex' /\ SweepingBy(c)'
  BY <1>1, <1>3, MutexStay, NotSweeping, Zenon DEF IndInv, Holding, CreateAt,
     SpawnAt, ForwardAt, CloseAt, DownAt
<1> QED
  BY <1>1, <1>3, <1>4, <1>5, QuietStep, Zenon DEF IndInv, TypeOK, StartPlaces,
     CreateAt, SpawnAt, ForwardAt, CloseAt, DownAt

\* Forward taking the slot mutex, being refused or replayed preserves IndInv.
LEMMA ForwardLockStep ==
  ASSUME IndInv, NEW c \in Calls, ForwardLock(c)
  PROVE  IndInv'
<1> DEFINE r == call[c].r
           f == call[c].p
<1>1. /\ call[c].at = "forward.lock" /\ guard[r] = Free
      /\ reservations' \subseteq reservations
      /\ UNCHANGED <<next, kind, of, shutdown, entries, pending, closing, native,
                     owned, world, sweep, closed, cancelled, down>>
  BY Zenon DEF ForwardLock, ids, fence, told
<1>2. r \in Ids /\ kind[r] # "none" /\ f \in Ids /\ kind[f] # "none"
  BY <1>1, Zenon DEF IndInv, Working, WorkingOn, ForwardAt
<1>3. UNCHANGED <<slot, backend, destroyed, processes, forwards, boxes, alive,
                  commands, tunnels>>
  BY <1>1, Zenon DEF owned, box, world
<1>4. PICK pl \in {"forward.ports", "idle"} :
        /\ Moved(c, pl, call'[c].r, call'[c].p)
        /\ pl = "forward.ports" =>
             /\ call'[c].r = r /\ call'[c].p = f /\ Lock(c, r)
             /\ r \in slot /\ f \notin forwards /\ MayForward(r, f)
        /\ pl = "idle" => UNCHANGED guard
  BY GotoMoves, ReturnMoves, Zenon DEF ForwardLock, IndInv, Places, Moved,
     ForwardAt
<1>5. TypeOK' /\ Kinded'
  BY <1>1, <1>2, <1>3, <1>4 DEF IndInv, TypeOK, Kinded, Moved, Lock
<1>6. Mutex'
  BY <1>1, <1>2, <1>4, MutexStay, MutexAcquire, Zenon DEF IndInv, Holding,
     CreateAt, ForwardAt, CloseAt
<1>7. WorkingOn(c)' /\ HeldBy(c)' /\ ClosingBy(c)'
  BY <1>1, <1>2, <1>3, <1>4, AtRest, Zenon DEF Moved, WorkingOn, HeldBy,
     ClosingBy, ForwardsOf, MayForward, Reserved, CreateAt, SpawnAt, ExecAt,
     CancelAt, ForwardAt, CloseAt, DownAt
<1>8. OnlyTouches(r)
  BY <1>1, <1>3, Zenon DEF OnlyTouches
<1>9. Slots' /\ SweepingBy(c)'
  BY <1>1, <1>4, SlotsKept, NotSweeping, Zenon DEF IndInv, CreateAt, SpawnAt,
     ForwardAt, CloseAt, DownAt
<1>10. Acknowledged'
  BY <1>1, <1>3, <1>4, AcknowledgedKept, Zenon DEF IndInv, StartPlaces
<1>11. Owns(c, r) /\ Settled(c)
  BY <1>1, <1>2, <1>4, Zenon DEF Owns, Holding, Settled, Moved, CreateAt,
     SpawnAt, ForwardAt, CloseAt, DownAt
<1> QED
  BY <1>2, <1>4, <1>5, <1>6, <1>7, <1>8, <1>9, <1>10, <1>11, TaskStep, Zenon

\* Forward checking its reservation again after published_ports preserves IndInv.
LEMMA ForwardPortsStep ==
  ASSUME IndInv, NEW c \in Calls, ForwardPorts(c)
  PROVE  IndInv'
<1> DEFINE r == call[c].r
           f == call[c].p
<1>1. /\ call[c].at = "forward.ports" /\ reservations' \subseteq reservations
      /\ UNCHANGED <<next, kind, of, shutdown, entries, pending, closing, native,
                     owned, world, sweep, closed, cancelled, down>>
  BY Zenon DEF ForwardPorts, ids, fence, told
<1>2. /\ r \in Ids /\ kind[r] # "none" /\ f \in Ids /\ kind[f] # "none"
      /\ r \in slot /\ f \in ForwardsOf(r) \ forwards
  BY <1>1, Zenon DEF IndInv, Working, WorkingOn, Held, HeldBy, ForwardAt
<1>3. UNCHANGED <<slot, backend, destroyed, processes, forwards, boxes, alive,
                  commands, tunnels>>
  BY <1>1, Zenon DEF owned, box, world
<1>4. PICK pl \in {"forward.open", "idle"} :
        /\ Moved(c, pl, call'[c].r, call'[c].p)
        /\ pl = "forward.open" =>
             /\ call'[c].r = r /\ call'[c].p = f /\ UNCHANGED guard
             /\ f \in reservations
        /\ pl = "idle" => Unlock(r)
  BY GotoMoves, ReturnMoves, Zenon DEF ForwardPorts, IndInv, Places, Moved,
     MayForward, Reserved, ForwardAt
<1>5. TypeOK' /\ Kinded'
  BY <1>1, <1>2, <1>3, <1>4 DEF IndInv, TypeOK, Kinded, Moved, Unlock
<1>6. Mutex'
  BY <1>1, <1>2, <1>4, MutexStay, MutexRelease, Zenon DEF IndInv, Holding,
     CreateAt, ForwardAt, CloseAt
<1>7. WorkingOn(c)' /\ HeldBy(c)' /\ ClosingBy(c)'
  BY <1>1, <1>2, <1>3, <1>4, AtRest, Zenon DEF Moved, WorkingOn, HeldBy,
     ClosingBy, ForwardsOf, CreateAt, SpawnAt, ExecAt, CancelAt, ForwardAt,
     CloseAt, DownAt
<1>8. OnlyTouches(r)
  BY <1>1, <1>3, Zenon DEF OnlyTouches
<1>9. Slots' /\ SweepingBy(c)'
  BY <1>1, <1>4, SlotsKept, NotSweeping, Zenon DEF IndInv, CreateAt, SpawnAt,
     ForwardAt, CloseAt, DownAt
<1>10. Acknowledged'
  <2>1. pl = "forward.open" => f \notin cancelled
    BY <1>4, Zenon DEF IndInv, Acknowledged
  <2> QED
    BY <1>1, <1>3, <1>4, <2>1 DEF IndInv, Acknowledged, Supervised, Moved
<1>11. Owns(c, r) /\ Settled(c)
  BY <1>1, <1>2, <1>4, Zenon DEF Owns, Holding, Settled, Moved, CreateAt,
     SpawnAt, ForwardAt, CloseAt, DownAt
<1> QED
  BY <1>2, <1>4, <1>5, <1>6, <1>7, <1>8, <1>9, <1>10, <1>11, TaskStep, Zenon

\* A tunnel that opens, or fails to, preserves IndInv.
LEMMA ForwardOpenStep ==
  ASSUME IndInv, NEW c \in Calls, ForwardOpen(c)
  PROVE  IndInv'
<1> DEFINE r == call[c].r
           f == call[c].p
<1>1. /\ call[c].at = "forward.open"
      /\ UNCHANGED <<next, kind, of, shutdown, reservations, entries, pending,
                     closing, native, slot, backend, destroyed, processes, forwards,
                     boxes, alive, commands, sweep, closed, cancelled, down>>
  BY Zenon DEF ForwardOpen, registry, ids, fence, owned, box, told
<1>2. /\ r \in Ids /\ kind[r] # "none" /\ f \in Ids /\ kind[f] = "Forward"
      /\ of[f] = r /\ r \in slot /\ f \notin forwards /\ f \notin cancelled
  BY <1>1, Zenon DEF IndInv, Working, WorkingOn, Held, HeldBy, ForwardsOf,
     Acknowledged, ForwardAt
<1>3. PICK pl \in {"forward.publish", "idle"} :
        /\ Moved(c, pl, call'[c].r, call'[c].p)
        /\ pl = "forward.publish" =>
             /\ call'[c].r = r /\ call'[c].p = f /\ UNCHANGED guard
             /\ tunnels' = tunnels \cup {f}
        /\ pl = "idle" => Unlock(r) /\ UNCHANGED tunnels
  BY GotoMoves, ReturnMoves, Zenon DEF ForwardOpen, IndInv, Places, Moved,
     ForwardAt
<1>4. TypeOK' /\ Kinded'
  BY <1>1, <1>2, <1>3 DEF IndInv, TypeOK, Kinded, Moved, Unlock
<1>5. Mutex'
  BY <1>1, <1>2, <1>3, MutexStay, MutexRelease, Zenon DEF IndInv, Holding,
     CreateAt, ForwardAt, CloseAt
<1>6. WorkingOn(c)' /\ HeldBy(c)' /\ ClosingBy(c)'
  BY <1>1, <1>2, <1>3, AtRest, Zenon DEF Moved, WorkingOn, HeldBy, ClosingBy,
     ForwardsOf, CreateAt, SpawnAt, ExecAt, CancelAt, ForwardAt, CloseAt,
     DownAt
<1>7. OnlyTouches(r)
  BY <1>1, Zenon DEF OnlyTouches
<1>8. Slots' /\ SweepingBy(c)'
  <2>1. \A g \in tunnels' \ forwards' :
          \E d \in Calls : call'[d].at = "forward.publish" /\ call'[d].p = g
    BY <1>1, <1>3 DEF IndInv, Slots, Moved
  <2>2. Slots'
    BY <1>1, <1>2, <1>3, <2>1 DEF IndInv, Slots, Supervised
  <2> QED
    BY <1>1, <1>3, <2>2, NotSweeping, Zenon DEF IndInv, CreateAt, SpawnAt,
       ForwardAt, CloseAt, DownAt
<1>9. Acknowledged'
  BY <1>1, <1>2, <1>3 DEF IndInv, Acknowledged, Supervised, Moved
<1>10. Owns(c, r) /\ Settled(c)
  BY <1>1, <1>2, <1>3, Zenon DEF Owns, Holding, Settled, Moved, CreateAt,
     SpawnAt, ForwardAt, CloseAt, DownAt
<1> QED
  BY <1>2, <1>3, <1>4, <1>5, <1>6, <1>7, <1>8, <1>9, <1>10, TaskStep, Zenon

\* Publishing the tunnel, or dropping it when the resource was closed meanwhile,
\* preserves IndInv.
LEMMA ForwardPublishStep ==
  ASSUME IndInv, NEW c \in Calls, ForwardPublish(c)
  PROVE  IndInv'
<1> DEFINE r == call[c].r
           f == call[c].p
<1>1. /\ call[c].at = "forward.publish" /\ Unlock(r) /\ Moved(c, "idle", 0, 0)
      /\ reservations' \subseteq reservations
      /\ UNCHANGED <<next, kind, of, shutdown, entries, pending, closing, native,
                     slot, backend, destroyed, processes, boxes, alive, commands,
                     sweep, closed, cancelled, down>>
  BY ReturnMoves, Zenon DEF ForwardPublish, ids, fence, box, told, IndInv
<1>2. /\ r \in Ids /\ f \in Ids /\ kind[f] = "Forward" /\ of[f] = r
      /\ r \in slot /\ f \notin forwards /\ f \notin cancelled
  BY <1>1, Zenon DEF IndInv, Working, WorkingOn, Held, HeldBy, ForwardsOf,
     Acknowledged, ForwardAt
<1>3. \/ forwards' = forwards \cup {f} /\ UNCHANGED tunnels
      \/ tunnels' = tunnels \ {f} /\ UNCHANGED forwards
  BY Zenon DEF ForwardPublish
<1>4. TypeOK' /\ Kinded'
  BY <1>1, <1>2, <1>3 DEF IndInv, TypeOK, Kinded, Moved, Unlock
<1>5. Mutex' /\ SweepingBy(c)'
  BY <1>1, <1>2, MutexRelease, NotSweeping, Zenon DEF IndInv, Holding,
     CreateAt, SpawnAt, ForwardAt, CloseAt, DownAt
<1>6. OnlyTouches(r)
  BY <1>1, <1>2, <1>3, Zenon DEF OnlyTouches
<1>7. Slots'
  <2>1. \A g \in tunnels' \ forwards' :
          \E d \in Calls : call'[d].at = "forward.publish" /\ call'[d].p = g
    BY <1>1, <1>3 DEF IndInv, Slots, Moved
  <2> QED
    BY <1>1, <1>2, <1>3, <2>1, Zenon DEF IndInv, Slots, Supervised
<1>8. Acknowledged'
  BY <1>1, <1>2, <1>3 DEF IndInv, Acknowledged, Supervised, Moved
<1>9. Owns(c, r) /\ Settled(c)
  BY <1>1, <1>2, Zenon DEF Owns, Holding, Settled, Moved, CreateAt, SpawnAt,
     ForwardAt, CloseAt, DownAt
<1> QED
  BY <1>1, <1>2, <1>4, <1>5, <1>6, <1>7, <1>8, <1>9, AtRest, TaskStep, Zenon

\* CloseForward, which drops the reservation, preserves IndInv.
LEMMA CloseForwardStep ==
  ASSUME IndInv, NEW c \in Calls, NEW f \in 1 .. next, NEW r \in 1 .. next,
         CloseForward(c, f, r)
  PROVE  IndInv'
<1>1. /\ call[c].at = "idle" /\ reservations' = reservations \ {f}
      /\ UNCHANGED <<next, kind, of, shutdown, entries, pending, closing, native,
                     guard, owned, world, sweep, closed, down>>
  BY Zenon DEF CloseForward, ids, fence
<1>2. f \in Ids /\ kind[f] # "none" /\ r \in Ids /\ kind[r] # "none"
  BY HandleIds, Zenon
<1>3. UNCHANGED <<slot, backend, destroyed, processes, forwards, boxes, alive,
                  commands, tunnels>>
  BY <1>1, Zenon DEF owned, box, world
<1>4. PICK pl \in {"unforward.lock", "idle"} :
        /\ Moved(c, pl, call'[c].r, call'[c].p)
        /\ pl = "unforward.lock" => /\ call'[c].r = r /\ call'[c].p = f
                                    /\ UNCHANGED cancelled
        /\ pl = "idle" => r \notin entries /\ Acknowledge(f, "Forward", r)
  <2>1. CASE r \in entries
    BY <2>1, HandleIds, BeginMoves DEF CloseForward, IndInv, Places, Moved,
       ForwardAt
  <2>2. CASE r \notin entries
    BY <2>2, <1>1, Zenon DEF CloseForward, IndInv, TypeOK, Moved
  <2> QED
    BY <2>1, <2>2, Zenon
<1>5. TypeOK' /\ Kinded'
  <2>1. TypeOK'
    BY <1>1, <1>2, <1>3, <1>4, Zenon DEF IndInv, TypeOK, Moved, Acknowledge
  <2>2. Kinded'
    BY <1>1, <1>3, Zenon DEF IndInv, Kinded
  <2> QED
    BY <2>1, <2>2, Zenon
<1>6. Mutex' /\ SweepingBy(c)'
  BY <1>1, <1>4, MutexStay, NotSweeping, Zenon DEF IndInv, Holding, CreateAt,
     SpawnAt, ForwardAt, CloseAt, DownAt
<1>7. WorkingOn(c)' /\ HeldBy(c)' /\ ClosingBy(c)'
  BY <1>1, <1>2, <1>4, AtRest, Zenon DEF Moved, WorkingOn, HeldBy, ClosingBy,
     CreateAt, SpawnAt, ExecAt, CancelAt, ForwardAt, CloseAt, DownAt
<1>8. OnlyTouches(0)
  BY <1>1, <1>3, Zenon DEF OnlyTouches
<1>9. Slots'
  BY <1>1, <1>4, SlotsKept, Zenon DEF IndInv
<1>10. Acknowledged'
  <2>1. ASSUME NEW i \in cancelled' \ cancelled PROVE Over(c, i)
    <3>1. i = f /\ kind[f] = "Forward" /\ of[f] = r /\ r \notin entries
      BY <1>4, <2>1, Zenon DEF Acknowledge
    <3>2. f \notin tunnels \cup forwards \cup alive /\ pending[f] # "live"
      BY <1>2, <3>1, Zenon DEF IndInv, Slots, Kinded
    <3>3. \A d \in Calls \ {c} : call[d].at \in StartPlaces => call[d].p # f
      BY <1>2, <3>1, NoStarter DEF IndInv, Slots
    <3> QED
      BY <1>1, <1>3, <3>1, <3>2, <3>3, Zenon DEF Over
  <2> QED
    BY <1>1, <1>3, <1>4, <2>1, AcknowledgedTold, Zenon DEF IndInv, StartPlaces
<1>11. Settled(c)
  BY <1>1, <1>4, Zenon DEF Settled, Moved, CreateAt, SpawnAt, ForwardAt,
     CloseAt, DownAt
<1> QED
  BY <1>4, <1>5, <1>6, <1>7, <1>8, <1>9, <1>10, <1>11, FreeStep, Zenon

\* CloseForward removing the tunnel under the slot mutex preserves IndInv.
LEMMA UnforwardLockStep ==
  ASSUME IndInv, NEW c \in Calls, UnforwardLock(c)
  PROVE  IndInv'
<1> DEFINE r == call[c].r
           f == call[c].p
<1>1. /\ call[c].at = "unforward.lock" /\ guard[r] = Free /\ Moved(c, "idle", 0, 0)
      /\ Acknowledge(f, "Forward", r)
      /\ UNCHANGED <<next, kind, of, shutdown, reservations, entries, pending,
                     closing, native, guard, slot, backend, destroyed, processes,
                     boxes, alive, commands, sweep, closed, down>>
  BY ReturnMoves, Zenon DEF UnforwardLock, registry, ids, fence, box, IndInv
<1>2. r \in Ids /\ f \in Ids /\ f \notin reservations
  BY <1>1, Zenon DEF IndInv, Working, WorkingOn, ForwardAt
<1>3. \/ /\ r \in slot /\ f \in ForwardsOf(r)
         /\ forwards' = forwards \ {f} /\ tunnels' = tunnels \ {f}
      \/ /\ ~(r \in slot /\ f \in ForwardsOf(r))
         /\ UNCHANGED <<forwards, tunnels>>
  BY Zenon DEF UnforwardLock
<1>4. TypeOK' /\ Kinded'
  BY <1>1, <1>2, <1>3 DEF IndInv, TypeOK, Kinded, Moved, Acknowledge
<1>5. Mutex' /\ SweepingBy(c)'
  BY <1>1, MutexStay, NotSweeping, Zenon DEF IndInv, Holding, CreateAt,
     SpawnAt, ForwardAt, CloseAt, DownAt
<1>6. OnlyTouches(r)
  BY <1>1, <1>3, Zenon DEF OnlyTouches, ForwardsOf
<1>7. Slots'
  <2>1. \A g \in tunnels' \ forwards' :
          \E d \in Calls : call'[d].at = "forward.publish" /\ call'[d].p = g
    BY <1>1, <1>3 DEF IndInv, Slots, Moved
  <2> QED
    BY <1>1, <1>3, <2>1, Zenon DEF IndInv, Slots, Supervised
<1>8. Acknowledged'
  <2>1. ASSUME NEW i \in cancelled' \ cancelled PROVE Over(c, i)
    <3>1. i = f /\ kind[f] = "Forward" /\ of[f] = r
      BY <1>1, <2>1, Zenon DEF Acknowledge
    <3>2. f \notin tunnels' \cup forwards' \cup alive /\ pending[f] # "live"
      BY <1>2, <1>3, <3>1 DEF IndInv, Slots, Kinded, ForwardsOf
    <3>3. \A d \in Calls \ {c} : call[d].at \in StartPlaces => call[d].p # f
      BY <1>1, <1>2, <3>1, NoStarter, Zenon
    <3> QED
      BY <1>1, <1>2, <3>1, <3>2, <3>3, Zenon DEF Over
  <2> QED
    BY <1>1, <1>3, <2>1, AcknowledgedTold, Zenon DEF IndInv, StartPlaces
<1>9. Owns(c, r) /\ Settled(c)
  BY <1>1, <1>2, Zenon DEF Owns, Holding, Settled, Moved, CreateAt, SpawnAt,
     ForwardAt, CloseAt, DownAt
<1> QED
  BY <1>1, <1>2, <1>4, <1>5, <1>6, <1>7, <1>8, <1>9, AtRest, TaskStep, Zenon

----------------------------------------------------------------------------
\* Close

\* Close, with its fence and the abort of the collected Exec, preserves IndInv.
LEMMA CloseStep ==
  ASSUME IndInv, NEW c \in Calls, NEW r \in 1 .. next, Close(c, r)
  PROVE  IndInv'
<1>1. /\ call[c].at = "idle" /\ reservations' \subseteq reservations
      /\ r \notin reservations'
      /\ UNCHANGED <<next, kind, of, shutdown, entries, pending, guard, owned,
                     world, sweep, cancelled, down>>
  BY Zenon DEF Close, BeginClose, ids
<1>2. r \in Ids /\ r \in 0 .. MaxId /\ kind[r] # "none"
  BY HandleIds, Zenon
<1>3. UNCHANGED <<slot, backend, destroyed, processes, forwards, boxes, alive,
                  commands, tunnels>>
  BY <1>1, Zenon DEF owned, box, world
<1>4. PICK pl \in {"close.lock", "idle"} :
        /\ Moved(c, pl, call'[c].r, call'[c].p)
        /\ pl = "close.lock" => /\ call'[c].r = r /\ r \in entries
                                /\ UNCHANGED closed
                                /\ closing' = closing \cup {r}
                                /\ native' = [native EXCEPT ![r] =
                                     IF @ = "running" THEN "aborted" ELSE @]
        /\ pl = "idle" => /\ r \notin entries /\ UNCHANGED <<closing, native>>
                          /\ closed' = IF kind[r] = "Resource"
                                       THEN closed \cup {r} ELSE closed
  <2>1. CASE r \in entries
    BY <2>1, <1>2, BeginMoves, BoundsAssumption DEF Close, BeginClose, IndInv,
       Places, Moved, CloseAt
  <2>2. CASE r \notin entries
    BY <2>2, <1>1, Zenon DEF Close, IndInv, TypeOK, Moved
  <2> QED
    BY <2>1, <2>2, Zenon
<1>5. TypeOK' /\ Kinded'
  <2>1. native' \in [Ids -> {"none", "running", "aborted"}]
    BY <1>2, <1>4 DEF IndInv, TypeOK
  <2>2. TypeOK'
    BY <1>1, <1>2, <1>3, <1>4, <2>1 DEF IndInv, TypeOK, Moved
  <2>3. Kinded'
    BY <1>1, <1>3, <1>4, Zenon DEF IndInv, Kinded
  <2> QED
    BY <2>2, <2>3, Zenon
<1>6. Mutex' /\ SweepingBy(c)'
  BY <1>1, <1>4, MutexStay, NotSweeping, Zenon DEF IndInv, Holding, CreateAt,
     SpawnAt, CloseAt, DownAt
<1>7. WorkingOn(c)' /\ HeldBy(c)' /\ ClosingBy(c)'
  <2>1. r \in entries => kind[r] = "Resource"
    BY Zenon DEF IndInv, Kinded
  <2> QED
    BY <1>1, <1>2, <1>4, <2>1, AtRest, Zenon DEF Moved, WorkingOn, HeldBy,
       ClosingBy, CreateAt, SpawnAt, ExecAt, CancelAt, ForwardAt, CloseAt,
       DownAt
<1>8. OnlyTouches(0)
  BY <1>1, <1>3, Zenon DEF OnlyTouches
<1>9. Slots'
  BY <1>1, <1>4, SlotsKept, Zenon DEF IndInv
<1>10. Acknowledged'
  BY <1>1, <1>3, <1>4 DEF IndInv, Acknowledged, Supervised, Moved
<1>11. Settled(c)
  BY <1>1, <1>4, Zenon DEF Settled, Moved, CreateAt, SpawnAt, CloseAt, DownAt
<1> QED
  BY <1>4, <1>5, <1>6, <1>7, <1>8, <1>9, <1>10, <1>11, FreeStep, Zenon

\* Close taking the slot mutex preserves IndInv.
LEMMA CloseLockStep ==
  ASSUME IndInv, NEW c \in Calls, CloseLock(c)
  PROVE  IndInv'
<1> DEFINE r == call[c].r
<1>1. /\ call[c].at = "close.lock" /\ guard[r] = Free /\ Lock(c, r)
      /\ UNCHANGED <<registry, owned, world, sweep, told>>
  BY Zenon DEF CloseLock
<1>2. PICK pl \in {"close.stop", "close.retire"} :
        /\ Moved(c, pl, r, call[c].p)
        /\ pl = "close.stop" <=> r \in slot
  BY GotoMoves, Zenon DEF CloseLock, IndInv, Places, CloseAt
<1>3. /\ r \in Ids /\ kind[r] = "Resource" /\ r \notin reservations
      /\ r \in entries => r \in closing
  BY <1>1, Zenon DEF IndInv, Working, WorkingOn, CloseAt
<1>4. UNCHANGED <<kind, of, shutdown, reservations, entries, closing, slot,
                  backend, destroyed, processes, forwards, commands, boxes>>
  BY <1>1, Zenon DEF registry, ids, fence, owned, box, world
<1>5. WorkingOn(c)' /\ HeldBy(c)'
  BY <1>2, <1>3, <1>4, Zenon DEF Moved, WorkingOn, HeldBy, CreateAt, SpawnAt,
     ExecAt, CancelAt, ForwardAt, CloseAt, DownAt
<1>6. ClosingBy(c)'
  BY <1>2, <1>4 DEF Moved, ClosingBy, IndInv, Slots, ProcessesOf
<1>7. Mutex' /\ SweepingBy(c)'
  BY <1>1, <1>2, <1>3, <1>4, MutexAcquire, StillClosing, Zenon DEF IndInv,
     Holding, CreateAt, CloseAt
<1> QED
  BY <1>1, <1>2, <1>5, <1>6, <1>7, QuietStep, Zenon DEF IndInv, TypeOK,
     StartPlaces, Lock, CreateAt, SpawnAt, CloseAt, DownAt

\* Close stopping the forwards, the processes and the collector preserves IndInv.
LEMMA CloseStopStep ==
  ASSUME IndInv, NEW c \in Calls, CloseStop(c)
  PROVE  IndInv'
<1> DEFINE r == call[c].r
           gone == r \in destroyed /\ backend[r] # "local"
<1>1. /\ call[c].at = "close.stop"
      /\ forwards' = forwards \ ForwardsOf(r) /\ tunnels' = tunnels \ ForwardsOf(r)
      /\ UNCHANGED <<next, kind, of, shutdown, reservations, entries, pending,
                     closing, native, guard, slot, backend, destroyed, boxes,
                     sweep, closed, cancelled, down>>
  BY Zenon DEF CloseStop, registry, ids, fence, box, told
<1>2. /\ r \in Ids /\ kind[r] = "Resource" /\ r \notin reservations
      /\ r \in slot /\ r \in closing
  BY <1>1, Zenon DEF IndInv, Working, WorkingOn, Held, HeldBy, Slots, CloseAt
<1>3. PICK o \in [TrackedOf(r) -> StopOutcomes(backend[r])],
           drained \in BOOLEAN :
        /\ processes' = [p \in Ids |->
             IF p \in TrackedOf(r) /\ (gone \/ StopOk(o[p]) \/ Kills(o[p]))
             THEN "stopped" ELSE processes[p]]
        /\ alive' = alive \ {p \in TrackedOf(r) : ~gone /\ Kills(o[p])}
        /\ commands' = IF drained THEN commands \ {r} ELSE commands
        /\ call' = [call EXCEPT ![c] =
             [at |-> IF backend[r] = "docker" THEN "close.destroy"
                     ELSE "close.check",
              r |-> r, p |-> 0,
              err |-> \/ ~drained
                      \/ \E p \in TrackedOf(r) : ~gone /\ ~StopOk(o[p])]]
  BY Zenon DEF CloseStop
<1>4. PICK pl \in {"close.destroy", "close.check"} :
        Moved(c, pl, r, 0) /\ (pl = "close.destroy" <=> backend[r] = "docker")
  <2> DEFINE er == \/ ~drained
                   \/ \E p \in TrackedOf(r) : ~gone /\ ~StopOk(o[p])
             pl == IF backend[r] = "docker" THEN "close.destroy" ELSE "close.check"
  <2>1. call' = [call EXCEPT ![c] = [at |-> pl, r |-> r, p |-> 0, err |-> er]]
    BY <1>3, Zenon
  <2>2. er \in BOOLEAN /\ pl \in Places /\ r \in 0 .. MaxId /\ 0 \in 0 .. MaxId
    BY <1>2, BoundsAssumption DEF Places, Ids, CloseAt
  <2>3. Moved(c, pl, r, 0)
    <3> HIDE DEF er, pl
    <3> QED
      BY <2>1, <2>2, Zenon DEF Moved, IndInv, TypeOK, CallType
  <2> QED
    BY <2>3, Zenon
<1>5. /\ processes' \in [Ids -> {"absent", "owned", "stopped"}]
      /\ \A i \in Ids : i \notin TrackedOf(r) => processes'[i] = processes[i]
      /\ \A i \in Ids : processes'[i] = "absent" => processes[i] = "absent"
      /\ alive' \subseteq alive
      /\ commands' \subseteq commands /\ commands \subseteq commands' \cup {r}
  BY <1>3, Zenon DEF IndInv, TypeOK, TrackedOf, ProcessesOf
<1>6. TypeOK' /\ Kinded'
  <2>1. TypeOK'
    BY <1>1, <1>4, <1>5, Zenon DEF IndInv, TypeOK, Moved
  <2>2. Kinded'
    BY <1>1, <1>5, Zenon DEF IndInv, Kinded, TrackedOf, ProcessesOf
  <2> QED
    BY <2>1, <2>2, Zenon
<1>7. OnlyTouches(r)
  BY <1>1, <1>5, Zenon DEF OnlyTouches, TrackedOf, ProcessesOf, ForwardsOf
<1>8. Mutex' /\ SweepingBy(c)'
  BY <1>1, <1>4, MutexStay, StillClosing, Zenon DEF IndInv, Holding, CloseAt
<1>9. WorkingOn(c)' /\ HeldBy(c)' /\ ClosingBy(c)'
  <2>1. \A f \in forwards' : of[f] # r
    BY <1>1, Zenon DEF ForwardsOf, IndInv, Kinded, TypeOK
  <2> QED
    BY <1>1, <1>2, <1>4, <2>1, Zenon DEF Moved, WorkingOn, HeldBy, ClosingBy,
       CreateAt, SpawnAt, ExecAt, CancelAt, ForwardAt, CloseAt, DownAt
<1>10. Slots'
  <2>1. \A i \in alive' : Supervised(i) => processes'[i] = "owned"
    <3> SUFFICES ASSUME NEW i \in alive', Supervised(i)
                 PROVE  processes'[i] = "owned"
      BY Zenon
    <3>1. i \in Ids /\ i \in alive /\ processes[i] = "owned"
      BY <1>5, Zenon DEF IndInv, TypeOK, Slots
    <3>2. CASE i \in TrackedOf(r)
      <4>1. of[i] = r /\ ~gone
        BY <3>1, <3>2 DEF IndInv, Slots, Supervised, TrackedOf, ProcessesOf
      <4>2. o[i] \in StopOutcomes(backend[r]) /\ ~Kills(o[i])
        BY <1>3, <3>1, <3>2, <4>1, Zenon
      <4>3. ~StopOk(o[i])
        BY <4>1, <4>2, Zenon DEF StopOutcomes, Kills, StopOk, Supervised
      <4> QED
        BY <1>3, <3>1, <4>1, <4>2, <4>3, Zenon
    <3>3. CASE i \notin TrackedOf(r)
      BY <1>5, <3>1, <3>3, Zenon
    <3> QED
      BY <3>2, <3>3, Zenon
  <2>2. \A g \in tunnels' \ forwards' :
          \E d \in Calls : call'[d].at = "forward.publish" /\ call'[d].p = g
    <3> SUFFICES ASSUME NEW g \in tunnels' \ forwards'
                 PROVE  \E d \in Calls : /\ call'[d].at = "forward.publish"
                                         /\ call'[d].p = g
      BY Zenon
    <3>1. g \in tunnels \ forwards
      BY <1>1, Zenon
    <3>2. PICK d \in Calls : call[d].at = "forward.publish" /\ call[d].p = g
      BY <3>1, Zenon DEF IndInv, Slots
    <3>3. d # c
      BY <1>1, <3>2, Zenon
    <3> QED
      BY <1>4, <3>2, <3>3, Zenon DEF Moved
  <2>3. \A i \in Ids : processes'[i] # "absent" => processes[i] # "absent"
    BY <1>5, Zenon DEF TrackedOf
  <2> QED
    BY <1>1, <1>2, <1>5, <2>1, <2>2, <2>3 DEF IndInv, Slots, Supervised
<1>11. Acknowledged'
  BY <1>1, <1>4, <1>5, AcknowledgedKept, Zenon DEF IndInv, StartPlaces
<1>12. Owns(c, r) /\ Settled(c)
  BY <1>1, <1>2, <1>4, Zenon DEF Owns, Holding, Settled, Moved, CreateAt,
     SpawnAt, CloseAt, DownAt
<1> QED
  BY <1>2, <1>4, <1>6, <1>7, <1>8, <1>9, <1>10, <1>11, <1>12, TaskStep, Zenon

\* Sandbox::destroy, done or failed, preserves IndInv.
LEMMA CloseDestroyStep ==
  ASSUME IndInv, NEW c \in Calls, CloseDestroy(c)
  PROVE  IndInv'
<1> DEFINE r == call[c].r
           inBox == IF backend[r] = "docker" THEN ProcessesOf(r) ELSE {}
<1>1. /\ call[c].at = "close.destroy"
      /\ UNCHANGED <<next, kind, of, shutdown, reservations, entries, pending,
                     closing, native, slot, backend, forwards, commands,
                     tunnels, closed, cancelled, down>>
  BY Zenon DEF CloseDestroy, registry, ids, fence, told
<1>2. /\ r \in Ids /\ kind[r] = "Resource" /\ r \notin reservations
      /\ r \in slot /\ r \in closing
  BY <1>1, Zenon DEF IndInv, Working, WorkingOn, Held, HeldBy, Slots, CloseAt
<1>3. /\ \A f \in forwards : of[f] # r
      /\ backend[r] # "docker" =>
           r \notin commands /\ \A p \in ProcessesOf(r) : processes[p] = "absent"
  BY <1>1, Zenon DEF IndInv, Closing, ClosingBy
<1>4. CASE /\ boxes' = boxes \ {r} /\ alive' = alive \ inBox
           /\ destroyed' = destroyed \cup {r}
           /\ processes' = [p \in Ids |-> IF p \in inBox \cap TrackedOf(r)
                                          THEN "stopped" ELSE processes[p]]
           /\ Goto(c, IF backend[r] = "docker" THEN "close.check" ELSE "close.retire")
           /\ UNCHANGED <<guard, sweep>>
  <2>1. PICK pl \in {"close.check", "close.retire"} :
          /\ Moved(c, pl, r, call[c].p)
          /\ pl = "close.check" <=> backend[r] = "docker"
    BY <1>4, GotoMoves, Zenon DEF IndInv, Places, CloseAt
  <2>2. /\ processes' \in [Ids -> {"absent", "owned", "stopped"}]
        /\ \A i \in Ids : i \notin TrackedOf(r) => processes'[i] = processes[i]
        /\ \A i \in Ids : i \notin inBox => processes'[i] = processes[i]
        /\ \A i \in Ids : processes'[i] = "absent" <=> processes[i] = "absent"
    BY <1>4, Zenon DEF IndInv, TypeOK, TrackedOf, ProcessesOf
  <2>3. TypeOK'
    BY <1>1, <1>2, <1>4, <2>1, <2>2 DEF IndInv, TypeOK, Moved
  <2>4. Kinded'
    BY <1>1, <1>2, <1>4, <2>2 DEF IndInv, Kinded
  <2>5. OnlyTouches(r)
    BY <1>1, <1>4, <2>2, Zenon DEF OnlyTouches, TrackedOf, ProcessesOf
  <2>6. Mutex' /\ SweepingBy(c)'
    BY <1>1, <1>4, <2>1, MutexStay, StillClosing, Zenon DEF IndInv, Holding,
       CloseAt
  <2>7. WorkingOn(c)' /\ HeldBy(c)'
    BY <1>1, <1>2, <2>1, Zenon DEF Moved, WorkingOn, HeldBy, CreateAt, SpawnAt,
       ExecAt, CancelAt, ForwardAt, CloseAt, DownAt
  <2>8. ClosingBy(c)'
    BY <1>1, <1>2, <1>3, <1>4, <2>1, <2>2 DEF Moved, ClosingBy, ProcessesOf
  <2>9. Slots'
    <3>1. \A p \in alive' : of[p] \in destroyed' =>
            backend[of[p]] \in {"local", "remote"}
      <4> SUFFICES ASSUME NEW p \in alive', of[p] = r
                   PROVE  backend[r] \in {"local", "remote"}
        BY <1>4, Zenon DEF IndInv, Slots
      <4>1. p \in alive /\ p \in ProcessesOf(r) /\ p \notin inBox
        BY <1>4, Zenon DEF IndInv, TypeOK, Kinded, ProcessesOf
      <4>2. backend[r] # "docker" /\ processes[p] = "absent"
        BY <1>3, <4>1, Zenon
      <4> QED
        BY <4>1, <4>2, Zenon DEF IndInv, Slots, Supervised
    <3>2. \A p \in alive' : Supervised(p) => processes'[p] = "owned"
      BY <1>4, <2>2, Zenon DEF IndInv, TypeOK, Slots
    <3>3. \A f \in tunnels \ forwards :
            \E d \in Calls : call'[d].at = "forward.publish" /\ call'[d].p = f
      BY <1>1, <2>1 DEF IndInv, Slots, Moved
    <3>4. /\ slot' \subseteq entries' /\ \A q \in entries' : backend'[q] # "none"
          /\ boxes' \subseteq slot' /\ commands' \subseteq slot'
      BY <1>1, <1>4, Zenon DEF IndInv, Slots
    <3>5. /\ boxes' \cap destroyed' = {}
          /\ slot' \cap destroyed' \subseteq closing'
      BY <1>1, <1>2, <1>4, Zenon DEF IndInv, Slots
    <3>6. /\ \A p \in Ids : processes'[p] # "absent" => of'[p] \in slot'
          /\ \A f \in forwards' \cup tunnels' : of'[f] \in slot'
      BY <1>1, <2>2, Zenon DEF IndInv, Slots
    <3> QED
      BY <1>1, <3>1, <3>2, <3>3, <3>4, <3>5, <3>6, Zenon DEF Slots, Supervised
  <2>10. Acknowledged'
    BY <1>1, <1>4, <2>1, AcknowledgedKept, Zenon DEF IndInv, StartPlaces
  <2>11. Owns(c, r) /\ Settled(c)
    BY <1>1, <1>2, <1>4, <2>1, Zenon DEF Owns, Holding, Settled, Moved,
       CreateAt, SpawnAt, CloseAt, DownAt
  <2> QED
    BY <1>2, <1>4, <2>1, <2>3, <2>4, <2>5, <2>6, <2>7, <2>8, <2>9, <2>10,
       <2>11, TaskStep, Zenon
<1>5. CASE /\ boxes' \subseteq boxes /\ boxes \subseteq boxes' \cup {r}
           /\ alive' \subseteq alive
           /\ Unlock(r) /\ CloseReturn(c, FALSE)
           /\ UNCHANGED <<destroyed, processes>>
  <2>1. PICK pl \in {"idle", "down.next"} : Moved(c, pl, 0, 0)
    BY <1>1, <1>5, CloseReturned, Zenon DEF CloseAt
  <2>2. /\ sweep' \in [Calls -> SweepType]
        /\ \A d \in Calls \ {c} : sweep'[d] = sweep[d]
        /\ SweepingBy(c)'
    BY <1>1, <1>5, CloseReturned, Zenon DEF CloseAt
  <2>3. TypeOK'
    BY <1>1, <1>2, <1>5, <2>1, <2>2, Zenon DEF IndInv, TypeOK, Moved, Unlock
  <2>4. Kinded'
    BY <1>1, <1>5, Zenon DEF IndInv, Kinded
  <2>5. OnlyTouches(r)
    BY <1>1, <1>5, Zenon DEF OnlyTouches
  <2>6. Mutex'
    BY <1>1, <1>2, <1>5, <2>1, MutexRelease, Zenon DEF IndInv, Holding,
       CreateAt, CloseAt
  <2>7. WorkingOn(c)' /\ HeldBy(c)' /\ ClosingBy(c)'
    BY <2>1, AtRest, Zenon DEF CloseAt, DownAt
  <2>8. Slots'
    <3>1. \A f \in tunnels \ forwards :
            \E d \in Calls : call'[d].at = "forward.publish" /\ call'[d].p = f
      BY <1>1, <2>1 DEF IndInv, Slots, Moved
    <3> QED
      BY <1>1, <1>5, <3>1, Zenon DEF IndInv, Slots, Supervised
  <2>9. Acknowledged'
    BY <1>1, <1>5, <2>1, AcknowledgedKept, Zenon DEF IndInv, StartPlaces
  <2>11. Owns(c, r) /\ Settled(c)
    BY <1>1, <1>2, <1>5, <2>1, <2>2, Zenon DEF Owns, Holding, Settled, Moved,
       CreateAt, SpawnAt, CloseAt, DownAt
  <2> QED
    BY <1>2, <2>1, <2>2, <2>3, <2>4, <2>5, <2>6, <2>7, <2>8, <2>9, <2>11,
       TaskStep, Zenon
<1> QED
  BY <1>4, <1>5, Zenon DEF CloseDestroy

\* Close giving up on what it could not clean up, or going on, preserves IndInv.
LEMMA CloseCheckStep ==
  ASSUME IndInv, NEW c \in Calls, CloseCheck(c)
  PROVE  IndInv'
<1> DEFINE r == call[c].r
           stuck == r \in commands \/ \E p \in ProcessesOf(r) : processes[p] = "owned"
<1>1. /\ call[c].at = "close.check"
      /\ processes' = [p \in Ids |-> IF p \in ProcessesOf(r)
                                         /\ processes[p] = "stopped"
                                     THEN "absent" ELSE processes[p]]
      /\ UNCHANGED <<next, kind, of, shutdown, reservations, entries, pending,
                     closing, native, slot, backend, destroyed, forwards, boxes,
                     alive, commands, tunnels, closed, cancelled, down>>
  BY Zenon DEF CloseCheck, registry, ids, fence, box, world, told
<1>2. /\ r \in Ids /\ kind[r] = "Resource" /\ r \notin reservations
      /\ r \in slot /\ r \in closing
  BY <1>1, Zenon DEF IndInv, Working, WorkingOn, Held, HeldBy, Slots, CloseAt
<1>3. /\ processes' \in [Ids -> {"absent", "owned", "stopped"}]
      /\ \A i \in Ids : i \notin ProcessesOf(r) => processes'[i] = processes[i]
      /\ \A i \in Ids : processes'[i] # "absent" => processes[i] # "absent"
      /\ \A i \in Ids : processes[i] = "owned" => processes'[i] = "owned"
  BY <1>1, Zenon DEF IndInv, TypeOK
<1>4. Kinded' /\ OnlyTouches(r)
  <2>1. Kinded'
    BY <1>1, <1>3, Zenon DEF IndInv, Kinded
  <2>2. OnlyTouches(r)
    BY <1>1, <1>3, Zenon DEF OnlyTouches, ProcessesOf
  <2> QED
    BY <2>1, <2>2, Zenon
<1>5. ASSUME NEW pl, NEW q, NEW p, Moved(c, pl, q, p), pl \notin StartPlaces
      PROVE  Slots' /\ Acknowledged'
  <2>1. \A f \in tunnels \ forwards :
          \E d \in Calls : call'[d].at = "forward.publish" /\ call'[d].p = f
    BY <1>1, <1>5 DEF IndInv, Slots, Moved
  <2>2. Slots'
    BY <1>1, <1>3, <2>1 DEF IndInv, TypeOK, Slots, Supervised
  <2>3. Acknowledged'
    BY <1>1, <1>5, AcknowledgedKept, Zenon DEF IndInv
  <2> QED
    BY <2>2, <2>3, Zenon
<1>6. CASE ~stuck
  <2>1. PICK pl \in {"close.retire", "close.destroy"} :
          /\ Moved(c, pl, r, call[c].p)
          /\ pl = "close.retire" <=> r \in destroyed
    BY <1>6, GotoMoves, Zenon DEF CloseCheck, IndInv, Places, CloseAt
  <2>2. UNCHANGED <<guard, sweep>>
    BY <1>6, Zenon DEF CloseCheck
  <2>3. TypeOK'
    BY <1>1, <1>3, <2>1, <2>2, Zenon DEF IndInv, TypeOK, Moved
  <2>4. Mutex' /\ SweepingBy(c)'
    BY <1>1, <2>1, <2>2, MutexStay, StillClosing, Zenon DEF IndInv, Holding,
       CloseAt
  <2>5. WorkingOn(c)' /\ HeldBy(c)'
    BY <1>1, <1>2, <2>1, Zenon DEF Moved, WorkingOn, HeldBy, CreateAt, SpawnAt,
       ExecAt, CancelAt, ForwardAt, CloseAt, DownAt
  <2>6. ClosingBy(c)'
    <3>1. r \notin commands /\ \A p \in ProcessesOf(r) : processes'[p] = "absent"
      BY <1>1, <1>6, Zenon DEF IndInv, TypeOK, ProcessesOf
    <3>2. /\ \A f \in forwards : of[f] # r
          /\ backend[r] = "docker" => r \in destroyed
      BY <1>1, Zenon DEF IndInv, Closing, ClosingBy
    <3>3. r \in destroyed => r \notin boxes
      BY Zenon DEF IndInv, Slots
    <3> QED
      BY <1>1, <2>1, <3>1, <3>2, <3>3, Zenon DEF Moved, ClosingBy, ProcessesOf
  <2>7. Slots' /\ Acknowledged'
    BY <1>5, <2>1, Zenon DEF StartPlaces
  <2>8. Owns(c, r) /\ Settled(c)
    BY <1>1, <1>2, <2>1, <2>2, Zenon DEF Owns, Holding, Settled, Moved,
       CreateAt, SpawnAt, CloseAt, DownAt
  <2> QED
    BY <1>1, <1>2, <1>4, <2>1, <2>3, <2>4, <2>5, <2>6, <2>7, <2>8, TaskStep,
       Zenon
<1>7. CASE stuck
  <2>1. Unlock(r) /\ CloseReturn(c, FALSE)
    BY <1>7, Zenon DEF CloseCheck
  <2>2. PICK pl \in {"idle", "down.next"} : Moved(c, pl, 0, 0)
    BY <1>1, <2>1, CloseReturned, Zenon DEF CloseAt
  <2>3. /\ sweep' \in [Calls -> SweepType]
        /\ \A d \in Calls \ {c} : sweep'[d] = sweep[d]
        /\ SweepingBy(c)'
    BY <1>1, <2>1, CloseReturned, Zenon DEF CloseAt
  <2>4. TypeOK'
    BY <1>1, <1>2, <1>3, <2>1, <2>2, <2>3, Zenon DEF IndInv, TypeOK, Moved,
       Unlock
  <2>5. Mutex'
    BY <1>1, <1>2, <2>1, <2>2, MutexRelease, Zenon DEF IndInv, Holding,
       CreateAt, CloseAt
  <2>6. WorkingOn(c)' /\ HeldBy(c)' /\ ClosingBy(c)'
    BY <2>2, AtRest, Zenon DEF CloseAt, DownAt
  <2>7. Slots' /\ Acknowledged'
    BY <1>5, <2>2, Zenon DEF StartPlaces
  <2>8. Owns(c, r) /\ Settled(c)
    BY <1>1, <1>2, <2>2, <2>3, Zenon DEF Owns, Holding, Settled, Moved,
       CreateAt, SpawnAt, CloseAt, DownAt
  <2> QED
    BY <1>1, <1>2, <1>4, <2>2, <2>3, <2>4, <2>5, <2>6, <2>7, <2>8, TaskStep,
       Zenon
<1> QED
  BY <1>6, <1>7, Zenon

\* Close emptying the slot preserves IndInv: nothing is left in it.
LEMMA CloseRetireStep ==
  ASSUME IndInv, NEW c \in Calls, CloseRetire(c)
  PROVE  IndInv'
<1> DEFINE r == call[c].r
<1>1. /\ call[c].at = "close.retire" /\ slot' = slot \ {r}
      /\ Goto(c, "close.unlist")
      /\ UNCHANGED <<next, kind, of, shutdown, reservations, entries, pending,
                     closing, native, guard, backend, destroyed, processes,
                     forwards, boxes, alive, commands, tunnels, sweep, closed,
                     cancelled, down>>
  BY Zenon DEF CloseRetire, registry, ids, fence, world, told
<1>2. /\ r \in Ids /\ kind[r] = "Resource" /\ r \notin reservations
      /\ r \in entries => r \in closing
  BY <1>1, Zenon DEF IndInv, Working, WorkingOn, CloseAt
<1>3. /\ \A f \in forwards : of[f] # r
      /\ r \notin commands /\ r \notin boxes
      /\ \A p \in ProcessesOf(r) : processes[p] = "absent"
  BY <1>1, Zenon DEF IndInv, Closing, ClosingBy
<1>4. Moved(c, "close.unlist", r, call[c].p)
  BY <1>1, GotoMoves, Zenon DEF IndInv, Places, CloseAt
<1>5. TypeOK' /\ Kinded'
  BY <1>1, <1>4 DEF IndInv, TypeOK, Kinded, Moved
<1>6. OnlyTouches(r)
  BY <1>1, Zenon DEF OnlyTouches
<1>7. Mutex' /\ SweepingBy(c)'
  BY <1>1, <1>4, MutexStay, StillClosing, Zenon DEF IndInv, Holding, CloseAt
<1>8. WorkingOn(c)' /\ HeldBy(c)' /\ ClosingBy(c)'
  BY <1>1, <1>2, <1>4, Zenon DEF Moved, WorkingOn, HeldBy, ClosingBy, CreateAt,
     SpawnAt, ExecAt, CancelAt, ForwardAt, CloseAt, DownAt
<1>9. Slots'
  <2>1. \A p \in Ids : processes[p] # "absent" => of[p] # r
    BY <1>3, Zenon DEF IndInv, Kinded, ProcessesOf
  <2>2. \A f \in tunnels \ forwards :
          \E d \in Calls : /\ call'[d].at = "forward.publish" /\ call'[d].p = f
                           /\ of[f] # r
    <3> SUFFICES ASSUME NEW f \in tunnels \ forwards
                 PROVE \E d \in Calls : /\ call'[d].at = "forward.publish"
                                        /\ call'[d].p = f /\ of[f] # r
      BY Zenon
    <3>1. PICK d \in Calls : call[d].at = "forward.publish" /\ call[d].p = f
      BY Zenon DEF IndInv, Slots
    <3>2. d # c /\ call[d].at \in Holding /\ call[d].r = of[f]
      BY <1>1, <3>1, Zenon DEF IndInv, Held, HeldBy, ForwardsOf, Holding
    <3>3. of[f] # r
      BY <1>1, <1>2, <3>2, MutexOnly, Zenon DEF IndInv, Holding, CloseAt
    <3> QED
      BY <1>4, <3>1, <3>2, <3>3, Zenon DEF Moved
  <2>3. \A f \in forwards \cup tunnels : of[f] \in slot'
    BY <1>1, <1>3, <2>2, Zenon DEF IndInv, Slots
  <2> QED
    BY <1>1, <1>3, <2>1, <2>2, <2>3 DEF IndInv, Slots, Supervised
<1>10. Acknowledged'
  BY <1>1, <1>4, AcknowledgedKept, Zenon DEF IndInv, StartPlaces
<1>11. call[c].at \in Holding /\ \A d \in Calls \ {c} : sweep'[d] = sweep[d]
  BY <1>1, Zenon DEF Holding, CloseAt
<1>12. Owns(c, r) /\ Settled(c)
  BY <1>1, <1>2, <1>4, <1>11, Zenon DEF Owns, Holding, Settled, Moved,
     CreateAt, SpawnAt, CloseAt, DownAt
<1> QED
  BY <1>2, <1>4, <1>5, <1>6, <1>7, <1>8, <1>9, <1>10, <1>12, TaskStep, Zenon

\* Close removing the entry preserves IndInv.
LEMMA CloseUnlistStep ==
  ASSUME IndInv, NEW c \in Calls, CloseUnlist(c)
  PROVE  IndInv'
<1> DEFINE r == call[c].r
<1>1. /\ call[c].at = "close.unlist" /\ entries' = entries \ {r}
      /\ Goto(c, "close.reopen")
      /\ UNCHANGED <<next, kind, of, shutdown, reservations, pending,
                     closing, native, guard, slot, backend, destroyed,
                     processes, forwards, boxes, alive, commands, tunnels,
                     sweep, closed, cancelled, down>>
  BY Zenon DEF CloseUnlist, ids, fence, owned, box, world, told
<1>2. /\ r \in Ids /\ kind[r] = "Resource" /\ r \notin reservations
      /\ r \notin slot
  BY <1>1, Zenon DEF IndInv, Working, WorkingOn, Held, HeldBy, CloseAt
<1>3. Moved(c, "close.reopen", r, call[c].p)
  BY <1>1, GotoMoves, Zenon DEF IndInv, Places, CloseAt
<1>4. TypeOK' /\ Kinded'
  BY <1>1, <1>3 DEF IndInv, TypeOK, Kinded, Moved
<1>5. OnlyTouches(r)
  BY <1>1, Zenon DEF OnlyTouches
<1>6. Mutex' /\ SweepingBy(c)'
  BY <1>1, <1>3, MutexStay, StillClosing, Zenon DEF IndInv, Holding, CloseAt
<1>7. WorkingOn(c)' /\ HeldBy(c)' /\ ClosingBy(c)'
  BY <1>1, <1>2, <1>3, Zenon DEF Moved, WorkingOn, HeldBy, ClosingBy, CreateAt,
     SpawnAt, ExecAt, CancelAt, ForwardAt, CloseAt, DownAt
<1>8. Slots'
  <2>1. \A f \in tunnels \ forwards :
          \E d \in Calls : call'[d].at = "forward.publish" /\ call'[d].p = f
    BY <1>1, <1>3 DEF IndInv, Slots, Moved
  <2>2. slot \subseteq entries' /\ \A q \in entries' : backend[q] # "none"
    BY <1>1, <1>2, Zenon DEF IndInv, Slots
  <2> QED
    BY <1>1, <2>1, <2>2, Zenon DEF IndInv, Slots, Supervised
<1>9. Acknowledged'
  BY <1>1, <1>3, AcknowledgedKept, Zenon DEF IndInv, StartPlaces
<1>10. Owns(c, r) /\ Settled(c)
  BY <1>1, <1>2, <1>3, Zenon DEF Owns, Holding, Settled, Moved, CreateAt,
     SpawnAt, CloseAt, DownAt
<1> QED
  BY <1>2, <1>3, <1>4, <1>5, <1>6, <1>7, <1>8, <1>9, <1>10, TaskStep, Zenon

\* Close lifting the fence and returning preserves IndInv.
LEMMA CloseReopenStep ==
  ASSUME IndInv, NEW c \in Calls, CloseReopen(c)
  PROVE  IndInv'
<1> DEFINE r == call[c].r
           ok == ~call[c].err
<1>1. /\ call[c].at = "close.reopen" /\ closing' = closing \ {r}
      /\ native' = [native EXCEPT ![r] = "none"]
      /\ closed' = IF call[c].err THEN closed ELSE closed \cup {r}
      /\ Unlock(r) /\ CloseReturn(c, ok)
      /\ UNCHANGED <<next, kind, of, shutdown, reservations, entries, pending,
                     slot, backend, destroyed, processes, forwards, boxes,
                     alive, commands, tunnels, cancelled, down>>
  BY Zenon DEF CloseReopen, ids, owned, box, world
<1>2. /\ r \in Ids /\ kind[r] = "Resource" /\ r \notin reservations
      /\ r \notin slot /\ r \notin entries
  BY <1>1, Zenon DEF IndInv, Working, WorkingOn, Held, HeldBy, CloseAt
<1>3. ok \in BOOLEAN
  BY Zenon DEF IndInv, TypeOK, CallType
<1>4. PICK pl \in {"idle", "down.next"} : Moved(c, pl, 0, 0)
  <2> HIDE DEF ok
  <2> QED
    BY <1>1, <1>2, <1>3, CloseReturned, Zenon DEF CloseAt
<1>5. /\ sweep' \in [Calls -> SweepType]
      /\ \A d \in Calls \ {c} : sweep'[d] = sweep[d]
      /\ SweepingBy(c)'
  <2> HIDE DEF ok
  <2> QED
    BY <1>1, <1>2, <1>3, CloseReturned, Zenon DEF CloseAt
<1>6. TypeOK'
  BY <1>1, <1>2, <1>4, <1>5 DEF IndInv, TypeOK, Moved, Unlock
<1>7. Kinded'
  BY <1>1, <1>2, Zenon DEF IndInv, Kinded
<1>8. OnlyTouches(r)
  BY <1>1, Zenon DEF OnlyTouches
<1>9. Mutex'
  BY <1>1, <1>2, <1>4, MutexRelease, Zenon DEF IndInv, Holding, CreateAt,
     CloseAt
<1>10. WorkingOn(c)' /\ HeldBy(c)' /\ ClosingBy(c)'
  BY <1>4, AtRest, Zenon DEF CloseAt, DownAt
<1>11. Slots'
  <2>1. \A f \in tunnels \ forwards :
          \E d \in Calls : call'[d].at = "forward.publish" /\ call'[d].p = f
    <3> SUFFICES ASSUME NEW f \in tunnels \ forwards
                 PROVE  \E d \in Calls :
                          call'[d].at = "forward.publish" /\ call'[d].p = f
      BY Zenon
    <3>1. PICK d \in Calls : call[d].at = "forward.publish" /\ call[d].p = f
      BY Zenon DEF IndInv, Slots
    <3>2. d # c
      BY <1>1, <3>1, Zenon
    <3> QED
      BY <1>4, <3>1, <3>2, Zenon DEF Moved
  <2> QED
    BY <1>1, <1>2, <2>1, Zenon DEF IndInv, Slots, Supervised
<1>12. Acknowledged'
  <2> SUFFICES ASSUME NEW i \in cancelled, NEW d \in Calls,
                      call'[d].at \in StartPlaces
               PROVE  call'[d].p # i
    BY <1>1, <1>2 DEF IndInv, Acknowledged, Supervised, StartPlaces
  <2> QED
    BY <1>4 DEF IndInv, Acknowledged, Moved, StartPlaces
<1>13. Owns(c, r) /\ Settled(c)
  BY <1>1, <1>2, <1>4, <1>5, Zenon DEF Owns, Holding, Settled, Moved, CreateAt,
     SpawnAt, CloseAt, DownAt
<1> QED
  BY <1>2, <1>4, <1>5, <1>6, <1>7, <1>8, <1>9, <1>10, <1>11, <1>12, <1>13,
     TaskStep, Zenon

=============================================================================
