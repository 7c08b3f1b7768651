--------------------------- MODULE ResourcesProofs --------------------------
(***************************************************************************)
(* IndInv is preserved by the remaining actions (Exec, Shutdown, Reserve), so *)
(* it is an invariant of the resource registry, whatever the number of tasks, *)
(* ids and resources; the safety properties of Resources follow from it.   *)
(***************************************************************************)
EXTENDS ResourcesRunning, ResourcesClosing


----------------------------------------------------------------------------
\* Exec, and what happens outside the module

\* Exec, which looks its slot up, preserves IndInv.
LEMMA ExecStep ==
  ASSUME IndInv, NEW c \in Calls, NEW r \in 1 .. next, Exec(c, r)
  PROVE  IndInv'
<1>1. /\ call[c].at = "idle" /\ Begin(c, "exec.lock", r, 0)
      /\ UNCHANGED <<registry, guard, owned, world, sweep, told>>
  BY Zenon DEF Exec
<1>2. r \in Ids /\ kind[r] # "none" /\ UNCHANGED kind
  BY <1>1, HandleIds, Zenon DEF registry, ids
<1>3. Moved(c, "exec.lock", r, 0)
  BY <1>1, HandleIds, BeginMoves, BoundsAssumption DEF IndInv, Places, ExecAt
<1>4. WorkingOn(c)' /\ HeldBy(c)' /\ ClosingBy(c)'
  BY <1>2, <1>3, Zenon DEF Moved, WorkingOn, HeldBy, ClosingBy, CreateAt,
     SpawnAt, ExecAt, CancelAt, ForwardAt, CloseAt, DownAt
<1>5. Mutex' /\ SweepingBy(c)'
  BY <1>1, <1>3, MutexStay, NotSweeping, Zenon DEF IndInv, Holding, CreateAt,
     SpawnAt, ExecAt, CloseAt, DownAt
<1> QED
  BY <1>1, <1>3, <1>4, <1>5, QuietStep, Zenon DEF IndInv, TypeOK, StartPlaces,
     CreateAt, SpawnAt, ExecAt, CloseAt, DownAt

\* Exec publishing its abort handle, or being refused, preserves IndInv.
LEMMA ExecLockStep ==
  ASSUME IndInv, NEW c \in Calls, ExecLock(c)
  PROVE  IndInv'
<1> DEFINE r == call[c].r
<1>1. /\ call[c].at = "exec.lock" /\ guard[r] = Free
      /\ UNCHANGED <<next, kind, of, shutdown, reservations, entries, pending,
                     closing, slot, backend, destroyed, processes, forwards,
                     boxes, alive, tunnels, sweep, closed, cancelled, down>>
  BY Zenon DEF ExecLock, ids, owned, box, told
<1>2. r \in Ids /\ kind[r] # "none"
  BY <1>1, Zenon DEF IndInv, Working, WorkingOn, ExecAt
<1>3. PICK pl \in {"exec.await", "idle"} :
        /\ Moved(c, pl, call'[c].r, call'[c].p)
        /\ pl = "idle" => UNCHANGED <<guard, native, commands>>
        /\ pl = "exec.await" => /\ r \in slot /\ Lock(c, r) /\ call'[c].r = r
                                /\ native' = [native EXCEPT ![r] = "running"]
                                /\ commands' = commands \cup {r}
  BY GotoMoves, ReturnMoves, Zenon DEF ExecLock, IndInv, Places, Moved, ExecAt
<1>4. TypeOK' /\ Kinded'
  BY <1>1, <1>2, <1>3 DEF IndInv, TypeOK, Kinded, Moved, Lock
<1>5. OnlyTouches(r)
  BY <1>1, <1>3, Zenon DEF OnlyTouches
<1>6. Mutex'
  BY <1>1, <1>2, <1>3, MutexStay, MutexAcquire, Zenon DEF IndInv, Holding,
     CreateAt, ExecAt, CloseAt
<1>7. WorkingOn(c)' /\ HeldBy(c)' /\ ClosingBy(c)'
  BY <1>1, <1>2, <1>3, AtRest, Zenon DEF Moved, WorkingOn, HeldBy, ClosingBy,
     CreateAt, SpawnAt, ExecAt, CancelAt, ForwardAt, CloseAt, DownAt
<1>8. Slots'
  BY <1>1, <1>3 DEF IndInv, Slots, Supervised, Moved
<1>9. Acknowledged' /\ SweepingBy(c)'
  BY <1>1, <1>3, AcknowledgedKept, NotSweeping, Zenon DEF IndInv, StartPlaces,
     CreateAt, SpawnAt, ExecAt, CloseAt, DownAt
<1>10. Owns(c, r) /\ Settled(c)
  BY <1>1, <1>2, <1>3, Zenon DEF Owns, Holding, Settled, Moved, CreateAt,
     SpawnAt, ExecAt, CloseAt, DownAt
<1> QED
  BY <1>2, <1>3, <1>4, <1>5, <1>6, <1>7, <1>8, <1>9, <1>10, TaskStep, Zenon

\* The end of a collected command preserves IndInv.
LEMMA ExecEndStep ==
  ASSUME IndInv, NEW c \in Calls, ExecEnd(c)
  PROVE  IndInv'
<1> DEFINE r == call[c].r
<1>1. /\ call[c].at = "exec.await" /\ Moved(c, "exec.remove", r, call[c].p)
      /\ UNCHANGED <<next, kind, of, shutdown, reservations, entries, pending,
                     closing, native, guard, slot, backend, destroyed, processes,
                     forwards, boxes, alive, tunnels, sweep, closed, cancelled,
                     down>>
      /\ commands' = commands \/ commands' = commands \ {r}
  BY GotoMoves, Zenon DEF ExecEnd, registry, ids, fence, owned, box, told,
     IndInv, Places, ExecAt
<1>2. r \in Ids /\ kind[r] # "none" /\ r \in slot
  BY <1>1, Zenon DEF IndInv, Working, WorkingOn, Held, HeldBy, ExecAt
<1>3. TypeOK' /\ Kinded'
  BY <1>1 DEF IndInv, TypeOK, Kinded, Moved
<1>4. OnlyTouches(r)
  BY <1>1, Zenon DEF OnlyTouches
<1>5. Mutex' /\ SweepingBy(c)'
  BY <1>1, MutexStay, NotSweeping DEF IndInv, Holding, CreateAt, SpawnAt,
     ExecAt, CloseAt, DownAt
<1>6. WorkingOn(c)' /\ HeldBy(c)' /\ ClosingBy(c)'
  BY <1>1, <1>2, Zenon DEF Moved, WorkingOn, HeldBy, ClosingBy, CreateAt,
     SpawnAt, ExecAt, CancelAt, ForwardAt, CloseAt, DownAt
<1>7. Slots'
  BY <1>1 DEF IndInv, Slots, Supervised, Moved
<1>8. Acknowledged'
  BY <1>1, AcknowledgedKept, Zenon DEF IndInv, StartPlaces
<1>9. Owns(c, r) /\ Settled(c)
  BY <1>1, <1>2, Zenon DEF Owns, Holding, Settled, Moved, CreateAt, SpawnAt,
     ExecAt, CloseAt, DownAt
<1> QED
  BY <1>1, <1>2, <1>3, <1>4, <1>5, <1>6, <1>7, <1>8, <1>9, TaskStep, Zenon

\* The abort of a collected command preserves IndInv.
LEMMA ExecAbortedStep ==
  ASSUME IndInv, NEW c \in Calls, ExecAborted(c)
  PROVE  IndInv'
<1>1. /\ call[c].at = "exec.await"
      /\ Moved(c, "exec.remove", call[c].r, call[c].p)
      /\ UNCHANGED <<registry, guard, owned, world, sweep, told>>
  BY GotoMoves, Zenon DEF ExecAborted, IndInv, Places, ExecAt
<1>2. UNCHANGED <<kind, slot>>
  BY <1>1, Zenon DEF registry, ids, owned, box
<1>3. WorkingOn(c)' /\ HeldBy(c)' /\ ClosingBy(c)'
  BY <1>1, <1>2, Zenon DEF IndInv, Moved, Working, WorkingOn, Held, HeldBy,
     ClosingBy, CreateAt, SpawnAt, ExecAt, CancelAt, ForwardAt, CloseAt, DownAt
<1>4. Mutex' /\ SweepingBy(c)'
  BY <1>1, MutexStay, NotSweeping DEF IndInv, Holding, CreateAt, SpawnAt,
     ExecAt, CloseAt, DownAt
<1> QED
  BY <1>1, <1>3, <1>4, QuietStep, Zenon DEF IndInv, TypeOK, StartPlaces,
     CreateAt, SpawnAt, ExecAt, CloseAt, DownAt

\* Exec taking its abort handle back preserves IndInv.
LEMMA ExecRemoveStep ==
  ASSUME IndInv, NEW c \in Calls, ExecRemove(c)
  PROVE  IndInv'
<1> DEFINE r == call[c].r
<1>1. /\ call[c].at = "exec.remove" /\ Moved(c, "idle", 0, 0) /\ Unlock(r)
      /\ native' = [native EXCEPT ![r] = "none"]
      /\ UNCHANGED <<next, kind, of, shutdown, reservations, entries, pending,
                     closing, owned, world, sweep, closed, cancelled, down>>
  BY ReturnMoves, Zenon DEF ExecRemove, ids, told, IndInv
<1>2. UNCHANGED <<slot, backend, destroyed, processes, forwards, boxes, alive,
                  commands, tunnels>>
  BY <1>1, Zenon DEF owned, box, world
<1>3. r \in Ids
  BY <1>1, Zenon DEF IndInv, Working, WorkingOn, ExecAt
<1>4. TypeOK' /\ Kinded'
  BY <1>1, <1>2, Zenon DEF IndInv, TypeOK, Kinded, Moved, Unlock
<1>5. OnlyTouches(r)
  BY <1>1, <1>2, Zenon DEF OnlyTouches
<1>6. Mutex' /\ SweepingBy(c)'
  BY <1>1, <1>3, MutexRelease, NotSweeping, Zenon DEF IndInv, Holding,
     CreateAt, SpawnAt, ExecAt, CloseAt, DownAt
<1>7. Slots' /\ Acknowledged'
  BY <1>1, <1>2, SlotsKept, AcknowledgedKept, Zenon DEF IndInv, StartPlaces
<1>8. Owns(c, r) /\ Settled(c)
  BY <1>1, <1>3, Zenon DEF Owns, Holding, Settled, Moved, CreateAt, SpawnAt,
     ExecAt, CloseAt, DownAt
<1> QED
  BY <1>1, <1>3, <1>4, <1>5, <1>6, <1>7, <1>8, AtRest, TaskStep, Zenon

\* A process that ends by itself preserves IndInv.
LEMMA ExitStep ==
  ASSUME IndInv, NEW p, Exit(p)
  PROVE  IndInv'
<1>1. /\ alive' = alive \ {p}
      /\ UNCHANGED <<next, kind, of, shutdown, reservations, entries, pending,
                     closing, native, guard, slot, backend, destroyed, processes,
                     forwards, boxes, commands, tunnels, call, sweep, closed,
                     cancelled, down>>
  BY Zenon DEF Exit, registry, ids, fence, owned, box, told
<1> QED
  BY <1>1, LessHolds, Zenon

\* The supervisor reaping the child of an aborted Exec preserves IndInv.
LEMMA ReapStep ==
  ASSUME IndInv, NEW r, Reap(r)
  PROVE  IndInv'
<1>1. /\ commands' = commands \ {r}
      /\ UNCHANGED <<next, kind, of, shutdown, reservations, entries, pending,
                     closing, native, guard, slot, backend, destroyed, processes,
                     forwards, boxes, alive, tunnels, call, sweep, closed,
                     cancelled, down>>
  BY Zenon DEF Reap, registry, ids, fence, owned, box, told
<1> QED
  BY <1>1, LessHolds, Zenon

----------------------------------------------------------------------------
\* Shutdown

\* Shutdown refusing everything from now on and listing what to close preserves
\* IndInv.
LEMMA ShutdownStep ==
  ASSUME IndInv, NEW c \in Calls, Shutdown(c)
  PROVE  IndInv'
<1> DEFINE s == [active |-> TRUE, todo |-> entries, failed |-> FALSE,
                 woken |-> FALSE]
<1>1. /\ call[c].at = "idle" /\ shutdown' = TRUE /\ reservations' = {}
      /\ pending' = [p \in Ids |-> IF pending[p] = "no" THEN "no" ELSE "cancelled"]
      /\ closing' = closing \cup entries
      /\ native' = [r \in Ids |-> IF native[r] = "running" THEN "aborted"
                                  ELSE native[r]]
      /\ sweep' = [sweep EXCEPT ![c] = s]
      /\ Begin(c, "down.next", 0, 0)
      /\ UNCHANGED <<next, kind, of, entries, guard, owned, world, closed,
                     cancelled, down>>
  BY Zenon DEF Shutdown, told
<1>2. UNCHANGED <<slot, backend, destroyed, processes, forwards, boxes, alive,
                  commands, tunnels>>
  BY <1>1, Zenon DEF owned, box, world
<1>3. Moved(c, "down.next", 0, 0)
  BY <1>1, BeginMoves, BoundsAssumption DEF IndInv, Places, DownAt
<1>4. s \in SweepType
  BY Zenon DEF IndInv, TypeOK, SweepType
<1>5. /\ sweep' \in [Calls -> SweepType] /\ sweep'[c] = s
      /\ \A d \in Calls \ {c} : sweep'[d] = sweep[d]
  <2> HIDE DEF s
  <2> QED
    BY <1>1, <1>4, Zenon DEF IndInv, TypeOK
<1>6. /\ pending' \in [Ids -> {"no", "live", "cancelled"}]
      /\ \A i \in Ids : \/ pending'[i] = pending[i]
                        \/ pending[i] # "no" /\ pending'[i] = "cancelled"
      /\ native' \in [Ids -> {"none", "running", "aborted"}]
  BY <1>1, Zenon DEF IndInv, TypeOK
<1>7. TypeOK'
  BY <1>1, <1>2, <1>3, <1>5, <1>6 DEF IndInv, TypeOK, Moved
<1>8. Minted' /\ Kinded'
  BY <1>1, <1>2, <1>6, MintedKept, Zenon DEF IndInv, Kinded
<1>9. Mutex'
  BY <1>1, <1>3, MutexStay, Zenon DEF IndInv, Holding, CreateAt, CloseAt,
     DownAt
<1>10. WorkingOn(c)' /\ HeldBy(c)' /\ ClosingBy(c)'
  BY <1>3, AtRest, Zenon DEF DownAt
<1>11. Working' /\ OneStartup'
  BY <1>1, <1>3, <1>6, <1>10, WorkingKept, OneStartupKept, Zenon DEF IndInv,
     CreateAt, SpawnAt, CloseAt, DownAt
<1>12. OnlyTouches(0)
  BY <1>1, <1>2, Zenon DEF OnlyTouches
<1>13. Held' /\ Closing'
  BY <1>2, <1>3, <1>10, <1>12, HoldersWork, HeldKept, ClosingKept
  DEF IndInv, TypeOK
<1>14. Slots'
  BY <1>1, <1>3, SlotsKept, Zenon DEF IndInv
<1>15. Acknowledged'
  BY <1>1, <1>2, <1>3, <1>6, AcknowledgedKept, Zenon DEF IndInv, StartPlaces
<1>16. Sweeping'
  <2>1. SweepingBy(c)'
    BY <1>1, <1>3, <1>5, Zenon DEF SweepingBy, Moved, DownAt
  <2>2. ASSUME NEW d \in Calls \ {c} PROVE SweepingBy(d)'
    BY <1>1, <1>3, <1>5, Zenon DEF IndInv, Sweeping, SweepingBy, Moved
  <2> QED
    BY <1>1, <1>6, <2>1, <2>2, Zenon DEF IndInv, Sweeping
<1> QED
  BY <1>7, <1>8, <1>9, <1>11, <1>13, <1>14, <1>15, <1>16, Zenon DEF IndInv

\* The Shutdown loop closing the next resource preserves IndInv.
LEMMA ShutdownNextStep ==
  ASSUME IndInv, NEW c \in Calls, ShutdownNext(c)
  PROVE  IndInv'
<1>1. /\ call[c].at = "down.next"
      /\ UNCHANGED <<next, kind, of, shutdown, entries, pending, guard, owned,
                     world, closed, cancelled, down>>
  BY Zenon DEF ShutdownNext, ids, told
<1>2. /\ sweep[c].active /\ shutdown /\ sweep[c] \in SweepType
      /\ sweep[c].failed \/ entries \subseteq sweep[c].todo
  BY <1>1, Zenon DEF IndInv, Sweeping, SweepingBy, TypeOK, CreateAt, SpawnAt,
     CloseAt, DownAt
<1>3. CASE /\ sweep[c].todo = {} /\ Goto(c, "down.enable")
           /\ UNCHANGED <<reservations, closing, native, sweep>>
  <2>1. Moved(c, "down.enable", call[c].r, call[c].p)
    BY <1>3, GotoMoves, Zenon DEF IndInv, Places, DownAt
  <2>2. SweepingBy(c)'
    BY <1>1, <1>2, <1>3, <2>1, Zenon DEF SweepingBy, Moved, DownAt
  <2>3. UNCHANGED <<registry, guard, owned, world, told>>
    BY <1>1, <1>3, Zenon DEF registry, ids, fence, told
  <2> QED
    BY <1>1, <1>3, <2>1, <2>2, <2>3, LoopStep, Zenon DEF IndInv, TypeOK, DownAt
<1>4. ASSUME NEW r \in sweep[c].todo,
             sweep' = [sweep EXCEPT ![c].todo = @ \ {r}],
             IF r \in entries THEN BeginClose(c, r)
             ELSE UNCHANGED <<reservations, closing, native, call>>
      PROVE  IndInv'
  <2>1. /\ sweep' \in [Calls -> SweepType]
        /\ sweep'[c].active /\ sweep'[c].failed = sweep[c].failed
        /\ sweep'[c].todo = sweep[c].todo \ {r}
        /\ \A d \in Calls \ {c} : sweep'[d] = sweep[d]
    BY <1>2, <1>4 DEF IndInv, TypeOK, SweepType
  <2>2. r \in Ids /\ r \in 0 .. MaxId /\ r # 0
    BY <1>2, BoundsAssumption DEF SweepType, Ids
  <2>3. CASE r \notin entries
    <3>1. Moved(c, "down.next", call[c].r, call[c].p)
      BY <1>1, <1>4, <2>3, Zenon DEF IndInv, TypeOK, Moved
    <3>2. SweepingBy(c)'
      BY <1>1, <1>2, <2>1, <2>3, <3>1, Zenon DEF SweepingBy, Moved, DownAt
    <3>3. UNCHANGED <<registry, guard, owned, world, told>>
      BY <1>1, <1>4, <2>3, Zenon DEF registry, ids, fence, told
    <3> QED
      BY <1>1, <2>1, <3>1, <3>2, <3>3, LoopStep, Zenon DEF DownAt
  <2>4. CASE r \in entries
    <3>1. /\ reservations' \subseteq reservations /\ closing' = closing \cup {r}
          /\ r \notin reservations'
          /\ native' = [native EXCEPT ![r] = IF @ = "running" THEN "aborted" ELSE @]
          /\ Begin(c, "close.lock", r, 0)
      BY <1>4, <2>4, Zenon DEF BeginClose
    <3>2. Moved(c, "close.lock", r, 0)
      BY <2>2, <3>1, BeginMoves, BoundsAssumption DEF IndInv, Places, CreateAt,
         SpawnAt, CloseAt, DownAt
    <3>3. UNCHANGED <<slot, backend, destroyed, processes, forwards, boxes,
                      alive, commands, tunnels>>
      BY <1>1, Zenon DEF owned, box, world
    <3>4. TypeOK'
      <4>1. native' \in [Ids -> {"none", "running", "aborted"}]
        BY <2>2, <3>1, Zenon DEF IndInv, TypeOK
      <4> QED
        BY <1>1, <2>1, <2>2, <3>1, <3>2, <3>3, <4>1 DEF IndInv, TypeOK, Moved
    <3>5. Kinded'
      BY <1>1, <3>1, <3>3, Zenon DEF IndInv, Kinded
    <3>6. Mutex'
      BY <1>1, <3>2, MutexStay, Zenon DEF IndInv, Holding, CreateAt, CloseAt,
         DownAt
    <3>7. WorkingOn(c)' /\ HeldBy(c)' /\ ClosingBy(c)'
      <4>1. kind[r] = "Resource"
        BY <2>4, Zenon DEF IndInv, Kinded
      <4> QED
        BY <1>1, <2>2, <3>1, <3>2, <4>1, Zenon DEF Moved, WorkingOn, HeldBy,
           ClosingBy, CreateAt, SpawnAt, ExecAt, CancelAt, ForwardAt, CloseAt,
           DownAt
    <3>8. SweepingBy(c)'
      BY <1>1, <1>2, <2>1, <2>2, <2>4, <3>2, Zenon DEF SweepingBy, Moved,
         CreateAt, SpawnAt, CloseAt, DownAt
    <3>9. OnlyTouches(0)
      BY <1>1, <3>3, Zenon DEF OnlyTouches
    <3>10. Slots'
      BY <1>1, <3>1, <3>2, SlotsKept, Zenon DEF IndInv
    <3>11. Acknowledged'
      BY <1>1, <3>1, <3>2, <3>3, AcknowledgedKept, Zenon DEF IndInv,
         StartPlaces
    <3>12. Settled(c)
      BY <1>1, <2>1, <3>1, <3>2, Zenon DEF Settled, Moved, CreateAt, SpawnAt,
         CloseAt, DownAt
    <3> QED
      BY <3>2, <3>4, <3>5, <3>6, <3>7, <3>8, <3>9, <3>10, <3>11, <3>12,
         FreeStep, Zenon
  <2> QED
    BY <2>3, <2>4, Zenon
<1> QED
  BY <1>3, <1>4, Zenon DEF ShutdownNext

\* Shutdown registering for the next notification preserves IndInv.
LEMMA ShutdownEnableStep ==
  ASSUME IndInv, NEW c \in Calls, ShutdownEnable(c)
  PROVE  IndInv'
<1>1. /\ call[c].at = "down.enable" /\ Goto(c, "down.check")
      /\ sweep' = [sweep EXCEPT ![c].woken = FALSE]
      /\ UNCHANGED <<registry, guard, owned, world, told>>
  BY Zenon DEF ShutdownEnable
<1>2. Moved(c, "down.check", call[c].r, call[c].p)
  BY <1>1, GotoMoves, Zenon DEF IndInv, Places, DownAt
<1>3. /\ sweep' \in [Calls -> SweepType]
      /\ sweep'[c].active = sweep[c].active /\ sweep'[c].todo = sweep[c].todo
      /\ sweep'[c].failed = sweep[c].failed
      /\ \A d \in Calls \ {c} : sweep'[d] = sweep[d]
  <2>1. sweep \in [Calls -> SweepType]
    BY Zenon DEF IndInv, TypeOK
  <2>2. sweep' = [sweep EXCEPT ![c] = [sweep[c] EXCEPT !.woken = FALSE]]
    BY <1>1, Zenon
  <2> QED
    BY <2>1, <2>2, Zenon DEF SweepType
<1>4. SweepingBy(c)'
  BY <1>1, <1>2, <1>3, Zenon DEF IndInv, Sweeping, SweepingBy, Moved, registry,
     ids, CreateAt, SpawnAt, CloseAt, DownAt
<1> QED
  BY <1>1, <1>2, <1>3, <1>4, LoopStep, Zenon DEF DownAt

\* Shutdown waking up preserves IndInv.
LEMMA ShutdownSleepStep ==
  ASSUME IndInv, NEW c \in Calls, ShutdownSleep(c)
  PROVE  IndInv'
<1>1. /\ call[c].at = "down.sleep" /\ Goto(c, "down.enable")
      /\ UNCHANGED <<registry, guard, owned, world, sweep, told>>
  BY Zenon DEF ShutdownSleep
<1>2. Moved(c, "down.enable", call[c].r, call[c].p)
  BY <1>1, GotoMoves, Zenon DEF IndInv, Places, DownAt
<1>3. SweepingBy(c)'
  BY <1>1, <1>2, Zenon DEF IndInv, Sweeping, SweepingBy, Moved, registry, ids,
     CreateAt, SpawnAt, CloseAt, DownAt
<1> QED
  BY <1>1, <1>2, <1>3, LoopStep, Zenon DEF IndInv, TypeOK, DownAt

\* Shutdown finding startups queued, or returning, preserves IndInv.
LEMMA ShutdownCheckStep ==
  ASSUME IndInv, NEW c \in Calls, ShutdownCheck(c)
  PROVE  IndInv'
<1>1. /\ call[c].at = "down.check"
      /\ UNCHANGED <<registry, guard, owned, world, closed, cancelled>>
  BY Zenon DEF ShutdownCheck
<1>2. UNCHANGED <<next, kind, of, shutdown, reservations, entries, pending,
                  closing, native, slot, backend, destroyed, processes,
                  forwards, boxes, alive, commands, tunnels>>
  BY <1>1, Zenon DEF registry, ids, fence, owned, box, world
<1>3. CASE \E p \in Ids : pending[p] # "no"
  <2>1. Goto(c, "down.sleep") /\ UNCHANGED <<sweep, down>>
    BY <1>3, Zenon DEF ShutdownCheck
  <2>2. Moved(c, "down.sleep", call[c].r, call[c].p)
    BY <2>1, GotoMoves, Zenon DEF IndInv, Places, DownAt
  <2>3. SweepingBy(c)'
    BY <1>1, <1>2, <2>1, <2>2, Zenon DEF IndInv, Sweeping, SweepingBy, Moved,
       CreateAt, SpawnAt, CloseAt, DownAt
  <2> QED
    BY <1>1, <2>1, <2>2, <2>3, LoopStep, Zenon DEF IndInv, TypeOK, told, DownAt
<1>4. CASE \A p \in Ids : pending[p] = "no"
  <2>1. /\ Return(c) /\ sweep' = [sweep EXCEPT ![c] = NoSweep]
        /\ down' = (down \/ ~sweep[c].failed)
    BY <1>4, Zenon DEF ShutdownCheck
  <2>2. Moved(c, "idle", 0, 0)
    BY <2>1, ReturnMoves, Zenon DEF IndInv
  <2>3. /\ sweep' \in [Calls -> SweepType] /\ ~sweep'[c].active
        /\ \A d \in Calls \ {c} : sweep'[d] = sweep[d]
    BY <2>1, Zenon DEF IndInv, TypeOK, SweepType, NoSweep
  <2>4. TypeOK'
    BY <1>1, <1>2, <2>1, <2>2, <2>3, Zenon DEF IndInv, TypeOK, Moved
  <2>5. Minted' /\ Kinded' /\ Mutex'
    BY <1>1, <1>2, <2>2, MintedKept, MutexStay, Zenon DEF IndInv, Kinded,
       Holding, CreateAt, CloseAt, DownAt
  <2>6. WorkingOn(c)' /\ HeldBy(c)' /\ ClosingBy(c)'
    BY <2>2, AtRest, Zenon
  <2>7. Working' /\ OneStartup'
    BY <1>2, <2>2, <2>6, WorkingKept, OneStartupKept, Zenon DEF IndInv,
       CreateAt, SpawnAt, CloseAt, DownAt
  <2>8. OnlyTouches(0)
    BY <1>2, Zenon DEF OnlyTouches
  <2>9. Held' /\ Closing'
    BY <1>2, <2>2, <2>6, <2>8, HoldersWork, HeldKept, ClosingKept
    DEF IndInv, TypeOK
  <2>10. Slots' /\ Acknowledged'
    BY <1>1, <1>2, <2>2, SlotsKept, AcknowledgedKept, Zenon DEF IndInv,
       StartPlaces
  <2>11. Sweeping'
    <3>1. ASSUME NEW d \in Calls PROVE SweepingBy(d)'
      BY <1>2, <2>2, <2>3, Zenon DEF IndInv, Sweeping, SweepingBy, Moved,
         DownAt
    <3>2. shutdown /\ (sweep[c].failed \/ entries = {})
      BY <1>1, Zenon DEF IndInv, Sweeping, SweepingBy, CreateAt, SpawnAt,
         CloseAt, DownAt
    <3> QED
      BY <1>2, <1>4, <2>1, <3>1, <3>2, Zenon DEF IndInv, Sweeping
  <2> QED
    BY <2>4, <2>5, <2>7, <2>9, <2>10, <2>11, Zenon DEF IndInv
<1> QED
  BY <1>3, <1>4, Zenon

----------------------------------------------------------------------------
\* Reserve

\* Reserve, with the stale reservations it drops, preserves IndInv.
LEMMA ReserveStep ==
  ASSUME IndInv, NEW k \in Kinds, NEW r \in 0 .. MaxId, Reserve(k, r)
  PROVE  IndInv'
<1>1. /\ ~shutdown
      /\ UNCHANGED <<shutdown, entries, pending, closing, native, guard, slot,
                     backend, destroyed, processes, forwards, boxes, alive,
                     commands, tunnels, call, sweep, closed, cancelled, down>>
  BY Zenon DEF Reserve, fence, owned, box, world, told
<1> DEFINE n == next + 1
<1>2. CASE reservations' \subseteq reservations /\ UNCHANGED <<next, kind, of>>
  BY <1>1, <1>2, LessHolds, Zenon
<1>3. ASSUME NEW kept \in SUBSET reservations, next < MaxId,
             k = "Resource" \/ (r \in entries /\ r \notin closing),
             next' = n, reservations' = kept \cup {n},
             kind' = [kind EXCEPT ![n] = k], of' = [of EXCEPT ![n] = r]
      PROVE  IndInv'
  <2>1. n \in Ids /\ kind[n] = "none"
    BY <1>3, BoundsAssumption DEF IndInv, TypeOK, Minted, Ids
  <2>2. /\ \A i \in Ids : i # n => kind'[i] = kind[i] /\ of'[i] = of[i]
        /\ \A i \in Ids : kind[i] # "none" => kind'[i] = kind[i] /\ of'[i] = of[i]
        /\ kind'[n] = k /\ of'[n] = r /\ k # "none"
    BY <1>3, <2>1, Zenon DEF IndInv, TypeOK, Kinds
  <2>3. TypeOK'
    BY <1>1, <1>3, <2>1, BoundsAssumption DEF IndInv, TypeOK, Ids
  <2>4. Minted'
    <3>1. \A i \in Ids : kind'[i] = "none" <=> i > next'
      BY <1>3, <2>1, <2>2 DEF IndInv, Minted, TypeOK, Ids
    <3>2. ASSUME NEW i \in Ids, kind'[i] \in {"Process", "Forward"}
          PROVE  of'[i] \in Ids /\ kind'[of'[i]] = "Resource"
                   /\ of'[i] \notin reservations'
      <4>1. CASE i # n
        BY <1>3, <2>1, <2>2, <3>2, <4>1 DEF IndInv, Minted
      <4>2. CASE i = n
        BY <1>3, <2>1, <2>2, <3>2, <4>2 DEF IndInv, Kinded, TypeOK
      <4> QED
        BY <4>1, <4>2, Zenon
    <3> QED
      BY <3>1, <3>2, Zenon DEF Minted
  <2>5. Kinded'
    BY <1>1, <1>3, <2>1, <2>2 DEF IndInv, Kinded, TypeOK
  <2>6. Mutex' /\ OneStartup' /\ Sweeping'
    BY <1>1, Zenon DEF IndInv, Mutex, OneStartup, Sweeping, SweepingBy
  <2>7. Working'
    BY <1>1, <1>3, <2>1, <2>2 DEF IndInv, Working, WorkingOn, CreateAt,
       SpawnAt, ExecAt, CancelAt, ForwardAt, CloseAt, DownAt
  <2>8. Held'
    <3> SUFFICES ASSUME NEW c \in Calls PROVE HeldBy(c)'
      BY Zenon DEF Held
    <3>1. /\ call[c].p \in TrackedOf(call[c].r) => call[c].p \in TrackedOf(call[c].r)'
          /\ call[c].p \in ForwardsOf(call[c].r) => call[c].p \in ForwardsOf(call[c].r)'
      BY <1>1, <2>2, Zenon DEF TrackedOf, ProcessesOf, ForwardsOf
    <3> QED
      BY <1>1, <3>1, Zenon DEF IndInv, Held, HeldBy
  <2>9. Closing'
    <3>1. /\ processes[n] = "absent" /\ \A f \in forwards : of'[f] = of[f]
      BY <2>1, <2>2, Zenon DEF IndInv, Kinded, TypeOK
    <3> SUFFICES ASSUME NEW c \in Calls PROVE ClosingBy(c)'
      BY Zenon DEF Closing
    <3>2. \A p \in ProcessesOf(call[c].r)' : p = n \/ p \in ProcessesOf(call[c].r)
      BY <1>1, <2>2, Zenon DEF ProcessesOf
    <3> QED
      BY <1>1, <3>1, <3>2 DEF IndInv, Closing, ClosingBy
  <2>10. Slots'
    <3>1. /\ \A p \in alive : of'[p] = of[p]
          /\ \A p \in Ids : processes[p] # "absent" => of'[p] = of[p]
          /\ \A f \in forwards \cup tunnels : of'[f] = of[f]
      BY <2>2, Zenon DEF IndInv, Kinded, TypeOK
    <3> QED
      BY <1>1, <3>1 DEF IndInv, Slots, Supervised
  <2>11. Acknowledged'
    <3>1. \A i \in cancelled : kind'[i] = kind[i] /\ of'[i] = of[i] /\ i # n
      BY <2>1, <2>2, Zenon DEF IndInv, Acknowledged, TypeOK
    <3> QED
      BY <1>1, <1>3, <3>1 DEF IndInv, Acknowledged, Supervised
  <2> QED
    BY <2>3, <2>4, <2>5, <2>6, <2>7, <2>8, <2>9, <2>10, <2>11, Zenon DEF IndInv
<1>4. PICK stale \in SUBSET reservations :
        IF MayReserve(k, r, reservations \ stale)
        THEN /\ next' = n
             /\ reservations' = (reservations \ stale) \cup {n}
             /\ kind' = [kind EXCEPT ![n] = k]
             /\ of' = [of EXCEPT ![n] = r]
        ELSE reservations' = reservations \ stale /\ UNCHANGED <<next, kind, of>>
  BY Zenon DEF Reserve
<1>5. CASE MayReserve(k, r, reservations \ stale)
  BY <1>3, <1>4, <1>5 DEF MayReserve
<1>6. CASE ~MayReserve(k, r, reservations \ stale)
  BY <1>2, <1>4, <1>6, Zenon
<1> QED
  BY <1>5, <1>6, Zenon

----------------------------------------------------------------------------
\* The invariant and what follows from it

\* The module starts with IndInv.
LEMMA InitHolds == Init => IndInv
<1> SUFFICES ASSUME Init PROVE IndInv
  OBVIOUS
<1>1. Idle \in CallType /\ NoSweep \in SweepType
  BY BoundsAssumption DEF Idle, CallType, Places, NoSweep, SweepType
<1>2. TypeOK
  <2>1. /\ kind \in [Ids -> Kinds \cup {"none"}] /\ of \in [Ids -> 0 .. MaxId]
        /\ pending \in [Ids -> {"no", "live", "cancelled"}]
        /\ native \in [Ids -> {"none", "running", "aborted"}]
        /\ next \in 0 .. MaxId
    BY BoundsAssumption DEF Init
  <2>2. /\ guard \in [Ids -> Calls \cup {Free}]
        /\ backend \in [Ids -> AllBackends \cup {"none"}]
        /\ processes \in [Ids -> {"absent", "owned", "stopped"}]
    BY DEF Init
  <2>3. call \in [Calls -> CallType] /\ sweep \in [Calls -> SweepType]
    BY <1>1 DEF Init
  <2> QED
    BY <2>1, <2>2, <2>3, Zenon DEF Init, TypeOK
<1>3. Minted /\ Kinded
  BY BoundsAssumption DEF Init, Minted, Kinded, Ids
<1>4. \A c \in Calls : call[c].at = "idle" /\ ~sweep[c].active
  BY DEF Init, Idle, NoSweep
<1>5. "idle" \notin CreateAt \cup SpawnAt \cup ExecAt \cup CancelAt \cup ForwardAt
                    \cup CloseAt \cup DownAt \cup StartPlaces \cup Holding
  BY DEF CreateAt, SpawnAt, ExecAt, CancelAt, ForwardAt, CloseAt, DownAt,
     StartPlaces, Holding
<1>6. Mutex
  BY <1>4, <1>5, CallsAssumption DEF Init, Mutex
<1>7. Working /\ OneStartup /\ Held /\ Closing
  BY <1>4, <1>5, Zenon DEF Working, WorkingOn, OneStartup, Held, HeldBy, Closing,
     ClosingBy
<1>8. Slots /\ Acknowledged
  BY DEF Init, Slots, Acknowledged
<1>9. Sweeping
  BY <1>4, <1>5, Zenon DEF Init, Sweeping, SweepingBy
<1> QED
  BY <1>2, <1>3, <1>6, <1>7, <1>8, <1>9 DEF IndInv

\* A step that changes no variable of the registry preserves IndInv.
LEMMA StutterHolds == IndInv /\ UNCHANGED vars => IndInv'
<1> SUFFICES ASSUME IndInv, UNCHANGED vars PROVE IndInv'
  OBVIOUS
<1>1. UNCHANGED <<next, kind, of, shutdown, reservations, entries, pending,
                  closing, native, guard, slot, backend, destroyed, processes,
                  forwards, boxes, alive, commands, tunnels, call, sweep,
                  closed, cancelled, down>>
  BY DEF vars, registry, ids, fence, owned, box, world, told
<1> QED
  BY <1>1, LessHolds, Zenon

\* Every step of every task, and of the world outside, preserves IndInv.
LEMMA NextHolds == IndInv /\ [Next]_vars => IndInv'
<1> SUFFICES ASSUME IndInv, Next PROVE IndInv'
  BY StutterHolds
<1>1. CASE Reserve("Resource", 0)
  BY <1>1, ReserveStep, BoundsAssumption DEF Kinds
<1>2. ASSUME NEW r \in 1 .. next, Reserve("Process", r) \/ Reserve("Forward", r)
      PROVE  IndInv'
  BY <1>2, HandleIds, ReserveStep DEF Kinds
<1>3. ASSUME NEW c \in Calls, Start(c)
      PROVE  IndInv'
  <2>1. CASE Shutdown(c)
    BY <2>1, ShutdownStep
  <2>2. ASSUME NEW r \in 1 .. next, NEW b \in Backends, Create(c, r, b)
        PROVE  IndInv'
    BY <2>2, HandleIds, CreateStep
  <2>3. ASSUME NEW r \in 1 .. next, Exec(c, r) \/ Close(c, r)
        PROVE  IndInv'
    BY <2>3, HandleIds, ExecStep, CloseStep
  <2>4. ASSUME NEW r \in 1 .. next, NEW p \in 1 .. next,
               \/ Spawn(c, p, r) \/ Cancel(c, p, r)
               \/ Forward(c, p, r) \/ CloseForward(c, p, r)
        PROVE  IndInv'
    BY <2>4, HandleIds, SpawnStep, CancelStep, ForwardStep, CloseForwardStep
  <2> QED
    BY <1>3, <2>1, <2>2, <2>3, <2>4 DEF Start
<1>4. ASSUME NEW c \in Calls, Acquire(c)
      PROVE  IndInv'
  BY <1>4, SpawnLockStep, ExecLockStep, CancelLockStep, ForwardLockStep,
     UnforwardLockStep, CloseLockStep DEF Acquire
<1>5. ASSUME NEW c \in Calls, Proceed(c)
      PROVE  IndInv'
  BY <1>5, CreateCheckStep, CreateBackendStep, CreatePortsStep, CreateFailStep,
     SpawnSlotStep, SpawnStartStep, SpawnStopStep, SpawnDoneStep,
     SpawnNotifyStep, ExecAbortedStep, ExecRemoveStep, CancelSlotStep,
     CancelStopStep, ForwardPortsStep, ForwardOpenStep, ForwardPublishStep,
     CloseStopStep, CloseDestroyStep, CloseCheckStep, CloseRetireStep,
     CloseUnlistStep, CloseReopenStep, ShutdownNextStep, ShutdownEnableStep,
     ShutdownCheckStep, ShutdownSleepStep DEF Proceed
<1>6. ASSUME NEW c \in Calls, ExecEnd(c)
      PROVE  IndInv'
  BY <1>6, ExecEndStep
<1>7. ASSUME NEW i \in 1 .. next, IsRunning(i) \/ Exit(i) \/ Reap(i)
      PROVE  IndInv'
  BY <1>7, HandleIds, IsRunningStep, ExitStep, ReapStep
<1> QED
  BY <1>1, <1>2, <1>3, <1>4, <1>5, <1>6, <1>7 DEF Next

\* IndInv holds in every state the registry reaches.
THEOREM Invariance == Spec => []IndInv
BY InitHolds, NextHolds, PTL DEF Spec

\* The state of the registry (State, Executions, Resource) keeps its types.
THEOREM TypeCorrect == Spec => []TypeOK
<1>1. IndInv => TypeOK
  BY DEF IndInv
<1> QED
  BY <1>1, Invariance, PTL

\* Whatever a failing, cancelled or racing operation of the registry leaves
\* behind is recorded in a slot that Close and Shutdown reach.
THEOREM OwnershipSafe == Spec => []NothingUnowned
<1>1. IndInv => NothingUnowned
  BY DEF IndInv, Slots, TypeOK, NothingUnowned
<1> QED
  BY <1>1, Invariance, PTL

\* After Close has returned Ok nothing of the resource is left or comes back,
\* for any number of racing calls.
THEOREM CloseSafe == Spec => []CloseIsFinal
<1>1. IndInv => CloseIsFinal
  <2> SUFFICES ASSUME IndInv, NEW r \in closed
               PROVE  /\ r \notin entries \cup boxes \cup commands \cup reservations
                      /\ \A p \in alive : of[p] = r => ~Supervised(p)
                      /\ \A f \in tunnels : of[f] # r
    BY DEF CloseIsFinal
  <2>1. r \notin entries /\ r \notin slot /\ r \notin reservations
    BY DEF IndInv, Acknowledged, Slots, Kinded
  <2> QED
    BY <2>1 DEF IndInv, Slots, TypeOK
<1> QED
  BY <1>1, Invariance, PTL

\* After Cancel or CloseForward has returned Ok its process or tunnel is gone
\* and never starts.
THEOREM CancelSafe == Spec => []CancelIsFinal
<1>1. IndInv => CancelIsFinal
  BY DEF IndInv, Acknowledged, CancelIsFinal
<1> QED
  BY <1>1, Invariance, PTL

\* After Shutdown has returned Ok the module owns nothing and starts nothing.
THEOREM ShutdownSafe == Spec => []ShutdownIsFinal
<1>1. IndInv => ShutdownIsFinal
  BY DEF IndInv, Sweeping, Slots, TypeOK, ShutdownIsFinal
<1> QED
  BY <1>1, Invariance, PTL

=============================================================================
