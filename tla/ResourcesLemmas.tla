--------------------------- MODULE ResourcesLemmas --------------------------
(***************************************************************************)
(* What one step of one task leaves alone: the lemmas with which           *)
(* ResourcesProofs shows that IndInv is preserved by a step on one resource *)
(* without looking at the others.                                          *)
(***************************************************************************)
EXTENDS ResourcesInvariant, TLAPS

\* Task c has moved: it is now at `pl`, with resource r and handle p.
Moved(c, pl, r, p) ==
  /\ call' \in [Calls -> CallType]
  /\ call'[c].at = pl /\ call'[c].r = r /\ call'[c].p = p
  /\ \A d \in Calls \ {c} : call'[d] = call[d]

\* A step that changes nothing of any resource but r.
OnlyTouches(r) ==
  /\ UNCHANGED <<kind, of>>
  /\ \A q \in Ids \ {r} :
       /\ q \in entries' <=> q \in entries
       /\ q \in slot' <=> q \in slot
       /\ q \in destroyed' <=> q \in destroyed
       /\ q \in boxes' <=> q \in boxes
       /\ q \in commands' <=> q \in commands
       /\ backend'[q] = backend[q]
  /\ \A i \in Ids : of[i] # r =>
       /\ processes'[i] = processes[i]
       /\ i \in forwards' <=> i \in forwards

\* A task that goes on to its next section moves there and keeps its arguments.
LEMMA GotoMoves ==
  ASSUME TypeOK, NEW c \in Calls, NEW pl \in Places, Goto(c, pl)
  PROVE  Moved(c, pl, call[c].r, call[c].p)
BY DEF TypeOK, CallType, Goto, Moved

\* A bus method that starts moves its task to its first waiting place.
LEMMA BeginMoves ==
  ASSUME TypeOK, NEW c \in Calls, NEW pl \in Places, NEW r \in 0 .. MaxId,
         NEW p \in 0 .. MaxId, Begin(c, pl, r, p)
  PROVE  Moved(c, pl, r, p)
BY Zenon DEF TypeOK, CallType, Begin, Moved

\* A method that returns leaves its task idle.
LEMMA ReturnMoves ==
  ASSUME TypeOK, NEW c \in Calls, Return(c)
  PROVE  Moved(c, "idle", 0, 0)
<1>1. Idle \in CallType
  BY BoundsAssumption DEF Idle, CallType, Places
<1> QED
  BY <1>1, Zenon DEF TypeOK, Return, Moved, Idle

\* A step that neither takes nor gives back a slot mutex preserves Mutex.
LEMMA MutexStay ==
  ASSUME TypeOK, Mutex, NEW c \in Calls, NEW pl, NEW r, NEW p,
         Moved(c, pl, r, p), UNCHANGED guard,
         \/ call[c].at \notin Holding /\ pl \notin Holding
         \/ call[c].at \in Holding /\ pl \in Holding /\ call[c].r = r
  PROVE  Mutex'
BY DEF TypeOK, Mutex, Moved

\* Taking a free slot mutex (slot.lock().await) preserves Mutex.
LEMMA MutexAcquire ==
  ASSUME TypeOK, Mutex, NEW c \in Calls, NEW pl \in Holding, NEW r \in Ids,
         NEW p, call[c].at \notin Holding, guard[r] = Free,
         Moved(c, pl, r, p), Lock(c, r)
  PROVE  Mutex'
BY CallsAssumption DEF TypeOK, Mutex, Moved, Lock

\* Dropping the guard of a slot mutex preserves Mutex.
LEMMA MutexRelease ==
  ASSUME TypeOK, Mutex, NEW c \in Calls, NEW pl, NEW r, NEW p,
         call[c].at \in Holding, call[c].r \in Ids, pl \notin Holding,
         Moved(c, pl, r, p), Unlock(call[c].r)
  PROVE  Mutex'
BY CallsAssumption DEF TypeOK, Mutex, Moved, Unlock

\* While a task holds a slot mutex, or finds it free, no other task is inside
\* that slot.
LEMMA MutexOnly ==
  ASSUME TypeOK, Mutex, NEW c \in Calls, NEW r \in Ids,
         \/ guard[r] = Free
         \/ call[c].at \in Holding /\ call[c].r = r
  PROVE  \A d \in Calls \ {c} : call[d].at \in Holding => call[d].r # r
BY CallsAssumption DEF TypeOK, Mutex

\* What the other tasks work on survives a step that consumes reservations,
\* cancels startups and fences resources.
LEMMA WorkingKept ==
  ASSUME TypeOK, Working, NEW c \in Calls, NEW pl, NEW r, NEW p,
         Moved(c, pl, r, p), WorkingOn(c)', UNCHANGED <<kind, of>>,
         reservations' \subseteq reservations,
         \A i \in Ids : \/ pending'[i] = pending[i]
                        \/ pending[i] # "no" /\ pending'[i] = "cancelled",
         \A i \in entries' \ closing' :
           i \in entries \ closing \/ i \in reservations
  PROVE  Working'
<1> SUFFICES ASSUME NEW d \in Calls \ {c} PROVE WorkingOn(d)'
  BY Zenon DEF Working
<1> QED
  BY DEF Working, WorkingOn, Moved

\* A task keeps what it found in its slot through a step on another resource.
LEMMA HeldByKept ==
  ASSUME NEW d \in Calls, call'[d] = call[d], HeldBy(d), WorkingOn(d),
         NEW r, OnlyTouches(r), call[d].at \in Holding => call[d].r # r
  PROVE  HeldBy(d)'
<1> DEFINE at == call[d].at
<1>1. CASE at \in Holding
  <2>1. call[d].r # r /\ call[d].r \in Ids
    BY <1>1, Zenon DEF WorkingOn, Holding, CreateAt, SpawnAt, ExecAt, CancelAt,
       ForwardAt, CloseAt
  <2>2. at \in {"spawn.start", "spawn.stop"} =>
          call[d].p \in Ids /\ of[call[d].p] # r
    BY <2>1, Zenon DEF WorkingOn, SpawnAt
  <2> QED
    BY <1>1, <2>1, <2>2 DEF HeldBy, OnlyTouches, TrackedOf, ProcessesOf,
       ForwardsOf
<1>2. CASE at \notin Holding
  BY <1>2, Zenon DEF HeldBy, Holding, CreateAt, CloseAt
<1> QED
  BY <1>1, <1>2, Zenon

\* How far a Close of another resource has got is not changed by a step on r.
LEMMA ClosingByKept ==
  ASSUME NEW d \in Calls, call'[d] = call[d], ClosingBy(d), WorkingOn(d),
         NEW r, OnlyTouches(r), call[d].at \in Holding => call[d].r # r,
         forwards' \subseteq Ids
  PROVE  ClosingBy(d)'
<1>1. CASE call[d].at \in {"close.check", "close.destroy", "close.retire"}
  <2>1. call[d].r # r /\ call[d].r \in Ids
    BY <1>1, Zenon DEF WorkingOn, Holding, CloseAt
  <2> QED
    BY <1>1, <2>1 DEF ClosingBy, OnlyTouches, ProcessesOf
<1>2. CASE call[d].at \notin {"close.check", "close.destroy", "close.retire"}
  BY <1>2, Zenon DEF ClosingBy
<1> QED
  BY <1>1, <1>2, Zenon

\* Every other task finds its slot as it left it after a step on resource r,
\* which none of them holds.
LEMMA HeldKept ==
  ASSUME Working, Held, NEW c \in Calls, NEW pl, NEW q, NEW p,
         Moved(c, pl, q, p), HeldBy(c)', NEW r, OnlyTouches(r),
         \A d \in Calls \ {c} : call[d].at \in Holding => call[d].r # r
  PROVE  Held'
<1> SUFFICES ASSUME NEW d \in Calls \ {c} PROVE HeldBy(d)'
  BY Zenon DEF Held
<1> QED
  BY HeldByKept, Zenon DEF Held, Working, Moved

\* Every other Close keeps its progress through a step on resource r, which it
\* does not hold.
LEMMA ClosingKept ==
  ASSUME Working, Closing, NEW c \in Calls, NEW pl, NEW q, NEW p,
         Moved(c, pl, q, p), ClosingBy(c)', NEW r, OnlyTouches(r),
         forwards' \subseteq Ids,
         \A d \in Calls \ {c} : call[d].at \in Holding => call[d].r # r
  PROVE  Closing'
<1> SUFFICES ASSUME NEW d \in Calls \ {c} PROVE ClosingBy(d)'
  BY Zenon DEF Closing
<1> QED
  BY ClosingByKept, Zenon DEF Closing, Working, Moved

\* A step that starts no new startup keeps one startup for each process id.
LEMMA OneStartupKept ==
  ASSUME OneStartup, NEW c \in Calls, NEW pl, NEW r, NEW p, Moved(c, pl, r, p),
         pl \notin SpawnAt \/ (call[c].at \in SpawnAt /\ call[c].p = p)
  PROVE  OneStartup'
BY DEF OneStartup, Moved

\* The Shutdown loops of the other tasks survive a step that registers nothing
\* once the module is shutting down.
LEMMA SweepingKept ==
  ASSUME TypeOK, Sweeping, NEW c \in Calls, NEW pl, NEW r, NEW p,
         Moved(c, pl, r, p), SweepingBy(c)', UNCHANGED <<shutdown, down>>,
         \A d \in Calls \ {c} : sweep'[d] = sweep[d],
         reservations' \subseteq reservations,
         ~shutdown \/ entries' \subseteq entries,
         \A i \in Ids : pending[i] = "no" => pending'[i] = "no"
  PROVE  Sweeping'
<1> SUFFICES ASSUME NEW d \in Calls \ {c} PROVE SweepingBy(d)'
  BY Zenon DEF Sweeping
<1> QED
  BY Zenon DEF Sweeping, SweepingBy, Moved

\* A task outside Close and Shutdown has no Shutdown loop.
LEMMA NotSweeping ==
  ASSUME Sweeping, NEW c \in Calls, NEW pl, NEW r, NEW p,
         Moved(c, pl, r, p), UNCHANGED sweep,
         call[c].at \notin CloseAt \cup DownAt, pl \notin DownAt
  PROVE  SweepingBy(c)'
BY Zenon DEF Sweeping, SweepingBy, Moved

\* Dropping reservations keeps every id minted once.
LEMMA MintedKept ==
  ASSUME Minted, UNCHANGED <<next, kind, of>>, reservations' \subseteq reservations
  PROVE  Minted'
BY Zenon DEF Minted

\* A step that changes no slot and nothing outside keeps what the slots own.
LEMMA SlotsKept ==
  ASSUME Slots, NEW c \in Calls, NEW pl, NEW r, NEW p, Moved(c, pl, r, p),
         call[c].at # "forward.publish",
         UNCHANGED <<of, entries, owned, world>>, closing \subseteq closing',
         reservations' \subseteq reservations
  PROVE  Slots'
<1>1. UNCHANGED <<slot, backend, destroyed, processes, forwards, boxes, alive, commands, tunnels>>
  BY Zenon DEF owned, box, world
<1>2. \A f \in tunnels \ forwards :
       \E d \in Calls : call'[d].at = "forward.publish" /\ call'[d].p = f
  BY DEF Slots, Moved
<1> QED
  BY <1>1, <1>2, Zenon DEF Slots, Supervised

StartPlaces == {"spawn.start", "spawn.stop", "forward.open", "forward.publish"}

\* What must hold of a handle when its client is told that it is cancelled.
Over(c, i) ==
  /\ kind[i] \in {"Process", "Forward"}
  /\ i \notin reservations' \cup tunnels' \cup forwards'
  /\ pending'[i] # "live"
  /\ i \in alive' => ~Supervised(i)
  /\ \A d \in Calls \ {c} : call[d].at \in StartPlaces => call[d].p # i

\* A step that acknowledges a Cancel or CloseForward keeps every acknowledgement
\* true if the handle it names is over.
LEMMA AcknowledgedTold ==
  ASSUME TypeOK, Acknowledged, NEW c \in Calls, NEW pl, NEW r, NEW p,
         Moved(c, pl, r, p), pl \notin StartPlaces,
         UNCHANGED <<kind, of, backend, closed>>,
         \A i \in cancelled' \ cancelled : Over(c, i),
         entries' \subseteq entries, reservations' \subseteq reservations,
         alive' \subseteq alive, tunnels' \subseteq tunnels,
         forwards' \subseteq forwards,
         \A i \in Ids : pending'[i] = "live" => pending[i] = "live"
  PROVE  Acknowledged'
<1> SUFFICES ASSUME NEW i \in cancelled', NEW d \in Calls,
                    call'[d].at \in StartPlaces
             PROVE  call'[d].p # i
  BY DEF Acknowledged, Supervised, TypeOK, StartPlaces, Over
<1> QED
  BY DEF Acknowledged, Moved, StartPlaces, Over

\* A step that starts nothing keeps every acknowledgement true.
LEMMA AcknowledgedKept ==
  ASSUME TypeOK, Acknowledged, NEW c \in Calls, NEW pl, NEW r, NEW p,
         Moved(c, pl, r, p),
         pl \in StartPlaces => call[c].at \in StartPlaces /\ call[c].p = p,
         UNCHANGED <<kind, of, backend, cancelled, closed>>,
         entries' \subseteq entries, reservations' \subseteq reservations,
         alive' \subseteq alive, tunnels' \subseteq tunnels,
         forwards' \subseteq forwards,
         \A i \in Ids : pending'[i] = "live" => pending[i] = "live"
  PROVE  Acknowledged'
<1> SUFFICES ASSUME NEW i \in cancelled, NEW d \in Calls,
                    call'[d].at \in StartPlaces
             PROVE  call'[d].p # i
  BY DEF Acknowledged, Supervised, TypeOK, StartPlaces
<1> QED
  BY DEF Acknowledged, Moved, StartPlaces

\* Task c holds the slot mutex of r, or finds it free.
Owns(c, r) == guard[r] = Free \/ (call[c].at \in Holding /\ call[c].r = r)

\* What a step of task c that is not a Reserve or a Shutdown does at most to
\* the state under the `state` and `executions` locks.
Settled(c) ==
  /\ UNCHANGED <<next, shutdown, down>>
  /\ \A d \in Calls \ {c} : sweep'[d] = sweep[d]
  /\ reservations' \subseteq reservations
  /\ ~shutdown \/ entries' \subseteq entries
  /\ \A i \in Ids : \/ pending'[i] = pending[i]
                    \/ pending[i] # "no" /\ pending'[i] = "cancelled"
  /\ \A i \in entries' \ closing' :
       i \in entries \ closing \/ i \in reservations
  /\ call'[c].at \in SpawnAt =>
       call[c].at \in SpawnAt /\ call[c].p = call'[c].p

\* A step of task c that changes no resource but r, which no other task holds,
\* preserves the invariant if it preserves what is said of c and of the whole.
LEMMA FrameStep ==
  ASSUME IndInv, NEW c \in Calls, NEW pl, NEW q, NEW p, Moved(c, pl, q, p),
         NEW r, OnlyTouches(r),
         \A d \in Calls \ {c} : call[d].at \in Holding => call[d].r # r,
         Settled(c),
         TypeOK', Kinded', Mutex', Slots', Acknowledged',
         WorkingOn(c)', HeldBy(c)', ClosingBy(c)', SweepingBy(c)'
  PROVE  IndInv'
<1>1. UNCHANGED <<kind, of>>
  BY Zenon DEF OnlyTouches
<1>2. Minted' /\ Working'
  BY <1>1, MintedKept, WorkingKept, Zenon DEF IndInv, Settled
<1>5. OneStartup'
  BY OneStartupKept, Zenon DEF IndInv, Settled, Moved
<1>3. Held' /\ Closing'
  BY HeldKept, ClosingKept, Zenon DEF IndInv, TypeOK
<1>4. Sweeping'
  BY SweepingKept, Zenon DEF IndInv, Settled
<1> QED
  BY <1>2, <1>3, <1>4, <1>5, Zenon DEF IndInv

\* The resource is the one whose slot mutex c holds, or takes.
LEMMA TaskStep ==
  ASSUME IndInv, NEW c \in Calls, NEW pl, NEW q, NEW p, Moved(c, pl, q, p),
         NEW r \in Ids, OnlyTouches(r),
         Owns(c, r), Settled(c),
         TypeOK', Kinded', Mutex', Slots', Acknowledged',
         WorkingOn(c)', HeldBy(c)', ClosingBy(c)', SweepingBy(c)'
  PROVE  IndInv'
<1>1. \A d \in Calls \ {c} : call[d].at \in Holding => call[d].r # r
  BY MutexOnly, Zenon DEF IndInv, Owns
<1> QED
  BY <1>1, FrameStep, Zenon

\* The step touches no resource.
LEMMA FreeStep ==
  ASSUME IndInv, NEW c \in Calls, NEW pl, NEW q, NEW p, Moved(c, pl, q, p),
         OnlyTouches(0),
         Settled(c),
         TypeOK', Kinded', Mutex', Slots', Acknowledged',
         WorkingOn(c)', HeldBy(c)', ClosingBy(c)', SweepingBy(c)'
  PROVE  IndInv'
<1>1. \A d \in Calls \ {c} : call[d].at \in Holding => call[d].r # 0
  BY DEF IndInv, Working, WorkingOn, Holding, CreateAt, SpawnAt, ExecAt,
     CancelAt, ForwardAt, CloseAt, Ids
<1> QED
  BY <1>1, FrameStep, Zenon

\* A step of task c that changes only where it is and who holds a slot mutex.
LEMMA QuietStep ==
  ASSUME IndInv, NEW c \in Calls, NEW pl, NEW q, NEW p, Moved(c, pl, q, p),
         UNCHANGED <<registry, owned, world, told>>,
         guard' \in [Ids -> Calls \cup {Free}], sweep' \in [Calls -> SweepType],
         \A d \in Calls \ {c} : sweep'[d] = sweep[d],
         pl \notin SpawnAt \/ (call[c].at \in SpawnAt /\ call[c].p = p),
         pl \in StartPlaces => call[c].at \in StartPlaces /\ call[c].p = p,
         call[c].at # "forward.publish",
         Mutex', WorkingOn(c)', HeldBy(c)', ClosingBy(c)', SweepingBy(c)'
  PROVE  IndInv'
<1>1. UNCHANGED <<next, kind, of, shutdown, reservations, entries, pending,
                  closing, native, slot, backend, destroyed, processes,
                  forwards, boxes, alive, commands, tunnels, closed,
                  cancelled, down>>
  BY Zenon DEF registry, ids, fence, owned, box, world, told
<1>2. TypeOK' /\ Kinded'
  BY <1>1, Zenon DEF IndInv, TypeOK, Kinded, Moved
<1>3. Slots' /\ Acknowledged'
  BY <1>1, SlotsKept, AcknowledgedKept, Zenon DEF IndInv
<1>4. Minted' /\ Working' /\ OneStartup' /\ Sweeping'
  BY <1>1, MintedKept, WorkingKept, OneStartupKept, SweepingKept, Zenon DEF
     IndInv
<1>5. OnlyTouches(0)
  BY <1>1, Zenon DEF OnlyTouches
<1>6. \A d \in Calls \ {c} : call[d].at \in Holding => call[d].r # 0
  BY DEF IndInv, Working, WorkingOn, Holding, CreateAt, SpawnAt, ExecAt,
     CancelAt, ForwardAt, CloseAt, Ids
<1>7. Held' /\ Closing'
  BY <1>1, <1>5, <1>6, HeldKept, ClosingKept, Zenon DEF IndInv, TypeOK
<1> QED
  BY <1>2, <1>3, <1>4, <1>7, Zenon DEF IndInv

\* A task that works on no resource owes nothing to one.
LEMMA AtRest ==
  ASSUME NEW c \in Calls, NEW pl \in {"idle", "spawn.notify"} \cup DownAt,
         NEW r, NEW p, Moved(c, pl, r, p)
  PROVE  WorkingOn(c)' /\ HeldBy(c)' /\ ClosingBy(c)'
BY Zenon DEF Moved, WorkingOn, HeldBy, ClosingBy, CreateAt, SpawnAt, ExecAt,
   CancelAt, ForwardAt, CloseAt, DownAt

\* A step that only drops reservations, running processes and commands preserves
\* IndInv.
LEMMA LessHolds ==
  ASSUME IndInv, reservations' \subseteq reservations, alive' \subseteq alive,
         commands' \subseteq commands,
         UNCHANGED <<next, kind, of, shutdown, entries, pending, closing, native,
                     guard, slot, backend, destroyed, processes, forwards, boxes,
                     tunnels, call, sweep, closed, cancelled, down>>
  PROVE  IndInv'
<1>1. TypeOK'
  BY Zenon DEF IndInv, TypeOK
<1>2. Minted' /\ Mutex'
  BY MintedKept DEF IndInv, Mutex
<1>3. Kinded'
  BY Zenon DEF IndInv, Kinded
<1>4. Working' /\ OneStartup'
  BY Zenon DEF IndInv, Working, WorkingOn, OneStartup
<1>5. Held'
  BY Zenon DEF IndInv, Held, HeldBy, TrackedOf, ProcessesOf, ForwardsOf
<1>6. Closing'
  BY Zenon DEF IndInv, Closing, ClosingBy, TrackedOf, ProcessesOf
<1>7. Slots'
  BY Zenon DEF IndInv, Slots, Supervised
<1>8. Acknowledged'
  BY Zenon DEF IndInv, Acknowledged, Supervised
<1>9. Sweeping'
  BY Zenon DEF IndInv, Sweeping, SweepingBy
<1> QED
  BY <1>1, <1>2, <1>3, <1>4, <1>5, <1>6, <1>7, <1>8, <1>9, Zenon DEF IndInv

----------------------------------------------------------------------------
\* Facts about the holders of a slot, and about Close and Shutdown.


\* The handles clients hold are ids the registry has minted.
LEMMA HandleIds ==
  ASSUME IndInv, NEW i \in 1 .. next
  PROVE  i \in Ids /\ i \in 0 .. MaxId /\ kind[i] # "none"
BY BoundsAssumption DEF IndInv, TypeOK, Minted, Ids

\* Nothing starts a handle of a resource that is gone, or that c alone can use.
LEMMA NoStarter ==
  ASSUME IndInv, NEW c \in Calls, NEW r \in Ids, NEW i \in Ids, of[i] = r,
         \/ r \notin slot
         \/ guard[r] = Free
         \/ call[c].at \in Holding /\ call[c].r = r
  PROVE  \A d \in Calls \ {c} : call[d].at \in StartPlaces => call[d].p # i
<1> SUFFICES ASSUME NEW d \in Calls \ {c}, call[d].at \in StartPlaces,
                    call[d].p = i
             PROVE  FALSE
  BY Zenon
<1>1. call[d].r \in slot /\ call[d].r = r /\ call[d].at \in Holding
  BY Zenon DEF StartPlaces, IndInv, Working, WorkingOn, Held, HeldBy,
     ForwardsOf, Holding, CreateAt, SpawnAt, ExecAt, CancelAt, ForwardAt,
     CloseAt, DownAt
<1> QED
  BY <1>1, MutexOnly, Zenon DEF IndInv

\* A task that holds a slot mutex works on a resource.
LEMMA HoldersWork ==
  ASSUME IndInv
  PROVE  \A d \in Calls : call[d].at \in Holding => call[d].r # 0
BY DEF IndInv, Working, WorkingOn, Holding, Ids, CreateAt, SpawnAt, ExecAt,
   CancelAt, ForwardAt, CloseAt, DownAt

\* A Close on its way, its resource still registered or just taken off.
LEMMA StillClosing ==
  ASSUME IndInv, NEW c \in Calls, NEW pl \in CloseAt, NEW p,
         Moved(c, pl, call[c].r, p), call[c].at \in CloseAt,
         UNCHANGED <<sweep, shutdown>>, entries' \subseteq entries
  PROVE  SweepingBy(c)'
BY Zenon DEF IndInv, Sweeping, SweepingBy, Moved, CloseAt, DownAt

\* A Close that returns, to its client or to the Shutdown loop.
LEMMA CloseReturned ==
  ASSUME IndInv, NEW c \in Calls, call[c].at \in CloseAt, NEW ok \in BOOLEAN,
         CloseReturn(c, ok), UNCHANGED <<entries, shutdown>>,
         ok => call[c].r \notin entries
  PROVE  /\ \E pl \in {"idle", "down.next"} : Moved(c, pl, 0, 0)
         /\ sweep' \in [Calls -> SweepType]
         /\ \A d \in Calls \ {c} : sweep'[d] = sweep[d]
         /\ SweepingBy(c)'
<1> DEFINE x == IF sweep[c].active THEN [Idle EXCEPT !.at = "down.next"] ELSE Idle
           pl == IF sweep[c].active THEN "down.next" ELSE "idle"
           fl == sweep[c].failed \/ (sweep[c].active /\ ~ok)
<1>1. x \in CallType /\ x.at = pl /\ x.r = 0 /\ x.p = 0
  <2>1. x = [at |-> pl, r |-> 0, p |-> 0, err |-> FALSE]
    BY Zenon DEF Idle
  <2>2. pl \in Places /\ 0 \in 0 .. MaxId
    BY BoundsAssumption DEF Places, CloseAt, DownAt
  <2> HIDE DEF x, pl
  <2> QED
    BY <2>1, <2>2, Zenon DEF CallType
<1>2. Moved(c, pl, 0, 0)
  <2> HIDE DEF x, pl
  <2>1. call' = [call EXCEPT ![c] = x]
    BY Zenon DEF CloseReturn, x
  <2> QED
    BY <1>1, <2>1, Zenon DEF Moved, IndInv, TypeOK
<1>3. sweep' = [sweep EXCEPT ![c] = [sweep[c] EXCEPT !.failed = fl]]
  BY Zenon DEF CloseReturn
<1>4. fl \in BOOLEAN /\ sweep[c] \in SweepType
  BY Zenon DEF IndInv, TypeOK, SweepType
<1>5. /\ sweep' \in [Calls -> SweepType]
      /\ \A d \in Calls \ {c} : sweep'[d] = sweep[d]
      /\ sweep'[c].active = sweep[c].active /\ sweep'[c].todo = sweep[c].todo
      /\ sweep'[c].failed = fl
  <2> HIDE DEF fl
  <2> QED
    BY <1>3, <1>4 DEF IndInv, TypeOK, SweepType
<1>6. SweepingBy(c)'
  BY <1>2, <1>5, Zenon DEF IndInv, Sweeping, SweepingBy, Moved, CloseAt, DownAt
<1> QED
  BY <1>2, <1>5, <1>6, Zenon

\* A step of the Shutdown loop that changes only the loop's own state.
LEMMA LoopStep ==
  ASSUME IndInv, NEW c \in Calls, NEW pl \in DownAt,
         Moved(c, pl, call[c].r, call[c].p), call[c].at \in DownAt,
         sweep' \in [Calls -> SweepType],
         \A d \in Calls \ {c} : sweep'[d] = sweep[d], SweepingBy(c)',
         UNCHANGED <<registry, guard, owned, world, told>>
  PROVE  IndInv'
<1>1. Mutex'
  BY MutexStay, Zenon DEF IndInv, Holding, CreateAt, CloseAt, DownAt
<1>2. WorkingOn(c)' /\ HeldBy(c)' /\ ClosingBy(c)'
  BY AtRest, Zenon
<1> QED
  BY <1>1, <1>2, QuietStep, Zenon DEF IndInv, TypeOK, StartPlaces, CreateAt,
     SpawnAt, CloseAt, DownAt

=============================================================================
