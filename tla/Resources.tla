----------------------------- MODULE Resources -----------------------------
(***************************************************************************)
(* The resource registry of the tinybox module: Reserve, Create, Spawn,    *)
(* IsRunning, Exec, Cancel, Forward, CloseForward, Close and Shutdown      *)
(* (crates/tinybox-module/src/tinybus_module/resources.rs).                *)
(*                                                                         *)
(* Every long operation is a task of its own.  It takes the `state` and    *)
(* `executions` locks for one synchronous section at a time (one action    *)
(* here) and holds the resource's slot mutex, `guard`, across the backend  *)
(* calls it awaits; what other tasks do between two sections is what this  *)
(* module is about.                                                        *)
(***************************************************************************)
EXTENDS Integers, FiniteSets

CONSTANTS
  Calls,              \* tasks running at the same time
  Free,               \* the owner of an unlocked slot mutex
  Ops,                \* the bus methods the clients call
  Backends,           \* the backends Create is asked for
  MaxId,              \* reservations minted (`next` is a u64, checked_add)
  MaxReservations,    \* MAX_RESERVATIONS
  MaxActive,          \* MAX_ACTIVE_RESOURCES
  MaxProcesses,       \* MAX_PROCESSES_PER_RESOURCE
  MaxForwards         \* MAX_FORWARDS_PER_RESOURCE

\* "local" and "remote" are passthrough on this machine and over SSH.
AllBackends == {"local", "remote", "docker", "openshell"}

ASSUME CallsAssumption == Free \notin Calls
ASSUME BackendsAssumption == Backends \subseteq AllBackends
ASSUME BoundsAssumption ==
  /\ MaxId \in Nat \ {0}
  /\ MaxReservations \in Nat
  /\ MaxActive \in Nat
  /\ MaxProcesses \in Nat
  /\ MaxForwards \in Nat

Ids == 1 .. MaxId
Kinds == {"Resource", "Process", "Forward"}

VARIABLES
  \* State, under the `state` lock.  An id keeps its kind and target for ever.
  next,           \* the last id minted
  shutdown,
  reservations,   \* the ids still reserved
  kind, of,       \* what each id was reserved for
  entries,        \* the resources whose slot is published
  pending,        \* pending_processes: "no", "live" or "cancelled"
  \* Executions, under the `executions` lock
  closing,
  native,         \* the collected Exec task: "none", "running" or "aborted"
  \* the slots
  guard,          \* the task holding the slot mutex
  slot,           \* the resources whose slot is Some
  backend,
  destroyed,      \* sandbox_destroyed
  processes,      \* OwnedProcess: "absent", "owned" or "stopped"
  forwards,       \* the forwards owned by a slot
  \* what exists outside the module
  boxes,          \* resources whose sandbox may exist
  alive,          \* detached processes that may be running
  commands,       \* resources whose collected Exec child may be running
  tunnels,        \* forwards that accept connections
  \* the tasks
  call,           \* where each task is, and what it works on
  sweep,          \* the Shutdown loop of a task
  \* what the clients were told
  closed,         \* Close returned Ok
  cancelled,      \* Cancel or CloseForward returned Ok
  down            \* Shutdown returned Ok

ids == <<next, kind, of, shutdown>>
fence == <<closing, native>>
registry == <<ids, reservations, entries, pending, fence>>
box == <<slot, backend, destroyed>>
owned == <<box, processes, forwards>>
world == <<boxes, alive, commands, tunnels>>
told == <<closed, cancelled, down>>
vars == <<registry, guard, owned, world, call, sweep, told>>

----------------------------------------------------------------------------
\* The places where a task of each operation waits between two sections.

CreateAt == {"create.check", "create.backend", "create.ports", "create.fail"}
SpawnAt  == {"spawn.slot", "spawn.lock", "spawn.start", "spawn.stop",
             "spawn.done"}
ExecAt   == {"exec.lock", "exec.await", "exec.remove"}
CancelAt == {"cancel.slot", "cancel.lock", "cancel.stop"}
ForwardAt == {"forward.lock", "forward.ports", "forward.open",
              "forward.publish", "unforward.lock"}
CloseAt  == {"close.lock", "close.stop", "close.check", "close.destroy",
             "close.retire", "close.unlist", "close.reopen"}
DownAt   == {"down.next", "down.enable", "down.check", "down.sleep"}
Places   == {"idle", "spawn.notify"} \cup CreateAt \cup SpawnAt \cup ExecAt
              \cup CancelAt \cup ForwardAt \cup CloseAt \cup DownAt

\* A task here holds the slot mutex of the resource it works on.
Holding == CreateAt
             \cup {"spawn.start", "spawn.stop", "exec.await", "exec.remove",
                   "cancel.stop", "forward.ports", "forward.open",
                   "forward.publish"}
             \cup (CloseAt \ {"close.lock"})

Idle == [at |-> "idle", r |-> 0, p |-> 0, err |-> FALSE]
NoSweep == [active |-> FALSE, todo |-> {}, failed |-> FALSE, woken |-> FALSE]

Goto(c, place) == call' = [call EXCEPT ![c].at = place]
Return(c) == call' = [call EXCEPT ![c] = Idle]
Begin(c, place, r, p) ==
  call' = [call EXCEPT ![c] = [at |-> place, r |-> r, p |-> p, err |-> FALSE]]
Lock(c, r) == guard' = [guard EXCEPT ![r] = c]
Unlock(r) == guard' = [guard EXCEPT ![r] = Free]

ProcessesOf(r) == {p \in Ids : kind[p] = "Process" /\ of[p] = r}
ForwardsOf(r) == {f \in Ids : kind[f] = "Forward" /\ of[f] = r}

Init ==
  /\ next = 0 /\ shutdown = FALSE /\ reservations = {}
  /\ kind = [i \in Ids |-> "none"] /\ of = [i \in Ids |-> 0]
  /\ entries = {} /\ pending = [i \in Ids |-> "no"]
  /\ closing = {} /\ native = [i \in Ids |-> "none"]
  /\ guard = [i \in Ids |-> Free] /\ slot = {}
  /\ backend = [i \in Ids |-> "none"] /\ destroyed = {}
  /\ processes = [i \in Ids |-> "absent"] /\ forwards = {}
  /\ boxes = {} /\ alive = {} /\ commands = {} /\ tunnels = {}
  /\ call = [c \in Calls |-> Idle] /\ sweep = [c \in Calls |-> NoSweep]
  /\ closed = {} /\ cancelled = {} /\ down = FALSE

----------------------------------------------------------------------------
\* Reservations

\* Admission of a new reservation, once the stale ones are dropped.
MayReserve(k, r, kept) ==
  /\ Cardinality(kept) < MaxReservations
  /\ k = "Resource" \/ (r \in entries /\ r \notin closing)
  /\ next < MaxId

\* `stale` is what the clock, a SystemTime that may be stepped, calls expired.
Reserve(k, r) ==
  /\ ~shutdown
  /\ \E stale \in SUBSET reservations :
       LET kept == reservations \ stale IN
       IF MayReserve(k, r, kept)
       THEN /\ next' = next + 1
            /\ reservations' = kept \cup {next + 1}
            /\ kind' = [kind EXCEPT ![next + 1] = k]
            /\ of' = [of EXCEPT ![next + 1] = r]
       ELSE reservations' = kept /\ UNCHANGED <<next, kind, of>>
  /\ UNCHANGED <<shutdown, entries, pending, fence, guard, owned, world, call,
                 sweep, told>>

\* check_reservation, except for the age of the reservation
Reserved(i, k, r) == ~shutdown /\ i \in reservations /\ kind[i] = k /\ of[i] = r

\* check_resource_open
Open(r) == ~shutdown /\ r \notin closing

----------------------------------------------------------------------------
\* Create: the task owns the slot mutex before it publishes the slot.

\* Mutant: the slot is published before its mutex is taken.
CreateUnlocked(c, r, b) ==
  /\ call[c].at = "idle"
  /\ Reserved(r, "Resource", 0)
  /\ Cardinality(entries) < MaxActive
  /\ reservations' = reservations \ {r}
  /\ entries' = entries \cup {r}
  /\ backend' = [backend EXCEPT ![r] = b]
  /\ Begin(c, "create.check", r, 0)
  /\ UNCHANGED <<ids, pending, fence, guard, slot, destroyed, processes,
                 forwards, world, sweep, told>>

Create(c, r, b) ==
  /\ call[c].at = "idle"
  /\ Reserved(r, "Resource", 0)
  /\ reservations' = reservations \ {r}
  /\ \/ \* expired, unavailable on this platform, or too many resources: the
        \* reservation is gone all the same
        UNCHANGED <<entries, guard, backend, call>>
     \/ /\ Cardinality(entries) < MaxActive
        /\ entries' = entries \cup {r}
        /\ Lock(c, r)
        /\ backend' = [backend EXCEPT ![r] = b]
        /\ Begin(c, "create.check", r, 0)
  /\ UNCHANGED <<ids, pending, fence, slot, destroyed, processes, forwards,
                 world, sweep, told>>

\* The storage, the provider and the spec can each refuse as well.
CreateCheck(c) ==
  LET r == call[c].r IN
  /\ call[c].at = "create.check"
  /\ \/ Goto(c, "create.fail")
     \/ r \notin closing /\ Goto(c, "create.backend")
  /\ UNCHANGED <<registry, guard, owned, world, sweep, told>>

CreateBackend(c) ==
  LET r == call[c].r IN
  /\ call[c].at = "create.backend"
  /\ \/ /\ boxes' = boxes \cup {r}
        /\ slot' = slot \cup {r}
        /\ Goto(c, "create.ports")
        /\ UNCHANGED guard
     \/ \* nothing was allocated and no record is left
        Goto(c, "create.fail") /\ UNCHANGED <<boxes, slot, guard>>
     \/ \* a provider that could not roll back left its record behind
        /\ backend[r] \in {"docker", "openshell"}
        /\ boxes' \in {boxes, boxes \cup {r}}
        /\ slot' = slot \cup {r}
        /\ Unlock(r) /\ Return(c)
  /\ UNCHANGED <<registry, backend, destroyed, processes, forwards, alive,
                 commands, tunnels, sweep, told>>

\* Ports that cannot be read, or a shutdown, fail Create but keep the slot.
CreatePorts(c) ==
  /\ call[c].at = "create.ports"
  /\ Unlock(call[c].r) /\ Return(c)
  /\ UNCHANGED <<registry, owned, world, sweep, told>>

CreateFail(c) ==
  /\ call[c].at = "create.fail"
  /\ entries' = entries \ {call[c].r}
  /\ Unlock(call[c].r) /\ Return(c)
  /\ UNCHANGED <<ids, reservations, pending, fence, owned, world, sweep,
                 told>>

----------------------------------------------------------------------------
\* What stopping one process can come to.  A local process whose command
\* failed is cleaned up and reports that failure once; passthrough reads no
\* exit status, so over SSH a stop that never ran reports success.

StopOutcomes(b) ==
  {"stopped", "kept"}
    \cup (IF b = "local" THEN {"failedCommand"} ELSE {})
    \cup (IF b = "remote" THEN {"unreached"} ELSE {})
Kills(o) == o \in {"stopped", "failedCommand"}
\* Mutant: a stop that failed counts as done.
StopOkAlways(o) == TRUE
StopOk(o) == o \in {"stopped", "unreached"}

\* Cancel, IsRunning and a cancelled startup: stop, then forget it if that
\* succeeded.
StopAndForget(p, o) ==
  /\ o \in StopOutcomes(backend[of[p]])
  /\ alive' = IF Kills(o) THEN alive \ {p} ELSE alive
  /\ processes' = [processes EXCEPT ![p] =
                     IF StopOk(o) THEN "absent"
                     ELSE IF Kills(o) THEN "stopped" ELSE @]

----------------------------------------------------------------------------
\* Spawn

PendingOf(r) == {p \in ProcessesOf(r) : pending[p] # "no"}
TrackedOf(r) == {p \in ProcessesOf(r) : processes[p] # "absent"}

Spawn(c, p, r) ==
  /\ call[c].at = "idle"
  /\ Reserved(p, "Process", r)
  /\ reservations' = reservations \ {p}
  /\ \/ UNCHANGED <<pending, call>>         \* expired, or too many queued
     \/ /\ Cardinality(PendingOf(r)) < MaxProcesses
        /\ pending' = [pending EXCEPT ![p] = "live"]
        /\ Begin(c, "spawn.slot", r, p)
  /\ UNCHANGED <<ids, entries, fence, guard, owned, world, sweep, told>>

SpawnSlot(c) ==
  /\ call[c].at = "spawn.slot"
  /\ Goto(c, IF call[c].r \in entries THEN "spawn.lock" ELSE "spawn.done")
  /\ UNCHANGED <<registry, guard, owned, world, sweep, told>>

\* Mutant: a queued startup that does not look whether it was cancelled.
MaySpawnCancelled(r, p) ==
  /\ r \in slot /\ r \notin closing
  /\ Cardinality(TrackedOf(r)) < MaxProcesses
  /\ backend[r] # "openshell"

MaySpawn(r, p) ==
  /\ r \in slot
  /\ r \notin closing
  /\ Cardinality(TrackedOf(r)) < MaxProcesses
  /\ pending[p] # "cancelled"
  /\ backend[r] # "openshell"

\* A local child is spawned and recorded in one synchronous section, a Docker
\* process is recorded before its start is sent, an SSH one after.
SpawnLock(c) ==
  LET r == call[c].r  p == call[c].p IN
  /\ call[c].at = "spawn.lock"
  /\ guard[r] = Free
  /\ \/ /\ ~MaySpawn(r, p) \/ backend[r] = "local"
        /\ Goto(c, "spawn.done")
        /\ UNCHANGED <<guard, processes, alive>>
     \/ /\ MaySpawn(r, p) /\ backend[r] = "local"
        /\ alive' = alive \cup {p}
        /\ processes' = [processes EXCEPT ![p] = "owned"]
        /\ Goto(c, "spawn.done")
        /\ UNCHANGED guard
     \/ /\ MaySpawn(r, p) /\ backend[r] # "local"
        /\ processes' = IF backend[r] = "docker"
                        THEN [processes EXCEPT ![p] = "owned"] ELSE processes
        /\ Lock(c, r) /\ Goto(c, "spawn.start")
        /\ UNCHANGED alive
  /\ UNCHANGED <<registry, box, forwards, boxes, commands, tunnels, sweep,
                 told>>

\* The reply to the start; one that is lost may have started the process.
SpawnStart(c) ==
  LET r == call[c].r  p == call[c].p IN
  /\ call[c].at = "spawn.start"
  /\ \E ok \in BOOLEAN :
       /\ alive' \in {alive \cup {p}} \cup (IF ok THEN {} ELSE {alive})
       /\ IF backend[r] = "docker" /\ (~ok \/ pending[p] = "cancelled")
          THEN Goto(c, "spawn.stop") /\ UNCHANGED <<guard, processes>>
          ELSE /\ Unlock(r) /\ Goto(c, "spawn.done")
               /\ processes' = IF ok THEN [processes EXCEPT ![p] = "owned"]
                               ELSE processes
  /\ UNCHANGED <<registry, box, forwards, boxes, commands, tunnels, sweep,
                 told>>

SpawnStop(c) ==
  /\ call[c].at = "spawn.stop"
  /\ \E o \in {"stopped", "kept"} : StopAndForget(call[c].p, o)
  /\ Unlock(call[c].r) /\ Goto(c, "spawn.done")
  /\ UNCHANGED <<registry, box, forwards, boxes, commands, tunnels, sweep,
                 told>>

\* Mutant: the startup ends without telling the Shutdown that waits for it.
SpawnDoneSilent(c) ==
  /\ call[c].at = "spawn.done"
  /\ pending' = [pending EXCEPT ![call[c].p] = "no"]
  /\ Return(c)
  /\ UNCHANGED <<ids, reservations, entries, fence, guard, owned, world,
                 sweep, told>>

SpawnDone(c) ==
  /\ call[c].at = "spawn.done"
  /\ pending' = [pending EXCEPT ![call[c].p] = "no"]
  /\ Begin(c, "spawn.notify", 0, 0)
  /\ UNCHANGED <<ids, reservations, entries, fence, guard, owned, world,
                 sweep, told>>

\* finished.notify_waiters: it wakes the waiters already enabled, no others.
SpawnNotify(c) ==
  /\ call[c].at = "spawn.notify"
  /\ sweep' = [d \in Calls |->
                 [sweep[d] EXCEPT !.woken =
                    @ \/ call[d].at \in {"down.check", "down.sleep"}]]
  /\ Return(c)
  /\ UNCHANGED <<registry, guard, owned, world, told>>

\* IsRunning of a process that has ended stops it, to reap it, and forgets it.
\* The whole call holds the slot mutex; only an exit can happen meanwhile.
IsRunning(p) ==
  LET r == of[p] IN
  /\ kind[p] = "Process" /\ r \in entries
  /\ guard[r] = Free /\ r \in slot /\ processes[p] # "absent"
  /\ p \notin alive \/ backend[r] # "local"   \* no answer reads as "gone"
  /\ \E o \in StopOutcomes(backend[r]) : StopAndForget(p, o)
  /\ UNCHANGED <<registry, guard, box, forwards, boxes, commands, tunnels,
                 call, sweep, told>>

----------------------------------------------------------------------------
\* Exec

Exec(c, r) ==
  /\ call[c].at = "idle"
  /\ r \in entries
  /\ Begin(c, "exec.lock", r, 0)
  /\ UNCHANGED <<registry, guard, owned, world, sweep, told>>

\* `closing` is read and the abort handle published under one lock.
ExecLock(c) ==
  LET r == call[c].r IN
  /\ call[c].at = "exec.lock"
  /\ guard[r] = Free
  /\ IF r \in slot /\ r \notin closing
     THEN /\ native' = [native EXCEPT ![r] = "running"]
          /\ commands' = commands \cup {r}
          /\ Lock(c, r) /\ Goto(c, "exec.await")
     ELSE Return(c) /\ UNCHANGED <<native, commands, guard>>
  /\ UNCHANGED <<ids, reservations, entries, pending, closing, owned, boxes,
                 alive, tunnels, sweep, told>>

\* The command ends, its child reaped or retained by the collector.
ExecEnd(c) ==
  LET r == call[c].r IN
  /\ call[c].at = "exec.await"
  /\ commands' \in {commands, commands \ {r}}
  /\ Goto(c, "exec.remove")
  /\ UNCHANGED <<registry, guard, owned, boxes, alive, tunnels, sweep, told>>

\* The abort drops the command; its child is left to the collector.
ExecAborted(c) ==
  /\ call[c].at = "exec.await"
  /\ native[call[c].r] = "aborted"
  /\ Goto(c, "exec.remove")
  /\ UNCHANGED <<registry, guard, owned, world, sweep, told>>

ExecRemove(c) ==
  LET r == call[c].r IN
  /\ call[c].at = "exec.remove"
  /\ native' = [native EXCEPT ![r] = "none"]
  /\ Unlock(r) /\ Return(c)
  /\ UNCHANGED <<ids, reservations, entries, pending, closing, owned, world,
                 sweep, told>>

----------------------------------------------------------------------------
\* Cancel

Cancel(c, p, r) ==
  /\ call[c].at = "idle"
  /\ p \in reservations => kind[p] = "Process" /\ of[p] = r
  /\ pending[p] # "no" => of[p] = r
  /\ reservations' = reservations \ {p}
  /\ pending' = [pending EXCEPT ![p] = IF @ = "no" THEN "no" ELSE "cancelled"]
  /\ Begin(c, "cancel.slot", r, p)
  /\ UNCHANGED <<ids, entries, fence, guard, owned, world, sweep, told>>

\* The client is told that its own handle, of kind k, is cancelled; any other
\* handle is acknowledged without effect.
Acknowledge(i, k, r) ==
  cancelled' = IF kind[i] = k /\ of[i] = r THEN cancelled \cup {i}
               ELSE cancelled

CancelSlot(c) ==
  /\ call[c].at = "cancel.slot"
  /\ IF call[c].r \in entries
     THEN Goto(c, "cancel.lock") /\ UNCHANGED cancelled
     ELSE Return(c) /\ Acknowledge(call[c].p, "Process", call[c].r)
  /\ UNCHANGED <<registry, guard, owned, world, sweep, closed, down>>

CancelLock(c) ==
  LET r == call[c].r  p == call[c].p IN
  /\ call[c].at = "cancel.lock"
  /\ guard[r] = Free
  /\ IF r \in slot /\ p \in TrackedOf(r)
     THEN Lock(c, r) /\ Goto(c, "cancel.stop") /\ UNCHANGED cancelled
     ELSE Return(c) /\ Acknowledge(p, "Process", r) /\ UNCHANGED guard
  /\ UNCHANGED <<registry, owned, world, sweep, closed, down>>

CancelStop(c) ==
  /\ call[c].at = "cancel.stop"
  /\ \E o \in StopOutcomes(backend[call[c].r]) :
       /\ StopAndForget(call[c].p, o)
       /\ IF StopOk(o) THEN Acknowledge(call[c].p, "Process", call[c].r)
          ELSE UNCHANGED cancelled
  /\ Unlock(call[c].r) /\ Return(c)
  /\ UNCHANGED <<registry, box, forwards, boxes, commands, tunnels, sweep,
                 closed, down>>

----------------------------------------------------------------------------
\* Forward and CloseForward

Forward(c, f, r) ==
  /\ call[c].at = "idle"
  /\ r \in entries
  /\ Begin(c, "forward.lock", r, f)
  /\ UNCHANGED <<registry, guard, owned, world, sweep, told>>

\* The resource accepts the forward and its reservation stands, its age aside.
MayForward(r, f) == Open(r) /\ Reserved(f, "Forward", r)

\* A forward already open is replayed, which changes nothing.
ForwardLock(c) ==
  LET r == call[c].r  f == call[c].p IN
  /\ call[c].at = "forward.lock"
  /\ guard[r] = Free
  /\ \/ /\ r \in slot /\ f \notin forwards /\ MayForward(r, f)
        /\ Cardinality(forwards \cap ForwardsOf(r)) < MaxForwards
        /\ Lock(c, r) /\ Goto(c, "forward.ports")
        /\ UNCHANGED reservations
     \/ \* refused, or replayed; an expired reservation is dropped
        /\ Return(c)
        /\ reservations' \in {reservations}
             \cup (IF r \in slot /\ f \notin forwards /\ MayForward(r, f)
                   THEN {reservations \ {f}} ELSE {})
        /\ UNCHANGED guard
  /\ UNCHANGED <<ids, entries, pending, fence, owned, world, sweep, told>>

\* published_ports has answered, with the port or without; then the reservation
\* is checked again.
ForwardPorts(c) ==
  LET r == call[c].r  f == call[c].p IN
  /\ call[c].at = "forward.ports"
  /\ \/ /\ Unlock(r) /\ Return(c)
        /\ reservations' \in {reservations}
             \cup (IF MayForward(r, f) THEN {reservations \ {f}} ELSE {})
     \/ /\ MayForward(r, f)
        /\ Goto(c, "forward.open")
        /\ UNCHANGED <<guard, reservations>>
  /\ UNCHANGED <<ids, entries, pending, fence, owned, world, sweep, told>>

ForwardOpen(c) ==
  LET r == call[c].r  f == call[c].p IN
  /\ call[c].at = "forward.open"
  /\ \/ Unlock(r) /\ Return(c) /\ UNCHANGED tunnels
     \/ /\ tunnels' = tunnels \cup {f}
        /\ Goto(c, "forward.publish")
        /\ UNCHANGED guard
  /\ UNCHANGED <<registry, owned, boxes, alive, commands, sweep, told>>

\* Mutant: a tunnel that may not be published is left open.
ForwardPublishLeaky(c) ==
  LET r == call[c].r  f == call[c].p IN
  /\ call[c].at = "forward.publish"
  /\ reservations' = reservations \ {f}
  /\ forwards' = IF MayForward(r, f) THEN forwards \cup {f} ELSE forwards
  /\ Unlock(r) /\ Return(c)
  /\ UNCHANGED <<ids, entries, pending, fence, box, processes, world, sweep,
                 told>>

\* Publish under the state and executions locks, or drop the tunnel.
ForwardPublish(c) ==
  LET r == call[c].r  f == call[c].p IN
  /\ call[c].at = "forward.publish"
  /\ reservations' = IF MayForward(r, f) THEN reservations \ {f}
                     ELSE reservations
  /\ \/ /\ MayForward(r, f)
        /\ forwards' = forwards \cup {f}
        /\ UNCHANGED tunnels
     \/ \* closed meanwhile, or the reservation is gone or has expired
        tunnels' = tunnels \ {f} /\ UNCHANGED forwards
  /\ Unlock(r) /\ Return(c)
  /\ UNCHANGED <<ids, entries, pending, fence, box, processes, boxes, alive,
                 commands, sweep, told>>

CloseForward(c, f, r) ==
  /\ call[c].at = "idle"
  /\ f \in reservations => kind[f] = "Forward" /\ of[f] = r
  /\ reservations' = reservations \ {f}
  /\ IF r \in entries
     THEN Begin(c, "unforward.lock", r, f) /\ UNCHANGED cancelled
     ELSE Acknowledge(f, "Forward", r) /\ UNCHANGED call
  /\ UNCHANGED <<ids, entries, pending, fence, guard, owned, world, sweep,
                 closed, down>>

UnforwardLock(c) ==
  LET r == call[c].r  f == call[c].p IN
  /\ call[c].at = "unforward.lock"
  /\ guard[r] = Free
  /\ IF r \in slot /\ f \in ForwardsOf(r)
     THEN forwards' = forwards \ {f} /\ tunnels' = tunnels \ {f}
     ELSE UNCHANGED <<forwards, tunnels>>
  /\ Return(c) /\ Acknowledge(f, "Forward", r)
  /\ UNCHANGED <<registry, guard, box, processes, boxes, alive, commands,
                 sweep, closed, down>>

----------------------------------------------------------------------------
\* Close

\* Close returns to its client, or to the Shutdown loop that called it.
CloseReturn(c, ok) ==
  /\ call' = [call EXCEPT ![c] =
                IF sweep[c].active THEN [Idle EXCEPT !.at = "down.next"]
                ELSE Idle]
  /\ sweep' = [sweep EXCEPT ![c].failed = @ \/ (sweep[c].active /\ ~ok)]

\* Mutant: the collected Exec is not aborted.
BeginCloseGentle(c, r) ==
  /\ reservations' = {i \in reservations \ {r} : of[i] # r}
  /\ closing' = closing \cup {r}
  /\ Begin(c, "close.lock", r, 0)
  /\ UNCHANGED native

\* begin_close of a registered resource drops the reservations made for it,
\* fences it and aborts its collected Exec.
BeginClose(c, r) ==
  /\ reservations' = {i \in reservations \ {r} : of[i] # r}
  /\ closing' = closing \cup {r}
  /\ native' = [native EXCEPT ![r] = IF @ = "running" THEN "aborted" ELSE @]
  /\ Begin(c, "close.lock", r, 0)

Close(c, r) ==
  /\ call[c].at = "idle"
  /\ r \in reservations => kind[r] = "Resource"
  /\ IF r \in entries
     THEN BeginClose(c, r) /\ UNCHANGED closed
     ELSE /\ reservations' = reservations \ {r}
          /\ closed' = IF kind[r] = "Resource" THEN closed \cup {r} ELSE closed
          /\ UNCHANGED <<closing, native, call>>
  /\ UNCHANGED <<ids, entries, pending, guard, owned, world, sweep, cancelled,
                 down>>

CloseLock(c) ==
  LET r == call[c].r IN
  /\ call[c].at = "close.lock"
  /\ guard[r] = Free
  /\ Lock(c, r)
  /\ Goto(c, IF r \in slot THEN "close.stop" ELSE "close.retire")
  /\ UNCHANGED <<registry, owned, world, sweep, told>>

\* Forwards are dropped, every process is stopped (one of a destroyed sandbox
\* is gone already) and the collector is drained; failures are remembered.
CloseStop(c) ==
  LET r == call[c].r
      gone == r \in destroyed /\ backend[r] # "local"
  IN
  /\ call[c].at = "close.stop"
  /\ forwards' = forwards \ ForwardsOf(r)
  /\ tunnels' = tunnels \ ForwardsOf(r)
  /\ \E o \in [TrackedOf(r) -> StopOutcomes(backend[r])] :
       /\ processes' = [p \in Ids |->
            IF p \in TrackedOf(r) /\ (gone \/ StopOk(o[p]) \/ Kills(o[p]))
            THEN "stopped" ELSE processes[p]]
       /\ alive' = alive \ {p \in TrackedOf(r) : ~gone /\ Kills(o[p])}
       /\ \E drained \in IF r \in commands THEN BOOLEAN ELSE {TRUE} :
            /\ commands' = IF drained THEN commands \ {r} ELSE commands
            /\ call' = [call EXCEPT ![c] =
                 [at |-> IF backend[r] = "docker" THEN "close.destroy"
                         ELSE "close.check",
                  r |-> r, p |-> 0,
                  err |-> \/ ~drained
                          \/ \E p \in TrackedOf(r) : ~gone /\ ~StopOk(o[p])]]
  /\ UNCHANGED <<registry, guard, box, boxes, sweep, told>>

\* Sandbox::destroy.  A container takes its processes with it; a failed destroy
\* may have removed it all the same.  Docker is destroyed before the check.
CloseDestroy(c) ==
  LET r == call[c].r
      inBox == IF backend[r] = "docker" THEN ProcessesOf(r) ELSE {}
      done == IF backend[r] = "docker" THEN "close.check" ELSE "close.retire"
  IN
  /\ call[c].at = "close.destroy"
  /\ \/ /\ boxes' = boxes \ {r}
        /\ alive' = alive \ inBox
        /\ destroyed' = destroyed \cup {r}
        /\ processes' = [p \in Ids |-> IF p \in inBox \cap TrackedOf(r)
                                       THEN "stopped" ELSE processes[p]]
        /\ Goto(c, done)
        /\ UNCHANGED <<guard, sweep>>
     \/ /\ r \notin destroyed
        /\ \/ UNCHANGED <<boxes, alive>>
           \/ boxes' = boxes \ {r} /\ alive' = alive \ inBox
        /\ Unlock(r) /\ CloseReturn(c, FALSE)
        /\ UNCHANGED <<destroyed, processes>>
  /\ UNCHANGED <<registry, slot, backend, forwards, commands, tunnels, told>>

\* Mutant: a collector that could not be drained does not stop the Close.
CloseCheckUndrained(c) ==
  LET r == call[c].r IN
  /\ call[c].at = "close.check"
  /\ processes' = [p \in Ids |-> IF p \in ProcessesOf(r)
                                     /\ processes[p] = "stopped"
                                 THEN "absent" ELSE processes[p]]
  /\ IF \E p \in ProcessesOf(r) : processes[p] = "owned"
     THEN Unlock(r) /\ CloseReturn(c, FALSE)
     ELSE /\ Goto(c, IF r \in destroyed THEN "close.retire"
                     ELSE "close.destroy")
          /\ UNCHANGED <<guard, sweep>>
  /\ UNCHANGED <<registry, box, forwards, world, told>>

\* Whatever could not be cleaned up keeps the resource registered and fenced.
CloseCheck(c) ==
  LET r == call[c].r IN
  /\ call[c].at = "close.check"
  /\ processes' = [p \in Ids |-> IF p \in ProcessesOf(r)
                                     /\ processes[p] = "stopped"
                                 THEN "absent" ELSE processes[p]]
  /\ IF r \in commands \/ \E p \in ProcessesOf(r) : processes[p] = "owned"
     THEN Unlock(r) /\ CloseReturn(c, FALSE)
     ELSE /\ Goto(c, IF r \in destroyed THEN "close.retire"
                     ELSE "close.destroy")
          /\ UNCHANGED <<guard, sweep>>
  /\ UNCHANGED <<registry, box, forwards, world, told>>

CloseRetire(c) ==
  /\ call[c].at = "close.retire"
  /\ slot' = slot \ {call[c].r}
  /\ Goto(c, "close.unlist")
  /\ UNCHANGED <<registry, guard, backend, destroyed, processes, forwards,
                 world, sweep, told>>

CloseUnlist(c) ==
  /\ call[c].at = "close.unlist"
  /\ entries' = entries \ {call[c].r}
  /\ Goto(c, "close.reopen")
  /\ UNCHANGED <<ids, reservations, pending, fence, guard, owned, world,
                 sweep, told>>

CloseReopen(c) ==
  LET r == call[c].r IN
  /\ call[c].at = "close.reopen"
  /\ closing' = closing \ {r}
  /\ native' = [native EXCEPT ![r] = "none"]
  /\ closed' = IF call[c].err THEN closed ELSE closed \cup {r}
  /\ Unlock(r) /\ CloseReturn(c, ~call[c].err)
  /\ UNCHANGED <<ids, reservations, entries, pending, owned, world, cancelled,
                 down>>

----------------------------------------------------------------------------
\* Shutdown

Shutdown(c) ==
  /\ call[c].at = "idle"
  /\ shutdown' = TRUE
  /\ reservations' = {}
  /\ pending' = [p \in Ids |-> IF pending[p] = "no" THEN "no" ELSE "cancelled"]
  /\ closing' = closing \cup entries
  /\ native' = [r \in Ids |-> IF native[r] = "running" THEN "aborted"
                              ELSE native[r]]
  /\ sweep' = [sweep EXCEPT ![c] = [active |-> TRUE, todo |-> entries,
                                    failed |-> FALSE, woken |-> FALSE]]
  /\ Begin(c, "down.next", 0, 0)
  /\ UNCHANGED <<next, kind, of, entries, guard, owned, world, told>>

ShutdownNext(c) ==
  /\ call[c].at = "down.next"
  /\ \/ /\ sweep[c].todo = {}
        /\ Goto(c, "down.enable")
        /\ UNCHANGED <<reservations, closing, native, sweep>>
     \/ \E r \in sweep[c].todo :
          /\ sweep' = [sweep EXCEPT ![c].todo = @ \ {r}]
          /\ IF r \in entries
             THEN BeginClose(c, r)
             ELSE UNCHANGED <<reservations, closing, native, call>>
  /\ UNCHANGED <<ids, entries, pending, guard, owned, world, told>>

\* Register with `finished` before looking, or a notification could be missed.
ShutdownEnable(c) ==
  /\ call[c].at = "down.enable"
  /\ sweep' = [sweep EXCEPT ![c].woken = FALSE]
  /\ Goto(c, "down.check")
  /\ UNCHANGED <<registry, guard, owned, world, told>>

\* Mutant: queued startups are not waited for.
ShutdownCheckHasty(c) ==
  /\ call[c].at = "down.check"
  /\ Return(c)
  /\ sweep' = [sweep EXCEPT ![c] = NoSweep]
  /\ down' = (down \/ ~sweep[c].failed)
  /\ UNCHANGED <<registry, guard, owned, world, closed, cancelled>>

ShutdownCheck(c) ==
  /\ call[c].at = "down.check"
  /\ IF \A p \in Ids : pending[p] = "no"
     THEN /\ Return(c)
          /\ sweep' = [sweep EXCEPT ![c] = NoSweep]
          /\ down' = (down \/ ~sweep[c].failed)
     ELSE Goto(c, "down.sleep") /\ UNCHANGED <<sweep, down>>
  /\ UNCHANGED <<registry, guard, owned, world, closed, cancelled>>

ShutdownSleep(c) ==
  /\ call[c].at = "down.sleep"
  /\ sweep[c].woken
  /\ Goto(c, "down.enable")
  /\ UNCHANGED <<registry, guard, owned, world, sweep, told>>

----------------------------------------------------------------------------
\* What happens outside the module

\* A process ends by itself.
Exit(p) ==
  /\ p \in alive
  /\ alive' = alive \ {p}
  /\ UNCHANGED <<registry, guard, owned, boxes, commands, tunnels, call,
                 sweep, told>>

\* The collector's supervisor reaps the child of an aborted Exec.
Reap(r) ==
  /\ r \in commands /\ native[r] # "running"
  /\ commands' = commands \ {r}
  /\ UNCHANGED <<registry, guard, owned, boxes, alive, tunnels, call, sweep,
                 told>>

----------------------------------------------------------------------------

\* The methods clients call, with the handles they were given.
Start(c) ==
  \/ "Shutdown" \in Ops /\ Shutdown(c)
  \/ \E r \in 1 .. next :
       \/ \E b \in Backends : Create(c, r, b)
       \/ "Exec" \in Ops /\ Exec(c, r)
       \/ "Close" \in Ops /\ Close(c, r)
       \/ \E p \in 1 .. next :
            \/ "Spawn" \in Ops /\ Spawn(c, p, r)
            \/ "Cancel" \in Ops /\ Cancel(c, p, r)
            \/ "Forward" \in Ops /\ Forward(c, p, r)
            \/ "CloseForward" \in Ops /\ CloseForward(c, p, r)

\* A task takes the slot mutex it is waiting for.
Acquire(c) ==
  \/ SpawnLock(c) \/ ExecLock(c) \/ CancelLock(c) \/ ForwardLock(c)
  \/ UnforwardLock(c) \/ CloseLock(c)

\* A task goes on with its next section, or hears from its backend.
Proceed(c) ==
  \/ CreateCheck(c) \/ CreateBackend(c) \/ CreatePorts(c) \/ CreateFail(c)
  \/ SpawnSlot(c) \/ SpawnStart(c) \/ SpawnStop(c) \/ SpawnDone(c)
  \/ SpawnNotify(c)
  \/ ExecAborted(c) \/ ExecRemove(c)
  \/ CancelSlot(c) \/ CancelStop(c)
  \/ ForwardPorts(c) \/ ForwardOpen(c) \/ ForwardPublish(c)
  \/ CloseStop(c) \/ CloseDestroy(c) \/ CloseCheck(c) \/ CloseRetire(c)
  \/ CloseUnlist(c) \/ CloseReopen(c)
  \/ ShutdownNext(c) \/ ShutdownEnable(c) \/ ShutdownCheck(c)
  \/ ShutdownSleep(c)

Next ==
  \/ Reserve("Resource", 0)
  \/ \E r \in 1 .. next : \/ "Spawn" \in Ops /\ Reserve("Process", r)
                          \/ "Forward" \in Ops /\ Reserve("Forward", r)
  \/ \E c \in Calls : Start(c) \/ Acquire(c) \/ Proceed(c) \/ ExecEnd(c)
  \/ \E i \in 1 .. next : \/ "IsRunning" \in Ops /\ IsRunning(i)
                          \/ Exit(i)
                          \/ Reap(i)

Spec == Init /\ [][Next]_vars

\* tokio polls every ready task, each backend call ends one way or another, and
\* its Mutex is FIFO.  Nothing makes a command end (ExecEnd).
Fairness == \A c \in Calls : WF_vars(Proceed(c)) /\ SF_vars(Acquire(c))
FairSpec == Spec /\ Fairness

----------------------------------------------------------------------------
\* Properties

CallType == [at : Places, r : 0 .. MaxId, p : 0 .. MaxId, err : BOOLEAN]
SweepType == [active : BOOLEAN, todo : SUBSET Ids, failed : BOOLEAN,
              woken : BOOLEAN]

\* The types of the registry's state (State, Executions, Resource).
TypeOK ==
  /\ next \in 0 .. MaxId
  /\ shutdown \in BOOLEAN
  /\ reservations \subseteq Ids /\ entries \subseteq Ids
  /\ kind \in [Ids -> Kinds \cup {"none"}] /\ of \in [Ids -> 0 .. MaxId]
  /\ pending \in [Ids -> {"no", "live", "cancelled"}]
  /\ closing \subseteq Ids
  /\ native \in [Ids -> {"none", "running", "aborted"}]
  /\ guard \in [Ids -> Calls \cup {Free}]
  /\ slot \subseteq Ids /\ destroyed \subseteq Ids
  /\ backend \in [Ids -> AllBackends \cup {"none"}]
  /\ processes \in [Ids -> {"absent", "owned", "stopped"}]
  /\ forwards \subseteq Ids
  /\ boxes \subseteq Ids /\ alive \subseteq Ids
  /\ commands \subseteq Ids /\ tunnels \subseteq Ids
  /\ call \in [Calls -> CallType] /\ sweep \in [Calls -> SweepType]
  /\ closed \subseteq Ids /\ cancelled \subseteq Ids /\ down \in BOOLEAN

\* Passthrough over SSH learns neither that a start nor that a stop got there.
Supervised(p) == backend[of[p]] # "remote"

\* Whatever exists outside the module, a sandbox, a process, a collected child
\* or a tunnel, is recorded in a slot that a Close or Shutdown can still reach,
\* whichever step of a failing, cancelled or racing operation it came from.
NothingUnowned ==
  /\ slot \subseteq entries
  /\ boxes \subseteq slot
  /\ commands \subseteq slot
  /\ \A p \in alive : Supervised(p) => processes[p] = "owned" /\ of[p] \in slot
  /\ \A f \in tunnels :
       /\ of[f] \in slot
       /\ \/ f \in forwards
          \/ \E c \in Calls : call[c].at = "forward.publish" /\ call[c].p = f

\* Once Close has returned Ok for a resource, nothing of it is left and nothing
\* of it ever comes back: no late Create, queued Spawn, Exec or Forward holding
\* the old slot or an old reservation can revive it.
CloseIsFinal ==
  \A r \in closed :
    /\ r \notin entries \cup boxes \cup commands \cup reservations
    /\ \A p \in alive : of[p] = r => ~Supervised(p)
    /\ \A f \in tunnels : of[f] # r

\* Once Cancel or CloseForward has returned Ok for a handle, its process or
\* tunnel is gone and never starts, even when the startup was queued or already
\* under way.
CancelIsFinal ==
  \A i \in cancelled : i \notin tunnels /\ (i \in alive => ~Supervised(i))

\* Once Shutdown has returned Ok the module owns nothing, no startup is queued
\* and none can be.
ShutdownIsFinal ==
  down => /\ shutdown
          /\ entries = {} /\ reservations = {}
          /\ boxes = {} /\ commands = {} /\ tunnels = {}
          /\ \A p \in alive : ~Supervised(p)
          /\ \A p \in Ids : pending[p] = "no"

\* A process that a Close has recorded as stopped is not running: cleanup
\* errors keep it for a retry (module README).
StoppedIsDead == \A p \in alive : processes[p] # "stopped"

\* Close and Shutdown end whatever the commands do: the collected Exec they
\* abort, the startups they wait for and the notification they sleep on.
CloseReturns ==
  \A c \in Calls : call[c].at \in CloseAt ~> call[c].at \in {"idle", "down.next"}
ShutdownReturns == \A c \in Calls : sweep[c].active ~> ~sweep[c].active

=============================================================================
