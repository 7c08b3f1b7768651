----------------------------- MODULE NativeHost -----------------------------
(***************************************************************************)
(* The two local hosts that collect native commands for the module         *)
(* (crates/tinybox-host/src/limited): LimitedLocalHost, with its detached   *)
(* ManagedProcess, and JailLocalHost, whose child comes from a jail         *)
(* backend.  Each run has a supervisor task that owns the child; what is    *)
(* hard is the cleanup: a dropped caller, a cancelled observer, a kill or   *)
(* reap that fails and is retained, a panic, and drains that retry.         *)
(*                                                                          *)
(* `leader` and `kids` are the command's process group.                     *)
(***************************************************************************)
EXTENDS Integers, FiniteSets

CONSTANTS
  Hosts,        \* which of the two hosts: a subset of {"limited", "jailed"}
  Collected,    \* commands run by collect_command
  Managed,      \* commands started by LimitedLocalHost::spawn
  Tasks,        \* callers of drain_checked, retry_observed_cleanup and stop
  Nobody        \* not a managed command

ASSUME HostsAssumption == Hosts \subseteq {"limited", "jailed"}
ASSUME RunsAssumption ==
  Collected \cap Managed = {} /\ Nobody \notin Managed /\ IsFiniteSet(Collected \cup Managed)

Runs == Collected \cup Managed

VARIABLES
  host,        \* the host at work
  sup,         \* where the supervisor of a run is
  handle,      \* who holds the child: its supervisor or the retained ones
  leader,      \* the command itself
  kids,        \* runs with live descendants in the process group
  broker,      \* jailed runs without a local process group of their own
  result,      \* what the collection came to
  caller,      \* the future awaiting the run, and its cancellation
  active,      \* State::active
  task,        \* per task: the cleanup call it is in
  told,        \* drains for which `finished` changed since they last looked
  joined,      \* ManagedProcess::task is None
  failed,      \* ManagedProcess::cleanup_failed
  lost         \* ManagedProcess::supervisor_failed

vars == <<host, sup, handle, leader, kids, broker, result, caller, active,
          task, told, joined, failed, lost>>
process == <<host, broker>>
calls == <<task, told>>
managed == <<joined, failed, lost>>

\* found: what a drain found unfinished when it was called.
Idle == [at |-> "idle", todo |-> {}, bad |-> FALSE, of |-> Nobody, found |-> {}]

Live(x) == leader[x] = "up" \/ x \in kids
Busy == {x \in Runs : sup[x] \notin {"idle", "done"}}
\* State::cleanup_failures; State::failed and State::unidentified.
Retained == {x \in Runs : handle[x] = "kept"}

Init ==
  /\ host \in Hosts
  /\ sup = [x \in Runs |-> "idle"]
  /\ handle = [x \in Runs |-> "none"]
  /\ leader = [x \in Runs |-> "none"]
  /\ kids = {} /\ broker = {}
  /\ result = [x \in Runs |-> "none"]
  /\ caller = [x \in Runs |-> "none"]
  /\ active = 0
  /\ task = [t \in Tasks |-> Idle] /\ told = {}
  /\ joined = {} /\ failed = {} /\ lost = {}

-----------------------------------------------------------------------------
(* The operating system.  A command without a local group is the business  *)
(* of its backend, descendants included.                                   *)

Fork(x) ==
  /\ leader[x] = "up" /\ x \notin broker
  /\ kids' = kids \cup {x}
  /\ UNCHANGED <<process, sup, handle, leader, result, caller, active, calls, managed>>

LeaderExit(x) ==
  /\ leader[x] = "up"
  /\ leader' = [leader EXCEPT ![x] = "zombie"]
  /\ UNCHANGED <<process, sup, handle, kids, result, caller, active, calls, managed>>

KidsExit(x) ==
  /\ x \in kids
  /\ kids' = kids \ {x}
  /\ UNCHANGED <<process, sup, handle, leader, result, caller, active, calls, managed>>

\* SIGKILL takes the whole group.
Killed(x) ==
  /\ leader' = [leader EXCEPT ![x] = IF @ = "up" THEN "zombie" ELSE @]
  /\ kids' = kids \ {x}

-----------------------------------------------------------------------------
(* A run and its supervisor. *)

Started(x) ==
  /\ host = "limited" /\ sup[x] = "idle"
  /\ sup' = [sup EXCEPT ![x] = "collect"]
  /\ handle' = [handle EXCEPT ![x] = "task"]
  /\ leader' = [leader EXCEPT ![x] = "up"]
  /\ caller' = [caller EXCEPT ![x] = "await"]
  /\ active' = active + 1
  /\ UNCHANGED <<process, kids, result, calls, managed>>

\* collect_command and spawn of LimitedLocalHost: the child first, then the
\* supervisor that owns it.
Start(x) == x \in Collected /\ Started(x)
Spawn(x) == x \in Managed /\ Started(x)

\* collect_command of JailLocalHost: the supervisor first.
Admit(x) ==
  /\ host = "jailed" /\ x \in Collected /\ sup[x] = "idle"
  /\ sup' = [sup EXCEPT ![x] = "admitted"]
  /\ caller' = [caller EXCEPT ![x] = "await"]
  /\ active' = active + 1
  /\ UNCHANGED <<process, handle, leader, kids, result, calls, managed>>

\* identify_owned_group: a local group, none, or an id that cannot be used, and
\* then the child is stopped.
Identify(x) ==
  \/ /\ sup' = [sup EXCEPT ![x] = "collect"]
     /\ broker' \in {broker, broker \cup {x}}
     /\ UNCHANGED result
  \/ /\ sup' = [sup EXCEPT ![x] = "cleanup"]
     /\ broker' = broker \cup {x}
     /\ result' = [result EXCEPT ![x] = "error"]

\* The supervisor starts the jailed child unless its caller is gone already.
JailStart(x) ==
  /\ sup[x] = "admitted"
  /\ \/ /\ \/ caller[x] = "dropped"
           \/ caller[x] # "dropped"              \* the backend cannot spawn it
        /\ sup' = [sup EXCEPT ![x] = "leave"]
        /\ result' = [result EXCEPT ![x] = "error"]
        /\ UNCHANGED <<handle, leader, broker>>
     \/ /\ caller[x] # "dropped"
        /\ handle' = [handle EXCEPT ![x] = "task"]
        /\ leader' = [leader EXCEPT ![x] = "up"]
        /\ Identify(x)
  /\ UNCHANGED <<host, kids, caller, active, calls, managed>>

\* wait_native, wait_child: the command's own exit, not its descendants'.
Wait(x) ==
  /\ sup[x] = "collect" /\ leader[x] = "zombie"
  /\ leader' = [leader EXCEPT ![x] = "reaped"]
  /\ UNCHANGED <<process, sup, handle, kids, result, caller, active, calls, managed>>

\* collect_until_exit: the command exited and its pipes ended or were held for
\* OUTPUT_DRAIN_GRACE; or reading or writing failed, or ran over the limit.
Outcome(x) ==
  \/ leader[x] = "reaped" /\ result' = [result EXCEPT ![x] = "exit"]
  \/ result' = [result EXCEPT ![x] = "error"]

\* The select of a supervisor ends with the collection, or because the observer
\* was cancelled or the caller's future dropped.  A cancelled managed command
\* is a success.
Collect(x) ==
  /\ host = "limited" /\ sup[x] = "collect"
  /\ \/ Outcome(x)
     \/ /\ caller[x] \in {"cancelled", "dropped"}
        /\ result' = [result EXCEPT ![x] = IF x \in Managed THEN "exit" ELSE "error"]
  /\ sup' = [sup EXCEPT ![x] = "cleanup"]
  /\ UNCHANGED <<process, handle, leader, kids, caller, active, calls, managed>>

\* JailLocalHost, which may also miss a pipe.
JailCollect(x) ==
  /\ host = "jailed" /\ sup[x] = "collect"
  /\ \/ Outcome(x)
     \/ result' = [result EXCEPT ![x] = "error"]
  /\ sup' = [sup EXCEPT ![x] = "cleanup"]
  /\ UNCHANGED <<process, handle, leader, kids, caller, active, calls, managed>>

\* What terminate waits for: the child reaped and no member left in its group,
\* if it has one.
Terminated(x) == leader[x] \in {"zombie", "reaped"} /\ x \notin kids
JailTerminated(x) ==
  leader[x] \in {"zombie", "reaped"} /\ (x \in broker \/ x \notin kids)
Clean(x) == IF host = "limited" THEN Terminated(x) ELSE JailTerminated(x)

\* terminate signals a group that may still have a member.
Kill(x) ==
  /\ sup[x] = "cleanup" /\ Live(x)
  /\ Killed(x)
  /\ UNCHANGED <<process, sup, handle, result, caller, active, calls, managed>>

\* retain_cleanup: the child and its group are kept for a retry.
Retain(x) ==
  /\ handle' = [handle EXCEPT ![x] = "kept"]
  /\ result' = [result EXCEPT ![x] = "error"]
  /\ failed' = failed \cup ({x} \cap Managed)

\* terminate has reaped the child and seen the group gone, or it failed (an
\* error, the five second deadline) and the child is retained.
Cleanup(x) ==
  /\ sup[x] = "cleanup"
  /\ \/ /\ Clean(x)
        /\ leader' = [leader EXCEPT ![x] = "reaped"]
        /\ handle' = [handle EXCEPT ![x] = "released"]
        /\ UNCHANGED <<result, failed>>
     \/ Retain(x) /\ UNCHANGED leader
  /\ sup' = [sup EXCEPT ![x] = "leave"]
  /\ UNCHANGED <<process, kids, caller, active, calls, joined, lost>>

KeptOnDrop(x) ==
  /\ sup[x] = "collect"
  /\ result' = [result EXCEPT ![x] = "panic"]
  /\ sup' = [sup EXCEPT ![x] = "leave"]
  /\ handle' = [handle EXCEPT ![x] = "kept"]
  /\ Killed(x) \/ UNCHANGED <<leader, kids>>
  /\ UNCHANGED <<process, caller, active, calls, managed>>

\* An observer panics inside a collection: RetainedOnDrop signals the group,
\* which may not be enough, and keeps the child.
Panic(x) == host = "limited" /\ x \in Collected /\ KeptOnDrop(x)
JailPanic(x) == host = "jailed" /\ KeptOnDrop(x)

\* A managed supervisor has no such guard: with it the child is dropped, which
\* signals the command alone.
PanicManaged(x) ==
  /\ x \in Managed /\ sup[x] = "collect"
  /\ result' = [result EXCEPT ![x] = "panic"]
  /\ sup' = [sup EXCEPT ![x] = "leave"]
  /\ handle' = [handle EXCEPT ![x] = "released"]
  /\ leader' = [leader EXCEPT ![x] = "reaped"]
  /\ UNCHANGED <<process, kids, caller, active, calls, managed>>

\* Mutant: the counter drops without the watch being told.
LeaveSilently(x) ==
  /\ sup[x] = "leave"
  /\ sup' = [sup EXCEPT ![x] = "done"]
  /\ active' = active - 1
  /\ UNCHANGED <<process, handle, leader, kids, result, caller, calls, managed>>

\* The supervisor ends: Active is dropped and `finished` changes.
Leave(x) ==
  /\ sup[x] = "leave"
  /\ sup' = [sup EXCEPT ![x] = "done"]
  /\ active' = active - 1
  /\ told' = told \cup {t \in Tasks : task[t].at \in {"wait", "sleep"}}
  /\ UNCHANGED <<process, handle, leader, kids, result, caller, task, managed>>

\* collect_command returns what its supervisor returned.
Return(x) ==
  /\ x \in Collected /\ sup[x] = "done" /\ caller[x] \in {"await", "cancelled"}
  /\ caller' = [caller EXCEPT ![x] = IF result[x] = "exit" THEN "ok" ELSE "none"]
  /\ UNCHANGED <<process, sup, handle, leader, kids, result, active, calls, managed>>

\* The observer is cancelled, or the caller's future dropped with its sender.
CancelCaller(x) ==
  /\ x \in Collected /\ caller[x] = "await"
  /\ caller' \in {[caller EXCEPT ![x] = how] : how \in {"cancelled", "dropped"}}
  /\ UNCHANGED <<process, sup, handle, leader, kids, result, active, calls, managed>>

-----------------------------------------------------------------------------
(* Cleanup calls.  cleanup_lock is held by the task that is retrying.       *)

At(t, at) == task[t].at = at
Retrying(t) == task[t].at \in {"groups", "last"}
Goto(t, at) == task' = [task EXCEPT ![t].at = at]
runs == <<host, broker, sup, handle, leader, kids, result, caller, active>>

\* drain_checked: subscribe to `finished`, then wait for active to reach 0.
Drain(t) ==
  /\ At(t, "idle")
  /\ task' = [task EXCEPT ![t] = [Idle EXCEPT !.at = "wait",
                                   !.found = Collected \cap (Busy \cup Retained)]]
  /\ UNCHANGED <<runs, told, managed>>

DrainCheck(t) ==
  /\ At(t, "wait")
  /\ \/ active = 0 /\ Goto(t, "lock") /\ told' = told \ {t}
     \/ active # 0 /\ Goto(t, "sleep") /\ UNCHANGED told
  /\ UNCHANGED <<runs, managed>>

\* finished.changed()
DrainWake(t) ==
  /\ At(t, "sleep") /\ t \in told
  /\ Goto(t, "wait") /\ told' = told \ {t}
  /\ UNCHANGED <<runs, managed>>

\* Host::retry_observed_cleanup goes straight to the retained children.
RetryObserved(t) ==
  /\ At(t, "idle")
  /\ task' = [task EXCEPT ![t] = [Idle EXCEPT !.at = "lock"]]
  /\ UNCHANGED <<runs, told, managed>>

\* retry_retained_cleanup takes cleanup_lock and the groups retained now; a
\* stop takes it for its own group.
Lock(t) ==
  /\ host = "limited" /\ At(t, "lock") /\ \A u \in Tasks : ~Retrying(u)
  /\ task' = [task EXCEPT ![t].at = "last",
       ![t].todo = IF task[t].of = Nobody THEN Retained ELSE {task[t].of}]
  /\ UNCHANGED <<runs, told, managed>>

\* JailLocalHost goes through the groups retained now, then through the children
\* without a group that are retained by then.
JailLock(t) ==
  /\ host = "jailed" /\ At(t, "lock") /\ \A u \in Tasks : ~Retrying(u)
  /\ task' = [task EXCEPT ![t].at = "groups", ![t].todo = Retained \ broker]
  /\ UNCHANGED <<runs, told, managed>>
JailUnidentified(t) ==
  /\ At(t, "groups") /\ task[t].todo = {}
  /\ task' = [task EXCEPT ![t].at = "last", ![t].todo = Retained \cap broker]
  /\ UNCHANGED <<runs, told, managed>>

\* retry_cleanup_locked signals the group again.
RetryKill(t) ==
  /\ Retrying(t)
  /\ \E x \in task[t].todo \cap Retained : Live(x) /\ Killed(x)
  /\ UNCHANGED <<process, sup, handle, result, caller, active, calls, managed>>

\* Mutant: the slot is emptied before the child is known to be reaped.
RetryOneEarly(t) ==
  /\ Retrying(t)
  /\ \E x \in task[t].todo :
       /\ handle' = [handle EXCEPT ![x] = IF @ = "kept" THEN "released" ELSE @]
       /\ task' = [task EXCEPT ![t].todo = @ \ {x}]
  /\ UNCHANGED <<process, sup, leader, kids, result, caller, active, told, managed>>

\* retry_cleanup_locked: nothing retained, reaped with the group gone, or still
\* retained.
RetryOne(t) ==
  /\ Retrying(t)
  /\ \E x \in task[t].todo :
       \/ /\ handle[x] # "kept"
          /\ task' = [task EXCEPT ![t].todo = @ \ {x}]
          /\ UNCHANGED <<handle, leader>>
       \/ /\ handle[x] = "kept" /\ Clean(x)
          /\ leader' = [leader EXCEPT ![x] = "reaped"]
          /\ handle' = [handle EXCEPT ![x] = "released"]
          /\ task' = [task EXCEPT ![t].todo = @ \ {x}]
       \/ /\ handle[x] = "kept"
          /\ task' = [task EXCEPT ![t].todo = @ \ {x}, ![t].bad = TRUE]
          /\ UNCHANGED <<handle, leader>>
  /\ UNCHANGED <<process, sup, kids, result, caller, active, told, managed>>

\* The call answers; a stop also records whether its group is clean.
RetryEnd(t) ==
  /\ At(t, "last") /\ task[t].todo = {}
  /\ task' = [task EXCEPT ![t] = [Idle EXCEPT !.at = IF task[t].bad THEN "err" ELSE "ok",
                                   !.of = task[t].of, !.found = task[t].found]]
  /\ failed' = IF ~task[t].bad THEN failed \ {task[t].of} ELSE failed
  /\ UNCHANGED <<runs, told, joined, lost>>

\* The caller has its answer; or it drops its future, and ownership stays in
\* the slot.
Answered(t) ==
  /\ ~At(t, "idle")
  /\ task' = [task EXCEPT ![t] = Idle] /\ told' = told \ {t}
  /\ UNCHANGED <<runs, managed>>

\* ManagedProcess::stop drops the cancellation sender and joins the supervisor;
\* once joined, a failed cleanup is retried.  `stop` takes &mut self.
Stop(t, m) ==
  /\ At(t, "idle") /\ sup[m] # "idle"
  /\ \A u \in Tasks : task[u].of # m
  /\ caller' = [caller EXCEPT ![m] = "dropped"]
  /\ \/ /\ m \notin joined
        /\ task' = [task EXCEPT ![t] = [Idle EXCEPT !.at = "join", !.of = m]]
     \/ /\ m \in (joined \cap failed) \ lost
        /\ task' = [task EXCEPT ![t] = [Idle EXCEPT !.at = "lock", !.of = m]]
  /\ UNCHANGED <<process, sup, handle, leader, kids, result, active, told, managed>>

\* Mutant: a panicked supervisor counts as joined and clean.
StopJoinTrusting(t) ==
  /\ At(t, "join") /\ sup[task[t].of] = "done"
  /\ joined' = joined \cup {task[t].of}
  /\ Goto(t, "ok")
  /\ UNCHANGED <<runs, told, failed, lost>>

\* The join: a supervisor that panicked can never prove its cleanup.
StopJoin(t) ==
  LET m == task[t].of IN
  /\ At(t, "join") /\ sup[m] = "done"
  /\ joined' = joined \cup {m}
  /\ IF result[m] = "panic"
       THEN failed' = failed \cup {m} /\ lost' = lost \cup {m}
       ELSE UNCHANGED <<failed, lost>>
  /\ Goto(t, IF m \in failed' THEN "err" ELSE "ok")
  /\ UNCHANGED <<runs, told>>

-----------------------------------------------------------------------------
System(x) == Fork(x) \/ LeaderExit(x) \/ KidsExit(x)
Supervise(x) ==
  \/ JailStart(x) \/ Wait(x) \/ Collect(x) \/ JailCollect(x) \/ Kill(x) \/ Cleanup(x)
  \/ Panic(x) \/ JailPanic(x) \/ PanicManaged(x) \/ Leave(x)
Client(x) == Start(x) \/ Spawn(x) \/ Admit(x) \/ Return(x) \/ CancelCaller(x)
CleanupCall(t) ==
  \/ Drain(t) \/ DrainCheck(t) \/ DrainWake(t) \/ RetryObserved(t) \/ Lock(t)
  \/ JailLock(t) \/ JailUnidentified(t)
  \/ RetryKill(t) \/ RetryOne(t) \/ RetryEnd(t) \/ Answered(t)
  \/ StopJoin(t) \/ \E m \in Managed : Stop(t, m)

Next ==
  \/ \E x \in Runs : System(x) \/ Supervise(x) \/ Client(x)
  \/ \E t \in Tasks : CleanupCall(t)

Spec == Init /\ [][Next]_vars

\* The runtime schedules supervisors and cleanup calls; a command ends or its
\* caller cancels it only as they please, so a collection ends only then.
CollectEnds(x) ==
  /\ leader[x] = "reaped" \/ caller[x] \in {"cancelled", "dropped"}
  /\ Collect(x) \/ JailCollect(x)
FairSpec ==
  /\ Spec
  /\ \A x \in Runs :
       /\ WF_vars(JailStart(x)) /\ WF_vars(Wait(x)) /\ WF_vars(CollectEnds(x))
       /\ WF_vars(Cleanup(x)) /\ WF_vars(Leave(x))
  /\ \A t \in Tasks :
       /\ WF_vars(DrainCheck(t)) /\ WF_vars(DrainWake(t)) /\ SF_vars(Lock(t) \/ JailLock(t))
       /\ WF_vars(JailUnidentified(t))
       /\ WF_vars(RetryOne(t)) /\ WF_vars(RetryEnd(t)) /\ WF_vars(StopJoin(t))

-----------------------------------------------------------------------------
(* Properties. *)

TypeOK ==
  /\ host \in Hosts
  /\ sup \in [Runs -> {"idle", "admitted", "collect", "cleanup", "leave", "done"}]
  /\ handle \in [Runs -> {"none", "task", "kept", "released"}]
  /\ leader \in [Runs -> {"none", "up", "zombie", "reaped"}]
  /\ kids \subseteq Runs /\ broker \subseteq Collected
  /\ result \in [Runs -> {"none", "exit", "error", "panic"}]
  /\ caller \in [Runs -> {"none", "await", "cancelled", "dropped", "ok"}]
  /\ active = Cardinality(Busy)
  /\ joined \subseteq Managed /\ failed \subseteq Managed /\ lost \subseteq failed

\* What NativeCollector sees of a collected run.
Tree(x) ==
  IF Live(x) THEN "live"
  ELSE IF leader[x] = "none" /\ sup[x] # "done" THEN "none" ELSE "gone"
DrainView(t) ==
  IF task[t].of # Nobody \/ task[t].at \in {"idle", "join"}
    THEN [at |-> "idle", found |-> {}]
    ELSE [at |-> IF task[t].at \in {"ok", "err"} THEN task[t].at ELSE "asked",
          found |-> task[t].found]
Collector == INSTANCE NativeCollector WITH
  Runs  <- Collected,
  busy  <- Busy \cap Collected,
  tree  <- [x \in Collected |-> Tree(x)],
  held  <- Retained \cap Collected,
  drain <- [t \in Tasks |-> DrainView(t)]

\* Both hosts implement the collector the module relies on: no live process
\* tree without an owner, and no drain that vouches for one (README.md of
\* crates/tinybox-host/src/limited, drain_checked).
CollectorSpec == Collector!Spec

\* ManagedProcess::is_cleaned is only true once the whole group is dead, which the
\* registry relies on to give a process slot back; and a collected command that is
\* reported as exited, with its output, left no process of its group behind.
CleanedIsDead ==
  /\ \A m \in joined \ failed : ~Live(m)
  /\ \A x \in Collected : caller[x] = "ok" => ~Live(x)

\* A drain returns unless some command runs on with a caller that waits for it:
\* supervisors that end between the counter check and the wait are not missed.
Waiting(t) == task[t].at \in {"wait", "sleep", "lock", "groups", "last"}
Undisturbed(x) == sup[x] = "collect" /\ caller[x] = "await" /\ leader[x] = "up"
DrainReturns ==
  \A t \in Tasks : Waiting(t) ~> (~Waiting(t) \/ \E x \in Runs : Undisturbed(x))
=============================================================================
