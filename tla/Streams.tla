------------------------------ MODULE Streams ------------------------------
(***************************************************************************)
(* Live executions of one resource of the module service                    *)
(* (tinybus_module/resources_stream.rs, output.rs, native_shell): StartExec *)
(* and its variants, Cancel, ReleaseOutput and Close as concurrent calls,   *)
(* the supervisor task of every stream with its timeout, the publisher of   *)
(* its events, and the private scratch directory of a shell.  The native    *)
(* side is the NativeCollector each stream owns.                            *)
(***************************************************************************)
EXTENDS Naturals, Sequences, FiniteSets

CONSTANTS
  Calls,          \* concurrent bus calls
  Processes,      \* process ids reserved for the resource
  Kinds,          \* "shell" (timeout and scratch), "jailed" (CPU reports)
  MaxStreams,     \* MAX_STREAM_EXECUTIONS
  MaxProcesses,   \* MAX_PROCESSES_PER_RESOURCE
  MaxChunks,      \* MAX_OUTPUT_BYTES, in chunks
  Free            \* a stream's task mutex is free

ASSUME LimitsAssumption ==
  MaxStreams \in Nat \ {0} /\ MaxProcesses \in Nat \ {0} /\ MaxChunks \in Nat
ASSUME FreeAssumption == Free \notin Calls

VARIABLES
  open,       \* the slot holds the resource
  closing,    \* the resource is in executions.closing
  guard,      \* the call holding the slot mutex
  reserved,   \* process reservations not consumed, cancelled or expired
  streams,    \* keys of Resources::streams
  stream,     \* per process: its StreamExecution
  journal,    \* per process: OutputJournal
  busy, tree, held,   \* its collector
  scratch,    \* shell scratch directories: of streams, and of calls
  stuck,      \* scratch_cleanup_failed
  rejected,   \* rejected_shells, named by the call that prepared them
  events,     \* per process: the ProcessEvents emitted
  told,       \* processes whose Cancel, or whose resource's Close, was answered Ok
  call        \* per call: where it is

collector == <<busy, tree, held>>
resource == <<open, closing, guard, reserved>>
shells == <<scratch, stuck, rejected>>
vars == <<resource, streams, stream, journal, collector, shells, events, told, call>>

Native == INSTANCE NativeCollector WITH
  Runs <- Processes, Tasks <- {}, drain <- <<>>

Idle == [at |-> "idle", op |-> "none", p |-> CHOOSE p \in Processes : TRUE,
         kind |-> "none", todo |-> {}, bad |-> FALSE]
NoStream == [kind |-> "none", exec |-> "none", lock |-> Free,
             timedOut |-> FALSE, result |-> "none", pub |-> "no"]
Empty == [state |-> "absent", chunks |-> 0, cancelled |-> FALSE, cpu |-> FALSE]

Init ==
  /\ open = TRUE /\ closing = FALSE /\ guard = Free
  /\ reserved = Processes
  /\ streams = {}
  /\ stream = [p \in Processes |-> NoStream]
  /\ journal = [p \in Processes |-> Empty]
  /\ busy = {} /\ tree = [p \in Processes |-> "none"] /\ held = {}
  /\ scratch = {} /\ stuck = {} /\ rejected = {}
  /\ events = [p \in Processes |-> <<>>]
  /\ told = {}
  /\ call = [c \in Calls |-> Idle]

-----------------------------------------------------------------------------
(* The journal (output.rs). *)

Terminal == {"Exited", "Cancelled", "TimedOut", "OutputLimit", "BackendFailed"}
Acknowledged(p) == journal[p].state \in Terminal
Pending(p) == p \in held \/ p \in stuck

\* Journal p after finish_exit and finish_failed.
FinishExit(p) ==
  IF journal[p].state = "Running"
    THEN [journal[p] EXCEPT !.state = IF journal[p].cancelled THEN "Cancelled" ELSE "Exited"]
    ELSE journal[p]

FinishFailed(p, code) ==
  IF journal[p].state \in {"Running", "CleanupFailed"}
    THEN [journal[p] EXCEPT !.state =
            IF journal[p].cancelled /\ code = "BackendFailed" THEN "Cancelled" ELSE code]
    ELSE journal[p]

-----------------------------------------------------------------------------
(* The collector and the supervisor task of a stream. *)

\* The supervisor of the native command starts it, loses it, retains it.
Collector(p) ==
  /\ \/ Native!Appear(p)
     \/ Native!Die(p)
     \/ p \notin held /\ Native!Hold(p)
     \/ Native!Settle(p)
  /\ UNCHANGED <<resource, streams, stream, journal, shells, events, told, call>>

\* OutputJournal::output accepts a chunk.
Output(p) ==
  /\ p \in busy /\ tree[p] # "none"
  /\ journal[p].state = "Running" /\ journal[p].chunks < MaxChunks
  /\ journal' = [journal EXCEPT ![p].chunks = @ + 1]
  /\ UNCHANGED <<resource, streams, stream, collector, shells, events, told, call>>

\* What a finished run may have told its observer about CPU throttling.
CpuReport(p) == {cpu \in BOOLEAN : cpu => stream[p].kind = "jailed"}

\* The collector's run returns; a jailed one reports CPU throttling first.
ExecReturn(p) ==
  /\ stream[p].exec = "run" /\ p \notin busy
  /\ \E result \in {"exit", "error", "limit"} :
       /\ result = "exit" => p \notin held
       /\ result = "limit" => journal[p].chunks = MaxChunks
       /\ stream' = [stream EXCEPT ![p].exec = "finish", ![p].result = result]
  /\ \E cpu \in CpuReport(p) : journal' = [journal EXCEPT ![p].cpu = cpu]
  /\ UNCHANGED <<resource, streams, collector, shells, events, told, call>>

\* The timeout of a shell drops the run and drains its collector.
ExecTimeout(p) ==
  /\ stream[p].exec = "run" /\ stream[p].kind = "shell"
  /\ stream' = [stream EXCEPT ![p].exec = "drain", ![p].timedOut = TRUE]
  /\ UNCHANGED <<resource, streams, journal, collector, shells, events, told, call>>

\* drain_checked, once the supervisors are done: retained trees are retried.
Drained(p) == p \notin busy /\ IF p \in held THEN Native!Release(p) ELSE UNCHANGED collector
DrainFailed(p) == p \notin busy /\ p \in held /\ UNCHANGED collector

ExecDrain(p) ==
  /\ stream[p].exec = "drain"
  /\ Drained(p) \/ DrainFailed(p)
  /\ stream' = [stream EXCEPT ![p].exec = "finish"]
  /\ UNCHANGED <<resource, streams, journal, shells, events, told, call>>

\* Mutant: a pending cleanup is not looked at.
OutcomeUnchecked(p) ==
  CASE journal[p].cancelled -> FinishExit(p)
    [] stream[p].timedOut -> FinishFailed(p, "TimedOut")
    [] stream[p].result = "exit" -> FinishExit(p)
    [] stream[p].result = "limit" -> FinishFailed(p, "OutputLimit")
    [] OTHER -> FinishFailed(p, "BackendFailed")

\* The journal the supervisor task leaves.
Outcome(p) ==
  CASE Pending(p) -> FinishFailed(p, "CleanupFailed")
    [] journal[p].cancelled -> FinishExit(p)
    [] stream[p].timedOut -> FinishFailed(p, "TimedOut")
    [] stream[p].result = "exit" -> FinishExit(p)
    [] stream[p].result = "limit" -> FinishFailed(p, "OutputLimit")
    [] OTHER -> FinishFailed(p, "BackendFailed")

ExecFinish(p) ==
  /\ stream[p].exec = "finish"
  /\ journal' = [journal EXCEPT ![p] = Outcome(p)]
  /\ stream' = [stream EXCEPT ![p].exec = "done", ![p].result = "none"]
  /\ UNCHANGED <<resource, streams, collector, shells, events, told, call>>

\* The task panics: CompletionGuard.
ExecPanic(p) ==
  /\ stream[p].exec \in {"run", "drain"}
  /\ journal' = [journal EXCEPT ![p] = FinishFailed(p, "CleanupFailed")]
  /\ stream' = [stream EXCEPT ![p].exec = "done"]
  /\ UNCHANGED <<resource, streams, collector, shells, events, told, call>>

-----------------------------------------------------------------------------
(* StartExec and its variants. *)

Goto(c, at) == call' = [call EXCEPT ![c].at = at]
\* The call returns, whatever it returns.
Answer(c) == call' = [call EXCEPT ![c] = Idle]
Preparing == {c \in Calls : call[c].at \in {"prepare", "admit", "reject"}}
AtLimit == Cardinality(streams) >= MaxProcesses

\* A stream that is known already is a replay of the same request (with another
\* one the call fails and changes nothing).
Start(c, p, kind) ==
  /\ call[c].at = "idle"
  /\ p \in streams => stream[p].kind = kind
  /\ call' = [call EXCEPT ![c] = [Idle EXCEPT !.op = "Start", !.p = p, !.kind = kind,
       !.at = IF p \notin streams THEN "claim" ELSE "publish"]]
  /\ UNCHANGED <<resource, streams, stream, journal, collector, shells, events, told>>

\* prepare_execution: the request fits the resource, or the start fails.
PrepareExecution(c) == Goto(c, "prepare") \/ Answer(c)

\* claim_preparation and prepare_execution under the slot mutex.
StartClaim(c) ==
  /\ call[c].at = "claim" /\ guard = Free
  /\ \/ /\ open /\ ~closing /\ call[c].p \in reserved /\ ~AtLimit
        /\ Cardinality(streams) + Cardinality(Preparing) < MaxStreams
        /\ PrepareExecution(c)
        /\ UNCHANGED reserved
     \/ /\ \/ ~open \/ closing \/ call[c].p \notin reserved \/ AtLimit
           \/ Cardinality(streams) + Cardinality(Preparing) >= MaxStreams
        /\ Answer(c)
        /\ UNCHANGED reserved
     \/ /\ open /\ ~closing                       \* the reservation expired
        /\ reserved' = reserved \ {call[c].p}
        /\ Answer(c)
  /\ UNCHANGED <<open, closing, guard, streams, stream, journal, collector, shells, events, told>>

\* Preparation: a shell gets its scratch directory.  It may fail.
StartPrepare(c) ==
  /\ call[c].at = "prepare"
  /\ \/ Answer(c) /\ UNCHANGED scratch
     \/ /\ Goto(c, "admit")
        /\ scratch' = IF call[c].kind = "shell" THEN scratch \cup {c} ELSE scratch
  /\ UNCHANGED <<resource, streams, stream, journal, collector, stuck, rejected, events, told>>

\* Mutant: the reservation is not looked at again.
MayAdmitTwice(c) ==
  /\ open /\ ~closing /\ call[c].p \notin streams
  /\ ~AtLimit /\ Cardinality(streams) < MaxStreams

MayAdmit(c) ==
  /\ open /\ ~closing
  /\ call[c].p \notin streams
  /\ ~AtLimit /\ Cardinality(streams) < MaxStreams
  /\ call[c].p \in reserved

\* Admission consumes the reservation and starts the supervisor task.
StartAdmit(c) ==
  LET p == call[c].p IN
  /\ call[c].at = "admit" /\ guard = Free
  /\ \/ /\ MayAdmit(c)
        /\ reserved' = reserved \ {p}
        /\ streams' = streams \cup {p}
        /\ stream' = [stream EXCEPT ![p] = [NoStream EXCEPT !.kind = call[c].kind, !.exec = "run"]]
        /\ journal' = [journal EXCEPT ![p].state = "Running"]
        /\ Native!Admit(p)
        /\ scratch' = IF c \in scratch THEN (scratch \ {c}) \cup {p} ELSE scratch
        /\ Goto(c, "publish")
     \/ /\ ~MayAdmit(c)
        /\ call' = [call EXCEPT ![c].at = "reject",
             ![c].bad = ~(open /\ ~closing /\ p \in streams /\ stream[p].kind = call[c].kind)]
        /\ UNCHANGED <<reserved, streams, stream, journal, collector, scratch>>
  /\ UNCHANGED <<open, closing, guard, stuck, rejected, events, told>>

\* Mutant: a scratch directory that cannot be removed is forgotten.
StartRejectForgets(c) ==
  /\ call[c].at = "reject"
  /\ scratch' \in {scratch, scratch \ {c}}
  /\ Answer(c)
  /\ UNCHANGED <<resource, streams, stream, journal, collector, stuck, rejected, events, told>>

\* dispose_rejected_collector hands the scratch to rejected_shells and disposes
\* of all that is there for the resource.
StartReject(c) ==
  /\ call[c].at = "reject"
  /\ IF call[c].kind = "shell"
       THEN \E kept \in SUBSET (rejected \cup {c}) :
              /\ rejected' = kept
              /\ scratch' = scratch \ ((rejected \cup {c}) \ kept)
              /\ IF call[c].bad \/ kept # {} THEN Answer(c) ELSE Goto(c, "publish")
       ELSE /\ IF call[c].bad THEN Answer(c) ELSE Goto(c, "publish")
            /\ UNCHANGED <<scratch, rejected>>
  /\ UNCHANGED <<resource, streams, stream, journal, collector, stuck, events, told>>

\* Mutant: every successful start publishes.
StartPublishAgain(c) ==
  LET p == call[c].p IN
  /\ call[c].at = "publish"
  /\ IF p \in streams
       THEN /\ stream' = [stream EXCEPT ![p].pub = "waiting"]
            /\ events' = [events EXCEPT ![p] = Append(@, "Started")]
       ELSE UNCHANGED <<stream, events, told>>
  /\ Answer(c)
  /\ UNCHANGED <<resource, streams, journal, collector, shells, told>>

\* publish_process_events: the first start to get here claims the publisher.
StartPublish(c) ==
  LET p == call[c].p IN
  /\ call[c].at = "publish"
  /\ IF p \in streams /\ stream[p].pub = "no"
       THEN /\ stream' = [stream EXCEPT ![p].pub = "waiting"]
            /\ events' = [events EXCEPT ![p] = Append(@, "Started")]
       ELSE UNCHANGED <<stream, events, told>>
  /\ Answer(c)
  /\ UNCHANGED <<resource, streams, journal, collector, shells, told>>

\* terminal_events
TerminalEvents(p) ==
  (IF journal[p].cpu THEN <<"Cpu">> ELSE <<>>) \o
  (CASE stream[p].timedOut /\ Acknowledged(p) -> <<"Timeout", "Exited">>
     [] stream[p].timedOut -> <<"Timeout">>
     [] journal[p].state = "Exited" -> <<"Exited">>
     [] OTHER -> <<>>)

\* The publisher joins the supervisor task, then emits.
Publish(p) ==
  /\ stream[p].pub = "waiting" /\ stream[p].exec = "done" /\ stream[p].lock = Free
  /\ stream' = [stream EXCEPT ![p].pub = "done"]
  /\ events' = [events EXCEPT ![p] = @ \o TerminalEvents(p)]
  /\ UNCHANGED <<resource, streams, journal, collector, shells, call, told>>

-----------------------------------------------------------------------------
(* Cancel, ReleaseOutput and Close; all three stop streams. *)

Cancelled(p) == [journal EXCEPT ![p].cancelled = TRUE]

\* Cancel drops the reservation; a stream is stopped, and without one there is
\* nothing more to do once the slot mutex was free.
Cancel(c, p) ==
  /\ call[c].at = "idle"
  /\ reserved' = reserved \ {p}
  /\ IF p \in streams
       THEN /\ journal' = Cancelled(p)
            /\ call' = [call EXCEPT ![c] = [Idle EXCEPT !.op = "Cancel", !.p = p, !.at = "stop.lock"]]
       ELSE /\ call' = [call EXCEPT ![c] = [Idle EXCEPT !.op = "Cancel", !.p = p, !.at = "slot"]]
            /\ UNCHANGED journal
  /\ UNCHANGED <<open, closing, guard, streams, stream, collector, shells, events, told>>

CancelSlot(c) ==
  /\ call[c].at = "slot" /\ guard = Free
  /\ Answer(c)
  /\ told' = told \cup {call[c].p}
  /\ UNCHANGED <<resource, streams, stream, journal, collector, shells, events>>

\* release_output of a stream whose cleanup is acknowledged.
Release(c, p) ==
  /\ call[c].at = "idle"
  /\ p \in streams /\ Acknowledged(p)
  /\ journal' = Cancelled(p)
  /\ call' = [call EXCEPT ![c] = [Idle EXCEPT !.op = "Release", !.p = p, !.at = "stop.lock"]]
  /\ UNCHANGED <<resource, streams, stream, collector, shells, events, told>>

\* StreamExecution::stop: the task mutex is held across the join and the drain.
StopLock(c) ==
  LET p == call[c].p IN
  /\ call[c].at = "stop.lock" /\ stream[p].lock = Free
  /\ stream' = [stream EXCEPT ![p].lock = c]
  /\ Goto(c, "stop.join")
  /\ UNCHANGED <<resource, streams, journal, collector, shells, events, told>>

StopJoin(c) ==
  /\ call[c].at = "stop.join" /\ stream[call[c].p].exec = "done"
  /\ Goto(c, "stop.drain")
  /\ UNCHANGED <<resource, streams, stream, journal, collector, shells, events, told>>

\* A failed stop ends the call, or is remembered by Close.
Failed(c) ==
  IF call[c].op = "Close"
    THEN call' = [call EXCEPT ![c].at = "close.next", ![c].bad = TRUE]
    ELSE Answer(c)

\* Mutant: the task mutex is never released.
StopDrainForgets(c) ==
  LET p == call[c].p IN
  /\ call[c].at = "stop.drain"
  /\ \/ /\ Drained(p)
        /\ journal' = [journal EXCEPT ![p] =
             FinishFailed(p, IF stream[p].timedOut THEN "TimedOut" ELSE "BackendFailed")]
        /\ IF call[c].op = "Cancel"
             THEN Answer(c) /\ told' = told \cup {p}
             ELSE Goto(c, "scratch") /\ UNCHANGED told
     \/ DrainFailed(p) /\ Failed(c) /\ UNCHANGED <<journal, told>>
  /\ UNCHANGED <<resource, streams, stream, shells, events>>

StopDrain(c) ==
  LET p == call[c].p IN
  /\ call[c].at = "stop.drain"
  /\ \/ /\ Drained(p)
        /\ journal' = [journal EXCEPT ![p] =
             FinishFailed(p, IF stream[p].timedOut THEN "TimedOut" ELSE "BackendFailed")]
        /\ IF call[c].op = "Cancel"
             THEN Answer(c) /\ told' = told \cup {p}
             ELSE Goto(c, "scratch") /\ UNCHANGED told
     \/ DrainFailed(p) /\ Failed(c) /\ UNCHANGED <<journal, told>>
  /\ stream' = [stream EXCEPT ![p].lock = Free]
  /\ UNCHANGED <<resource, streams, shells, events>>

\* dispose_scratch: the directory is gone, or kept for a retry.
ScratchGone(p) == scratch' = scratch \ {p} /\ stuck' = stuck \ {p}
ScratchKept(p) == p \in scratch /\ stuck' = stuck \cup {p} /\ UNCHANGED scratch

\* dispose, and what its caller does next.
Dispose(c) ==
  LET p == call[c].p IN
  /\ call[c].at = "scratch"
  /\ \/ /\ ScratchGone(p)
        /\ IF call[c].op = "Close"
             THEN Goto(c, "close.next") /\ UNCHANGED streams
             ELSE Answer(c) /\ streams' = streams \ {p}
     \/ ScratchKept(p) /\ Failed(c) /\ UNCHANGED streams
  /\ UNCHANGED <<resource, stream, journal, collector, rejected, events, told>>

\* begin_close
Close(c) ==
  /\ call[c].at = "idle"
  /\ IF open
       THEN /\ closing' = TRUE /\ reserved' = {}
            /\ call' = [call EXCEPT ![c] = [Idle EXCEPT !.op = "Close", !.at = "close.lock"]]
       ELSE /\ call' = [call EXCEPT ![c] = [Idle EXCEPT !.op = "Close", !.at = "close.rejected"]]
            /\ UNCHANGED <<closing, reserved>>
  /\ UNCHANGED <<open, guard, streams, stream, journal, collector, shells, events, told>>

CloseLock(c) ==
  /\ call[c].at = "close.lock" /\ guard = Free
  /\ guard' = c
  /\ call' = [call EXCEPT ![c].at = "close.next", ![c].todo = streams]
  /\ UNCHANGED <<open, closing, reserved, streams, stream, journal, collector, shells, events, told>>

\* stream_cleanup_pending
CleanupPending == \E p \in streams : ~Acknowledged(p) \/ Pending(p)

\* close_streams disposes of every stream in turn, then retires them all unless
\* one is not acknowledged or still pending.  A scratch directory nobody removed
\* until then goes with its TempDir, if that succeeds.
CloseNext(c) ==
  /\ call[c].at = "close.next"
  /\ \/ \E p \in call[c].todo :
          /\ journal' = Cancelled(p)
          /\ call' = [call EXCEPT ![c].at = "stop.lock", ![c].p = p, ![c].todo = @ \ {p}]
          /\ UNCHANGED <<streams, scratch>>
     \/ /\ call[c].todo = {} /\ ~CleanupPending
        /\ streams' = {}
        /\ scratch' \in {scratch, scratch \ streams}        \* TempDir::drop
        /\ Goto(c, "close.rejected")
        /\ UNCHANGED journal
     \/ /\ call[c].todo = {} /\ CleanupPending
        /\ call' = [call EXCEPT ![c].at = "close.check", ![c].bad = TRUE]
        /\ UNCHANGED <<streams, journal, scratch>>
  /\ UNCHANGED <<resource, stream, collector, stuck, rejected, events, told>>

\* The rest of close looks again before it lets the resource go.
CloseCheck(c) ==
  /\ call[c].at = "close.check"
  /\ IF CleanupPending
       THEN Answer(c) /\ guard' = Free
       ELSE Goto(c, "close.rejected") /\ UNCHANGED guard
  /\ UNCHANGED <<open, closing, reserved, streams, stream, journal, collector, shells, events, told>>

\* dispose_rejected_shells, and the resource is gone whatever it came to.
CloseRejected(c) ==
  /\ call[c].at = "close.rejected"
  /\ \E kept \in SUBSET rejected :
       /\ rejected' = kept
       /\ scratch' = scratch \ (rejected \ kept)
       /\ IF call[c].bad \/ kept # {}
            THEN Answer(c) /\ UNCHANGED told
            ELSE Answer(c) /\ told' = Processes
  /\ IF guard = c
       THEN open' = FALSE /\ closing' = FALSE /\ guard' = Free
       ELSE UNCHANGED <<open, closing, guard>>
  /\ UNCHANGED <<reserved, streams, stream, journal, collector, stuck, events>>

-----------------------------------------------------------------------------
Begin(c) ==
  \/ \E p \in Processes : Cancel(c, p) \/ Release(c, p) \/ \E kind \in Kinds : Start(c, p, kind)
  \/ Close(c)
Proceed(c) ==
  \/ StartClaim(c) \/ StartPrepare(c) \/ StartAdmit(c) \/ StartReject(c) \/ StartPublish(c)
  \/ CancelSlot(c) \/ StopLock(c) \/ StopJoin(c) \/ StopDrain(c) \/ Dispose(c)
  \/ CloseLock(c) \/ CloseNext(c) \/ CloseCheck(c) \/ CloseRejected(c)
Execute(p) ==
  \/ Output(p) \/ ExecReturn(p) \/ ExecTimeout(p) \/ ExecDrain(p) \/ ExecFinish(p)
  \/ ExecPanic(p) \/ Publish(p)

Next ==
  \/ \E c \in Calls : Begin(c) \/ Proceed(c)
  \/ \E p \in Processes : Collector(p) \/ Execute(p)

Spec == Init /\ [][Next]_vars

\* Tasks and calls are polled.  A command ends of itself only if it likes to; the
\* collector ends one that was cancelled or whose future was dropped.
CollectorEnds(p) ==
  /\ journal[p].cancelled \/ stream[p].exec \in {"drain", "done"}
  /\ Native!Die(p) \/ Native!Settle(p)
  /\ UNCHANGED <<resource, streams, stream, journal, shells, events, told, call>>
FairSpec ==
  /\ Spec
  /\ \A p \in Processes :
       /\ WF_vars(CollectorEnds(p))
       /\ WF_vars(ExecReturn(p)) /\ WF_vars(ExecDrain(p)) /\ WF_vars(ExecFinish(p))
  /\ \A c \in Calls : SF_vars(Proceed(c))

-----------------------------------------------------------------------------
(* Properties. *)

TypeOK ==
  /\ open \in BOOLEAN /\ closing \in BOOLEAN /\ guard \in Calls \cup {Free}
  /\ reserved \subseteq Processes /\ streams \subseteq Processes /\ told \subseteq Processes
  /\ busy \subseteq Processes /\ held \subseteq Processes
  /\ tree \in [Processes -> {"none", "live", "gone"}]
  /\ scratch \subseteq Processes \cup Calls
  /\ stuck \subseteq Processes /\ rejected \subseteq Calls

\* Each stream is a live execution as its clients know it: a terminal state
\* acknowledges that the process tree is gone and is final, CleanupFailed stays
\* owned until a retry (tinybox-bus/src/output.rs, ExecutionState).
State(p) ==
  IF p \in streams \/ journal[p].state = "absent" THEN journal[p].state ELSE "released"
Live(p) == INSTANCE LiveExecution WITH
  state <- State(p), chunks <- journal[p].chunks, tree <- tree[p]
StreamSpec ==
  /\ \A p \in Processes : Live(p)!Init
  /\ [][\A p \in Processes : Live(p)!Next \/ UNCHANGED Live(p)!vars]_vars

\* A Cancel or Close that was answered Ok is final: whatever start was being
\* prepared meanwhile, nothing of the process runs or will (module README,
\* "StartExec" and Cancel).
CancelIsFinal == \A p \in told : p \notin busy /\ tree[p] # "live"

\* The scratch directory of a start that was not admitted always has an owner
\* that will remove it: the start itself, or rejected_shells for a later Close.
RejectedScratchIsOwned ==
  scratch \cap Calls \subseteq rejected \cup {c \in Calls : call[c].at \in {"admit", "reject"}}

\* "Resource Close retires its journals after stream cleanup is acknowledged"
\* (module README): a resource that is gone has no stream left.
CloseRetires == ~open => streams = {}

\* contract-2-2.md: Started is emitted once, whatever is replayed, and first; a
\* timeout is reported before the exit; nothing follows an exit, and it is only
\* reported of a process that is gone.
EventsInOrder ==
  \A p \in Processes :
    LET e == events[p] IN
    /\ \A i \in DOMAIN e : e[i] = "Started" <=> i = 1
    /\ \A i \in DOMAIN e : e[i] = "Exited" => i = Len(e) /\ tree[p] # "live"
    /\ \A i, j \in DOMAIN e : e[i] = e[j] => i = j

\* Every call is answered, however starts, stops and Close meet on the slot and
\* task mutexes.
CallsReturn ==
  \A c \in Calls : call[c].at # "idle" ~> call[c].at = "idle"
=============================================================================
