---------------------------- MODULE NativeShell ----------------------------
(***************************************************************************)
(* run_native_shell (tinybox-host/src/native_shell.rs): a client that       *)
(* reserves and creates a resource, runs one shell on it, collects its      *)
(* output in batches, cancels it when asked or when it is late, releases    *)
(* the output and closes the resource.  The module on the other side is     *)
(* the LiveExecution that Streams implements; any bus call may fail.        *)
(***************************************************************************)
EXTENDS Naturals

CONSTANTS
  MaxChunks,   \* MAX_OUTPUT_BYTES, in chunks
  Batch        \* BATCH_BYTES, in chunks

VARIABLES
  state, chunks, tree,   \* the execution, as the module has it
  at,         \* where run_native_shell is
  cursor,     \* NativeShellCapture: chunks captured
  cancelling, \* cancellation_requested
  timedOut,   \* timed_out
  late,       \* timeout_ms have passed since the start
  yields,     \* yield_after was given and has passed
  outcome,    \* what is going to be returned
  closed      \* what Close answered

execution == <<state, chunks, tree>>
client == <<at, cursor, cancelling, timedOut, outcome, closed>>
clock == <<late, yields>>
vars == <<execution, client, clock>>

Module == INSTANCE LiveExecution

Init ==
  /\ Module!Init
  /\ at = "reserve" /\ cursor = 0
  /\ cancelling = FALSE /\ timedOut = FALSE /\ late = FALSE /\ yields = FALSE
  /\ outcome = "none" /\ closed = "none"

-----------------------------------------------------------------------------
(* The module and the clock. *)

Execute ==
  /\ \/ Module!Appear \/ Module!Die \/ Module!Output \/ Module!Settle
     \/ Module!Finish \/ Module!Retried
  /\ state' = "TimedOut" => late
  /\ UNCHANGED <<client, clock>>

\* A yield comes before the timeout.
Tick ==
  /\ at # "reserve"
  /\ \/ ~yields /\ ~late /\ yields' = TRUE /\ UNCHANGED late
     \/ ~late /\ state # "absent" /\ late' = TRUE /\ UNCHANGED yields
  /\ UNCHANGED <<execution, client>>

-----------------------------------------------------------------------------
(* The calls.  What Ok means is the module's promise; an error means nothing. *)

Return(what) == outcome' = what /\ at' = "close"
CancelOk == Module!Acknowledged \/ state \in {"absent", "released"}

\* Reserving fails before there is anything to close; creating and reserving the
\* process fail with nothing started.
Reserve ==
  /\ at = "reserve"
  /\ \/ at' = "start" /\ UNCHANGED outcome
     \/ at' = "done" /\ outcome' = "error"
  /\ UNCHANGED <<execution, clock, cursor, cancelling, timedOut, closed>>

\* Mutant: an error of the start is returned at once.
StartReturns ==
  /\ at = "start"
  /\ \/ Module!Begin /\ at' = "poll" /\ UNCHANGED outcome
     \/ (Module!Begin \/ UNCHANGED execution) /\ at' = "done" /\ outcome' = "error"
  /\ UNCHANGED <<clock, cursor, cancelling, timedOut, closed>>

\* A start that fails may have started: its answer may be what was lost.
Start ==
  /\ at = "start"
  /\ \/ Module!Begin /\ at' = "poll" /\ UNCHANGED outcome
     \/ (Module!Begin \/ UNCHANGED execution) /\ Return("error")
  /\ UNCHANGED <<clock, cursor, cancelling, timedOut, closed>>

\* Chunks ReadOutput returns, and their capture.
Read == IF chunks - cursor < Batch THEN chunks - cursor ELSE Batch
Append == cursor' = cursor + Read

\* Mutant: the first batch that shows a terminal state ends the collection.
PollAll ==
  /\ at = "poll"
  /\ Append
  /\ \/ /\ Module!Acknowledged \/ state = "CleanupFailed"
        /\ at' = "release" /\ UNCHANGED outcome
     \/ /\ state = "Running"
        /\ IF ~cancelling /\ yields
             THEN at' = "done" /\ outcome' = "running"
             ELSE UNCHANGED <<at, outcome>>
  /\ UNCHANGED <<execution, clock, cancelling, timedOut, closed>>

\* A batch arrives.  A terminal state counts once a batch brings nothing more.
Poll ==
  /\ at = "poll"
  /\ Append
  /\ \/ state # "Running" /\ Read > 0 /\ UNCHANGED <<at, outcome>>
     \/ state # "Running" /\ Read = 0 /\ at' = "release" /\ UNCHANGED outcome
     \/ /\ state = "Running"
        /\ IF ~cancelling /\ yields
             THEN at' = "done" /\ outcome' = "running"
             ELSE UNCHANGED <<at, outcome>>
  /\ UNCHANGED <<execution, clock, cancelling, timedOut, closed>>

\* A read fails: the process is cancelled and released on the way out, unless it
\* was being cancelled anyway.
PollFails ==
  /\ at = "poll"
  /\ IF cancelling THEN Return("error") ELSE at' = "abort" /\ outcome' = "error"
  /\ UNCHANGED <<execution, clock, cursor, cancelling, timedOut, closed>>

\* The caller cancels, or the delay of at most 20 ms ends before the read does.
Interrupted ==
  /\ at = "poll" /\ ~cancelling
  /\ at' \in {"cancel", "timeout"}
  /\ UNCHANGED <<execution, clock, cursor, cancelling, timedOut, outcome, closed>>

Cancel ==
  /\ at \in {"cancel", "timeout", "abort"}
  /\ \/ /\ CancelOk
        /\ cancelling' = TRUE
        /\ timedOut' = (at = "timeout")
        /\ at' = IF at = "abort" THEN "release" ELSE "poll"
        /\ UNCHANGED outcome
     \/ Return("error") /\ UNCHANGED <<cancelling, timedOut>>
  /\ UNCHANGED <<execution, clock, cursor, closed>>

\* finish_native_shell
Release ==
  /\ at = "release"
  /\ \/ /\ Module!Release
        /\ Return(IF outcome = "error" \/ state \in {"OutputLimit", "BackendFailed"}
                    THEN "error" ELSE "finished")
        /\ timedOut' = (timedOut \/ state = "TimedOut")
     \/ Return("error") /\ UNCHANGED <<execution, timedOut>>
  /\ UNCHANGED <<clock, cursor, cancelling, closed>>

\* The resource is closed, which stops and retires what is left of the execution.
Close ==
  /\ at = "close"
  /\ \/ /\ Module!Release \/ (state \in {"absent", "released"} /\ UNCHANGED execution)
        /\ closed' = "ok"
        /\ UNCHANGED outcome
     \/ closed' = "error" /\ outcome' = "error" /\ UNCHANGED execution
  /\ at' = "done"
  /\ UNCHANGED <<clock, cursor, cancelling, timedOut>>

Next ==
  \/ Execute \/ Tick
  \/ Reserve \/ Start \/ Poll \/ PollFails \/ Interrupted \/ Cancel \/ Release \/ Close

Spec == Init /\ [][Next]_vars

-----------------------------------------------------------------------------
(* Properties. *)

TypeOK ==
  /\ cursor \in 0..MaxChunks /\ {cancelling, timedOut, late, yields} \subseteq BOOLEAN
  /\ at \in {"reserve", "start", "poll", "cancel", "timeout", "abort", "release", "close", "done"}
  /\ outcome \in {"none", "running", "finished", "error"} /\ closed \in {"none", "ok", "error"}

\* Finished output is complete, whatever the batches and however the process was
\* ended (NativeShellOutput: "Complete stdout bytes").
FinishedIsComplete ==
  at = "done" /\ outcome = "finished" => cursor = chunks /\ tree = "gone"

\* Only a process handed back as running, or a Close that failed, leaves anything
\* in the module.
LeavesNothing ==
  at = "done" /\ outcome # "running" /\ closed # "error" =>
    state \in {"absent", "released"} /\ tree # "live"

\* "Whether the shell exceeded its request timeout" (NativeShellOutput::timed_out):
\* that is said only of a shell whose deadline has passed.
TimedOutIsLate == at = "done" /\ outcome = "finished" /\ timedOut => late
=============================================================================
