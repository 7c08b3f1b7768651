--------------------------- MODULE LiveExecution ---------------------------
(***************************************************************************)
(* What one live execution of the module promises its clients: an output   *)
(* journal that only grows while it is running, a terminal state that      *)
(* acknowledges native cleanup and never changes, and "CleanupFailed",      *)
(* which keeps the execution owned until a retry.  Streams implements it;   *)
(* NativeShell uses it.                                                     *)
(***************************************************************************)
EXTENDS Naturals

CONSTANT MaxChunks   \* chunks the journal takes before OutputLimit

VARIABLES state, chunks, tree

vars == <<state, chunks, tree>>

Terminal == {"Exited", "Cancelled", "TimedOut", "OutputLimit", "BackendFailed"}
Acknowledged == state \in Terminal

Init == state = "absent" /\ chunks = 0 /\ tree = "none"

Begin ==
  /\ state = "absent"
  /\ state' = "Running"
  /\ tree' \in {"none", "live"}
  /\ UNCHANGED chunks

Appear ==
  /\ state \in {"Running", "CleanupFailed"} /\ tree = "none"
  /\ tree' = "live"
  /\ UNCHANGED <<state, chunks>>

Die ==
  /\ tree = "live"
  /\ tree' = "gone"
  /\ UNCHANGED <<state, chunks>>

Output ==
  /\ state = "Running" /\ chunks < MaxChunks
  /\ chunks' = chunks + 1
  /\ UNCHANGED <<state, tree>>

\* The supervisor settles; a tree that never appeared never will.
Settle ==
  /\ tree = "none"
  /\ tree' = "gone"
  /\ UNCHANGED <<state, chunks>>

Finish ==
  /\ state = "Running"
  /\ \/ tree = "gone" /\ state' \in Terminal
     \/ state' = "CleanupFailed"
  /\ UNCHANGED <<chunks, tree>>

Retried ==
  /\ state = "CleanupFailed" /\ tree = "gone"
  /\ state' \in Terminal
  /\ UNCHANGED <<chunks, tree>>

\* ReleaseOutput, or the Close of the resource.
Release ==
  /\ Acknowledged
  /\ state' = "released"
  /\ UNCHANGED <<chunks, tree>>

Next == Begin \/ Appear \/ Die \/ Output \/ Settle \/ Finish \/ Retried \/ Release

Spec == Init /\ [][Next]_vars
=============================================================================
