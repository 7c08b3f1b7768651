------------------------------- MODULE OneShot -------------------------------
(***************************************************************************)
(* One command in a fresh container with a deadline                         *)
(* (tinybox-docker/src/oneshot/mod.rs).  The attached client and the        *)
(* container are separate: killing the first does not stop the second,      *)
(* which is found by its label and killed.  The daemon may still create and *)
(* start it after the client is gone, and any client command may fail.      *)
(***************************************************************************)
EXTENDS Naturals, FiniteSets

CONSTANTS Runs, MaxFailures

VARIABLES
  shot,       \* each run: idle, attached, list, kill, done, timedout, dropped
  container,  \* its container: none, asked, created, running, gone
  listed,     \* what the label query of a run, or of the module, returned
  missed,     \* runs whose container was not running when it was listed, or whose
              \* listing or kill failed
  sweeping,   \* the module's checked kill by the shared label: idle, kill, ok, failed
  failures

vars == <<shot, container, listed, missed, sweeping, failures>>

Init ==
  /\ shot = [r \in Runs |-> "idle"] /\ container = [r \in Runs |-> "none"]
  /\ listed = {} /\ missed = {} /\ sweeping = "idle" /\ failures = 0

Fails == failures < MaxFailures /\ failures' = failures + 1
Live(r) == container[r] \in {"asked", "created", "running"}
Move(r, to) == shot' = [shot EXCEPT ![r] = to]

run_one_shot(r) ==
  /\ shot[r] = "idle"
  /\ \/ /\ Move(r, "attached") /\ container' = [container EXCEPT ![r] = "asked"]
        /\ UNCHANGED failures
     \/ Fails /\ Move(r, "done") /\ UNCHANGED container
  /\ UNCHANGED <<listed, missed, sweeping>>

\* The client returns when its container has ended.
Output(r) ==
  /\ shot[r] = "attached" /\ container[r] = "gone" /\ Move(r, "done")
  /\ UNCHANGED <<container, listed, missed, sweeping, failures>>

\* The deadline: the client is killed on drop.
Deadline(r) ==
  /\ shot[r] = "attached" /\ Move(r, "list")
  /\ UNCHANGED <<container, listed, missed, sweeping, failures>>

DropCall(r) ==
  /\ shot[r] \in {"attached", "list", "kill"} /\ Move(r, "dropped")
  /\ UNCHANGED <<container, listed, missed, sweeping, failures>>

\* kill_labelled of the run: docker ps -q lists running containers only, and
\* neither its failure nor that of docker kill is looked at.
ListRun(r) ==
  /\ shot[r] = "list"
  /\ \/ /\ UNCHANGED failures
        /\ IF container[r] = "running" THEN Move(r, "kill") /\ UNCHANGED missed
           ELSE Move(r, "timedout") /\ missed' = missed \cup {r}
     \/ Fails /\ Move(r, "timedout") /\ missed' = missed \cup {r}
  /\ UNCHANGED <<container, listed, sweeping>>

KillRunNever(r) ==
  /\ shot[r] = "kill" /\ Move(r, "timedout")
  /\ UNCHANGED <<container, listed, missed, sweeping, failures>>

KillRun(r) ==
  /\ shot[r] = "kill" /\ Move(r, "timedout")
  /\ \/ container' = [container EXCEPT ![r] = "gone"] /\ UNCHANGED <<missed, failures>>
     \/ Fails /\ missed' = missed \cup {r} /\ UNCHANGED container
  /\ UNCHANGED <<listed, sweeping>>

---------------------------------------------------------------------------
\* kill_labelled_checked over the label all runs share.
ListAll ==
  /\ sweeping # "kill"
  /\ LET running == {r \in Runs : container[r] = "running"} IN
     \/ /\ sweeping' = IF running = {} THEN "ok" ELSE "kill"
        /\ listed' = running /\ UNCHANGED failures
     \/ Fails /\ sweeping' = "failed" /\ listed' = {}
  /\ UNCHANGED <<shot, container, missed>>

\* docker kill fails when one of the containers is gone by then; it then may or
\* may not have killed the others.
KillAll ==
  /\ sweeping = "kill"
  /\ \E killed \in SUBSET listed :
       /\ container' = [r \in Runs |-> IF r \in killed THEN "gone" ELSE container[r]]
       /\ \/ /\ killed = listed /\ \A r \in listed : container[r] = "running"
             /\ sweeping' = "ok" /\ UNCHANGED failures
          \/ /\ \E r \in listed : container[r] # "running"
             /\ sweeping' = "failed" /\ UNCHANGED failures
          \/ Fails /\ sweeping' = "failed"
  /\ UNCHANGED <<shot, listed, missed>>

\* The daemon creates and starts the container; the command ends.
Daemon(r) ==
  /\ \/ container[r] = "asked" /\ container' = [container EXCEPT ![r] = "created"]
     \/ container[r] = "created" /\ container' = [container EXCEPT ![r] = "running"]
     \/ container[r] = "running" /\ container' = [container EXCEPT ![r] = "gone"]
     \/ container[r] = "asked" /\ shot[r] # "attached" /\ container' = [container EXCEPT ![r] = "gone"]
  /\ UNCHANGED <<shot, listed, missed, sweeping, failures>>

Next ==
  \/ \E r \in Runs :
       \/ run_one_shot(r) \/ Output(r) \/ Deadline(r) \/ DropCall(r) \/ ListRun(r) \/ KillRun(r)
       \/ Daemon(r)
  \/ ListAll \/ KillAll

Spec == Init /\ [][Next]_vars
---------------------------------------------------------------------------
TypeOK ==
  /\ container \in [Runs -> {"none", "asked", "created", "running", "gone"}]
  /\ listed \subseteq Runs /\ missed \subseteq Runs /\ failures \in 0 .. MaxFailures

\* When a run is over its container is: whether it ended, or was killed at the
\* deadline with the client; the container that `docker ps -q` did not show, and
\* the failures that are not looked at, are the exceptions. And a checked kill
\* that answered Ok left none of what it listed running.
RunTakesItsContainer ==
  /\ \A r \in Runs : shot[r] \in {"done", "timedout"} /\ r \notin missed => ~Live(r)
  /\ sweeping = "ok" => \A r \in listed : ~Live(r)
=============================================================================
