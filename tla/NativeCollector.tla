-------------------------- MODULE NativeCollector --------------------------
(***************************************************************************)
(* What a host that collects native commands promises the module: the      *)
(* process tree of a run is always somebody's.  While the run is `busy`    *)
(* its supervisor owns it; after a cleanup that failed it is `held` for a   *)
(* retry.  A drain that answers "ok" vouches for every run it found.       *)
(* NativeHost is shown to implement this.                                  *)
(***************************************************************************)
EXTENDS FiniteSets

CONSTANTS Runs, Tasks

VARIABLES
  busy,      \* runs whose supervisor has not ended
  tree,      \* "none", "live" or "gone": the run's processes
  held,      \* runs retained after a failed cleanup
  drain      \* per task: the runs a drain vouches for, and its answer

vars == <<busy, tree, held, drain>>

Init ==
  /\ busy = {}
  /\ tree = [x \in Runs |-> "none"]
  /\ held = {}
  /\ drain = [t \in Tasks |-> [at |-> "idle", found |-> {}]]

Admit(x) ==
  /\ x \notin busy \cup held /\ tree[x] = "none"
  /\ busy' = busy \cup {x}
  /\ tree' \in {tree, [tree EXCEPT ![x] = "live"]}
  /\ UNCHANGED <<held, drain>>

Appear(x) ==
  /\ x \in busy /\ tree[x] = "none"
  /\ tree' = [tree EXCEPT ![x] = "live"]
  /\ UNCHANGED <<busy, held, drain>>

Die(x) ==
  /\ tree[x] = "live"
  /\ tree' = [tree EXCEPT ![x] = "gone"]
  /\ UNCHANGED <<busy, held, drain>>

\* A supervisor that could not clean up passes the tree on.
Hold(x) ==
  /\ x \in busy
  /\ held' = held \cup {x}
  /\ tree' \in {tree, [tree EXCEPT ![x] = "gone"]}
  /\ UNCHANGED <<busy, drain>>

Settle(x) ==
  /\ x \in busy /\ (tree[x] = "live" => x \in held)
  /\ busy' = busy \ {x}
  /\ tree' = [tree EXCEPT ![x] = IF @ = "none" THEN "gone" ELSE @]
  /\ UNCHANGED <<held, drain>>

Release(x) ==
  /\ x \in held /\ tree[x] # "live"
  /\ held' = held \ {x}
  /\ UNCHANGED <<busy, tree, drain>>

\* A drain vouches for all it finds, a bare retry for nothing.
Ask(t) ==
  /\ drain[t].at # "asked"
  /\ \E found \in {{}, busy \cup held} :
       drain' = [drain EXCEPT ![t] = [at |-> "asked", found |-> found]]
  /\ UNCHANGED <<busy, tree, held>>

Answer(t) ==
  /\ drain[t].at = "asked"
  /\ \/ drain[t].found \cap (busy \cup held) = {}
          /\ drain' = [drain EXCEPT ![t].at = "ok"]
     \/ drain' = [drain EXCEPT ![t].at = "err"]
  /\ UNCHANGED <<busy, tree, held>>

\* The caller takes its answer, or stops waiting for one.
Forget(t) ==
  /\ drain' = [drain EXCEPT ![t] = [at |-> "idle", found |-> {}]]
  /\ UNCHANGED <<busy, tree, held>>

Next ==
  \/ \E x \in Runs : Admit(x) \/ Appear(x) \/ Die(x) \/ Hold(x) \/ Settle(x) \/ Release(x)
  \/ \E t \in Tasks : Ask(t) \/ Answer(t) \/ Forget(t)

Spec == Init /\ [][Next]_vars

\* Every live process tree has an owner.
Owned == \A x \in Runs : tree[x] = "live" => x \in busy \cup held

\* A drain that answered "ok" left nothing running of what it found.
Drained ==
  \A t \in Tasks : drain[t].at = "ok" =>
    \A x \in drain[t].found : tree[x] # "live"
=============================================================================
