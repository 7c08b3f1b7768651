------------------------------- MODULE DockerBox -------------------------------
(***************************************************************************)
(* Creating and destroying one Docker box, with its egress filter: create,  *)
(* the reconciliation of a failed create and destroy of                     *)
(* tinybox-docker/src/sandbox/mod.rs, and prepare and cleanup of            *)
(* egress_enforcement.rs.  Every docker, iptables and ip6tables command is  *)
(* a step.  It may fail, and a failed command may have had its effect.      *)
(***************************************************************************)
EXTENDS Naturals, Sequences, FiniteSets

CONSTANTS
  Families,      \* "iptables" and "ip6tables", in the order they are installed
  MaxCreates,    \* bound on create attempts
  MaxFaults,     \* bound on failing commands
  MaxCrashes,    \* bound on restarts of the process
  Foreign        \* the attempt label of somebody else's container

Attempts == 1..MaxCreates
Chains == {<<Families[i], k>> : i \in 1..Len(Families), k \in {"forward", "input"}}

VARIABLES
  pc,          \* "idle", or the command that comes next
  doing,       \* "create" or "destroy"
  attempt,     \* the label of the latest create
  record,      \* the store holds the box
  filtered,    \* its spec has an allowlist
  remembered,  \* failed_create_attempts: an attempt, or 0
  ctr,         \* the attempt label of the container, or 0
  net,         \* the attempt label of the egress network, or 0
  chain,       \* per chain: "none", "empty", "marked" or "ready"
  hooked,      \* chains that traffic of the bridge is sent through
  mine,        \* attempt_owned_chains
  step,        \* position in the installation or the cleanup
  faults, crashes

host == <<ctr, net, chain, hooked>>
memory == <<pc, doing, remembered, mine, step>>
boxVars == <<memory, attempt, record, filtered, host, faults, crashes>>

Init ==
  /\ pc = "idle" /\ doing = "create" /\ attempt = 0
  /\ record = FALSE /\ filtered = FALSE /\ remembered = 0
  /\ ctr \in {0, Foreign} /\ net = 0
  /\ chain = [c \in Chains |-> "none"] /\ hooked = {}
  /\ mine = {} /\ step = 0 /\ faults = 0 /\ crashes = 0

Fine == UNCHANGED faults
Fault == faults < MaxFaults /\ faults' = faults + 1
Goto(at) == pc' = at /\ UNCHANGED <<doing, remembered, mine, step>>
GotoStep(at, n) == pc' = at /\ step' = n /\ UNCHANGED <<doing, remembered, mine>>

\* A command with an effect on the host: it succeeds, or it fails with the
\* effect or without it.
Command(effect, same, ok, failed) ==
  \/ Fine /\ effect /\ ok
  \/ Fault /\ (effect \/ same) /\ failed

\* A command that only looks.
Look(ok, failed) == (Fine /\ ok) \/ (Fault /\ failed)

-----------------------------------------------------------------------------
\* How a cleanup of the filter ends, for destroy and for a failed create
CleanOk == Goto(IF doing = "destroy" THEN "forget" ELSE "discard")
CleanErr == Goto(IF doing = "destroy" THEN "idle" ELSE "remember")

(* create: the record first, then the filter, then the container. *)

Create ==
  /\ pc = "idle" /\ ~record /\ attempt < MaxCreates
  /\ attempt' = attempt + 1 /\ record' = TRUE /\ filtered' \in BOOLEAN
  /\ doing' = "create" /\ mine' = {} /\ step' = 0
  /\ pc' = IF filtered' THEN "engine" ELSE "run"
  /\ UNCHANGED <<remembered, host, faults, crashes>>

\* verify_engine_and_firewall, before the network is made and before it is
\* cleaned up
VerifyEngine ==
  /\ \/ pc = "engine" /\ Look(Goto("network"), Goto("discard"))
     \/ pc = "clean engine" /\ Look(Goto("clean all"), CleanErr)
  /\ UNCHANGED <<attempt, record, filtered, host, crashes>>

CreateNetwork ==
  /\ pc = "network"
  /\ \/ net # 0 /\ Fine /\ Goto("discard") /\ UNCHANGED net       \* already exists
     \/ net = 0 /\ Command(net' = attempt, UNCHANGED net, Goto("verify"), Goto("reconcile network"))
  /\ UNCHANGED <<attempt, record, filtered, ctr, chain, hooked, crashes>>

\* reconcile_ambiguous_network_create
ReconcileNetwork ==
  /\ \/ /\ pc = "reconcile network"
        /\ Look(Goto(IF net = attempt THEN "remove network" ELSE "discard"), Goto("remember"))
        /\ UNCHANGED net
     \/ /\ pc = "remove network"
        /\ Command(net' = 0, UNCHANGED net, Goto("discard"), Goto("verify removal"))
     \/ /\ pc = "verify removal"
        /\ Look(Goto(IF net = attempt THEN "remember" ELSE "discard"), Goto("remember"))
        /\ UNCHANGED net
  /\ UNCHANGED <<attempt, record, filtered, ctr, chain, hooked, crashes>>

\* verify_created_network, verify_targets_outside_network_subnets,
\* verify_created_bridge_link
VerifyNetwork ==
  /\ pc = "verify"
  /\ Look(GotoStep("install", 1), Goto("clean"))
  /\ UNCHANGED <<attempt, record, filtered, host, crashes>>

\* install_family: both chains with their markers, the rules, then the hooks.
FamilyPlan(f) ==
  << <<"new", <<f, "forward">> >>, <<"mark", <<f, "forward">> >>,
     <<"new", <<f, "input">> >>, <<"mark", <<f, "input">> >>,
     <<"rules", <<f, "forward">> >>, <<"rules", <<f, "input">> >>,
     <<"hook", <<f, "forward">> >>, <<"hook", <<f, "input">> >> >>

\* install_firewall
Plan == FamilyPlan(Families[1]) \o (IF Len(Families) > 1 THEN FamilyPlan(Families[2]) ELSE <<>>)

InstallNext == GotoStep(IF step = Len(Plan) THEN "verify hooks" ELSE "install", step + 1)

InstallNew(c) ==
  /\ \/ /\ Fine /\ chain' = [chain EXCEPT ![c] = "empty"] /\ mine' = mine \cup {c}
        /\ pc' = "install" /\ step' = step + 1 /\ UNCHANGED <<doing, remembered>>
     \/ Fault /\ Goto("clean") /\ chain' \in {chain, [chain EXCEPT ![c] = "empty"]}
  /\ UNCHANGED hooked

\* append_chain_owner_marker
InstallMark(c) ==
  /\ Command(chain' = [chain EXCEPT ![c] = "marked"], UNCHANGED chain, InstallNext, Goto("clean"))
  /\ UNCHANGED hooked

\* deny_rules, install_pinned_destinations and the final drop
InstallRules(c) ==
  /\ \/ Fine /\ chain' = [chain EXCEPT ![c] = "ready"] /\ InstallNext
     \/ Fault /\ Goto("clean") /\ UNCHANGED chain
  /\ UNCHANGED hooked

InstallHook(c) ==
  /\ Command(hooked' = hooked \cup {c}, UNCHANGED hooked, InstallNext, Goto("clean"))
  /\ UNCHANGED chain

Install ==
  /\ pc = "install"
  /\ LET do == Plan[step][1]  c == Plan[step][2]
     IN  \/ do = "new" /\ InstallNew(c)
         \/ do = "mark" /\ InstallMark(c)
         \/ do = "rules" /\ InstallRules(c)
         \/ do = "hook" /\ InstallHook(c)
  /\ UNCHANGED <<attempt, record, filtered, ctr, net, crashes>>

VerifyHooks ==
  /\ pc = "verify hooks"
  /\ Look(Goto("run"), Goto("clean"))
  /\ UNCHANGED <<attempt, record, filtered, host, crashes>>

\* What a failed create still has to undo
Undo == Goto(IF filtered THEN "clean engine" ELSE "discard")

RunContainer ==
  /\ pc = "run"
  /\ \/ Fault /\ Undo /\ UNCHANGED ctr                             \* args::run refuses the spec
     \/ ctr # 0 /\ Fine /\ Undo /\ UNCHANGED ctr                   \* is_name_conflict
     \/ /\ ctr = 0 /\ Fine /\ ctr' = attempt
        /\ pc' = "idle" /\ remembered' = 0 /\ UNCHANGED <<doing, mine, step>>
     \/ ctr = 0 /\ Fault /\ ctr' \in {0, attempt} /\ Goto("inspect")
  /\ UNCHANGED <<attempt, record, filtered, net, chain, hooked, crashes>>

\* reconcile_failed_create
ReconcileCreate ==
  /\ \/ /\ pc = "inspect" /\ UNCHANGED ctr
        /\ Look(IF ctr = attempt THEN Goto("remove failed") ELSE Undo, Goto("remember"))
     \/ /\ pc = "remove failed"
        /\ Command(ctr' = 0, UNCHANGED ctr, Undo, Goto("remember"))
  /\ UNCHANGED <<attempt, record, filtered, net, chain, hooked, crashes>>

\* Mutant: what could not be cleaned up is forgotten.
SettleForgets ==
  /\ pc \in {"discard", "remember"} /\ Fine /\ record' = FALSE /\ UNCHANGED remembered
  /\ pc' = "idle"
  /\ UNCHANGED <<doing, mine, step, attempt, filtered, host, crashes>>

\* discard_failed_create_record and remember_failed_create_attempt
Settle ==
  /\ \/ pc = "discard" /\ Fine /\ record' = FALSE /\ UNCHANGED remembered
     \/ pc = "discard" /\ Fault /\ remembered' = attempt /\ UNCHANGED record
     \/ pc = "remember" /\ Fine /\ remembered' = attempt /\ UNCHANGED record
  /\ pc' = "idle"
  /\ UNCHANGED <<doing, mine, step, attempt, filtered, host, crashes>>

-----------------------------------------------------------------------------
(* cleanup_native_with_attempt; destroy and a failed create share it. *)

\* Mutant: only a marker proves ownership.
ReclaimableMarked(c) == chain[c] \in {"none", "marked", "ready"}

\* A chain is the box's own when it is marked, or empty, unused and known.  Only
\* cleanup() may take an unknown one: a rollback inside prepare may not.
Reclaimable(c) ==
  \/ chain[c] \in {"none", "marked", "ready"}
  \/ chain[c] = "empty" /\ c \notin hooked /\ (pc = "clean all" \/ c \in mine)

\* The network names the attempt; without it no chain may be left.
Preflight ==
  /\ pc \in {"clean", "clean all"}
  /\ Look(\/ /\ net = 0
             /\ IF \A c \in Chains : chain[c] = "none" THEN CleanOk ELSE CleanErr
          \/ /\ net # 0
             /\ IF \A c \in Chains : Reclaimable(c) THEN GotoStep("unhook", 1) ELSE CleanErr,
          CleanErr)
  /\ UNCHANGED <<attempt, record, filtered, host, crashes>>

Doomed == << <<Families[1], "forward">>, <<Families[1], "input">> >> \o
          (IF Len(Families) > 1 THEN << <<Families[2], "forward">>, <<Families[2], "input">> >> ELSE <<>>)
CleanNext == IF step = Len(Doomed) THEN Goto("drop network") ELSE GotoStep("unhook", step + 1)

\* -C and -D: a check that fails reads as "not hooked".
Unhook ==
  /\ pc = "unhook"
  /\ LET c == Doomed[step]
     IN  \/ chain[c] = "none" /\ Fine /\ CleanNext /\ UNCHANGED hooked
         \/ /\ chain[c] # "none"
            /\ \/ c \notin hooked /\ Fine /\ Goto("flush") /\ UNCHANGED hooked
               \/ c \in hooked /\ Fault /\ Goto("flush") /\ UNCHANGED hooked
               \/ c \in hooked /\ Command(hooked' = hooked \ {c}, UNCHANGED hooked, Goto("flush"), CleanErr)
  /\ UNCHANGED <<attempt, record, filtered, ctr, net, chain, crashes>>

\* -F, then -X, which fails on a chain in use; a chain that cannot be deleted
\* gets its marker back.
Delete ==
  /\ LET c == Doomed[step]
         is(s) == chain' = [chain EXCEPT ![c] = s]
     IN  \/ pc = "flush" /\ Command(is("empty"), UNCHANGED chain, Goto("delete"), CleanErr)
         \/ /\ pc = "delete"
            /\ \/ c \notin hooked /\ Command(is("none"), UNCHANGED chain, Goto("gone"), Goto("restore"))
               \/ c \in hooked /\ Fine /\ UNCHANGED chain /\ Goto("restore")
         \/ pc = "restore" /\ chain[c] # "none" /\ Command(is("marked"), UNCHANGED chain, CleanErr, CleanErr)
         \/ pc = "restore" /\ chain[c] = "none" /\ Fine /\ UNCHANGED chain /\ CleanErr
         \/ pc = "gone" /\ Look(CleanNext, CleanErr) /\ UNCHANGED chain
  /\ UNCHANGED <<attempt, record, filtered, ctr, net, hooked, crashes>>

DropNetwork ==
  /\ pc = "drop network"
  /\ Command(net' = 0, UNCHANGED net, CleanOk, CleanErr)
  /\ UNCHANGED <<attempt, record, filtered, ctr, chain, hooked, crashes>>

-----------------------------------------------------------------------------
\* Mutant: the filter is taken down before the container.
DestroyUnfiltered ==
  /\ pc = "idle" /\ record
  /\ doing' = "destroy" /\ mine' = {} /\ step' = 0 /\ UNCHANGED remembered
  /\ pc' = (IF filtered THEN "clean all" ELSE "remove")
  /\ UNCHANGED <<attempt, record, filtered, host, faults, crashes>>

\* Mutant: a remembered attempt is not compared with the container's label.
DestroyAnyOwner ==
  /\ pc = "idle" /\ record
  /\ doing' = "destroy" /\ mine' = {} /\ step' = 0 /\ UNCHANGED remembered
  /\ pc' = "remove"
  /\ UNCHANGED <<attempt, record, filtered, host, faults, crashes>>

(* destroy: a remembered failed create owns only its own container. *)
Destroy ==
  /\ pc = "idle" /\ record
  /\ doing' = "destroy" /\ mine' = {} /\ step' = 0 /\ UNCHANGED remembered
  /\ Look(pc' = (IF remembered # 0 /\ ctr \notin {0, remembered} THEN "idle" ELSE "remove"),
          remembered # 0 /\ pc' = "idle")
  /\ UNCHANGED <<attempt, record, filtered, host, crashes>>

RemoveContainer ==
  /\ pc = "remove"
  /\ Command(ctr' = 0, UNCHANGED ctr, Goto(IF filtered THEN "clean engine" ELSE "forget"), Goto("idle"))
  /\ UNCHANGED <<attempt, record, filtered, net, chain, hooked, crashes>>

Forget ==
  /\ pc = "forget"
  /\ \/ Fine /\ record' = FALSE /\ remembered' = 0
     \/ Fault /\ UNCHANGED <<record, remembered>>
  /\ pc' = "idle"
  /\ UNCHANGED <<doing, mine, step, attempt, filtered, host, crashes>>

\* The process dies and starts again: what was only in memory is gone.
Crash ==
  /\ crashes < MaxCrashes /\ crashes' = crashes + 1
  /\ pc' = "idle" /\ doing' = "create" /\ remembered' = 0 /\ mine' = {} /\ step' = 0
  /\ UNCHANGED <<attempt, record, filtered, host, faults>>

Running ==
  \/ VerifyEngine \/ CreateNetwork \/ ReconcileNetwork \/ VerifyNetwork \/ Install \/ VerifyHooks
  \/ RunContainer \/ ReconcileCreate \/ Settle
  \/ Preflight \/ Unhook \/ Delete \/ DropNetwork
  \/ RemoveContainer \/ Forget

Next == Create \/ Destroy \/ Running \/ Crash

\* A started operation goes on, and a failed destroy is called again.
FairSpec == Init /\ [][Next]_boxVars /\ WF_boxVars(Running) /\ WF_boxVars(Destroy)

-----------------------------------------------------------------------------
TypeOK ==
  /\ ctr \in Attempts \cup {0, Foreign} /\ net \in Attempts \cup {0}
  /\ remembered \in Attempts \cup {0}
  /\ chain \in [Chains -> {"none", "empty", "marked", "ready"}]
  /\ hooked \subseteq Chains /\ mine \subseteq Chains

\* The default-drop filter is complete and in force before the container of an
\* allowlisted box starts and for as long as it exists, through every failed
\* create, rollback, destroy and restart.
RunningIsFiltered ==
  ctr \in Attempts /\ filtered =>
    net = ctr /\ \A c \in Chains : chain[c] = "ready" /\ c \in hooked

\* "a record without a container is recoverable, a container without a record is
\* a leak" (destroy): whatever a create attempt made on the host belongs to a
\* recorded box, and a chain to a network that names its attempt.
NothingLeaks ==
  /\ (ctr \in Attempts \/ net # 0) => record
  /\ (\E c \in Chains : chain[c] # "none") => net # 0

\* A container that belongs to another create attempt is left alone by a failed
\* create and by the destroy that follows it.  The memory of failed attempts
\* does not survive a restart.
ForeignUntouched == [][ctr = Foreign /\ crashes = 0 => ctr' = Foreign]_boxVars

\* A chain that was flushed while traffic still passed it: it has lost its marker
\* and cannot be reclaimed.  It takes two failing commands, or one and a crash.
Unowned == \E c \in hooked : chain[c] = "empty"

\* "make cleanup idempotent" (DockerEgressController): a recorded box whose
\* destroy is repeated is eventually gone, unless it is refused for good.
DestroyFinishes == record ~> (~record \/ Unowned \/ (ctr = Foreign /\ remembered # 0))
=============================================================================
