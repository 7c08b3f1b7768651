-------------------------------- MODULE Tunnel --------------------------------
(***************************************************************************)
(* A port forward over SSH (tinybox-ssh/src/host/forward.rs): a local port  *)
(* is chosen, ssh started, and the port polled until something accepts on   *)
(* it, ssh has exited or the deadline has passed.  Another program may take *)
(* the port in between, and the caller may drop the call while it polls.    *)
(***************************************************************************)
EXTENDS Naturals

CONSTANT Polls   \* connection attempts before the deadline

VARIABLES
  opening,   \* the call: idle, spawn, connect, check, opened, closed, failed, dropped
  ssh,       \* the child: none, starting, listening, exited
  squatter,  \* another program accepts on the port
  polls

vars == <<opening, ssh, squatter, polls>>

Init == opening = "idle" /\ ssh = "none" /\ squatter = FALSE /\ polls = 0

reserve_local_port ==
  /\ opening = "idle" /\ opening' \in {"spawn", "failed"}
  /\ UNCHANGED <<ssh, squatter, polls>>

SpawnSsh ==
  /\ opening = "spawn"
  /\ \/ opening' = "connect" /\ ssh' = "starting"
     \/ opening' = "failed" /\ UNCHANGED ssh
  /\ UNCHANGED <<squatter, polls>>

Forwarding == opening = "connect" /\ (ssh = "listening" \/ squatter)

Connect ==
  /\ opening = "connect"
  /\ opening' = IF Forwarding THEN "opened" ELSE "check"
  /\ UNCHANGED <<ssh, squatter, polls>>

\* The guard: kill, then wait.
CloseNothing == UNCHANGED ssh
Close == ssh' = "exited"

\* An ssh that exited, or the deadline, fails the call, which closes the tunnel.
Check ==
  /\ opening = "check"
  /\ \/ ssh = "exited" /\ opening' = "failed" /\ Close /\ UNCHANGED polls
     \/ ssh # "exited" /\ polls = Polls /\ opening' = "failed" /\ Close /\ UNCHANGED polls
     \/ ssh # "exited" /\ polls < Polls /\ opening' = "connect" /\ polls' = polls + 1 /\ UNCHANGED ssh
  /\ UNCHANGED squatter

\* The caller's Forward is closed or dropped.
CloseForward ==
  /\ opening = "opened" /\ opening' = "closed" /\ Close
  /\ UNCHANGED <<squatter, polls>>

\* The call is dropped at one of its awaits; a Child is not killed on drop.
DropCall ==
  /\ opening \in {"connect", "check"} /\ opening' = "dropped"
  /\ UNCHANGED <<ssh, squatter, polls>>

\* ssh binds the port, unless it is taken, or exits; a program takes or leaves it.
SshStep ==
  /\ \/ ssh = "starting" /\ ssh' = (IF squatter THEN "exited" ELSE "listening")
     \/ ssh \in {"starting", "listening"} /\ ssh' = "exited"
  /\ UNCHANGED <<opening, squatter, polls>>

Squat ==
  /\ ssh # "listening" /\ squatter' = ~squatter
  /\ UNCHANGED <<opening, ssh, polls>>

Next ==
  \/ reserve_local_port \/ SpawnSsh \/ Connect \/ Check \/ CloseForward \/ DropCall
  \/ SshStep \/ Squat

Spec == Init /\ [][Next]_vars
---------------------------------------------------------------------------
TypeOK == ssh \in {"none", "starting", "listening", "exited"} /\ squatter \in BOOLEAN /\ polls \in 0 .. Polls

\* No ssh is left behind "for a forward the caller will never be handed": one that
\* runs belongs to a call that still polls, or to a Forward its caller holds. Only
\* a call that is dropped while it polls leaves one.
SshIsHeld == ssh \in {"starting", "listening"} => opening \in {"connect", "check", "opened", "dropped"}
=============================================================================
