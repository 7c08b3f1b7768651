------------------------------- MODULE Detached -------------------------------
(***************************************************************************)
(* Processes left running in a box through pid files                        *)
(* (tinybox-core/src/detach/mod.rs) as the passthrough and Docker sandboxes *)
(* use them: each call is one shell script on the far side, which runs on   *)
(* when the connection that started it is lost.  A process may ignore TERM  *)
(* or end by itself; its pid is then free for another program.              *)
(***************************************************************************)
EXTENDS Naturals

CONSTANTS
  Callers,
  MaxPid,
  MaxSpawns, MaxStops,
  MaxCuts        \* lost connections and failing scripts

Jobs == 1 .. MaxSpawns
Nobody == 0
Stranger == MaxSpawns + 1
NoCall == [op |-> "none", job |-> 0, at |-> "idle", pid |-> 0]

VARIABLES
  checks,    \* whether stop looks at the status of its script (Docker does)
  holder,    \* whose each pid is: nobody's, a job's or a stranger's
  pidFile,   \* the pid file of a job, 0 if there is none
  call,      \* the script each caller waits for, and how far it is
  spawned,   \* jobs whose identifier was returned
  stopped,   \* jobs of which a stop that ran to its end was reported
  spawns, stops, cuts

vars == <<checks, holder, pidFile, call, spawned, stopped, spawns, stops, cuts>>

Init ==
  /\ checks \in BOOLEAN
  /\ holder = [p \in 1 .. MaxPid |-> Nobody] /\ pidFile = [j \in Jobs |-> 0]
  /\ call = [c \in Callers |-> NoCall] /\ spawned = {} /\ stopped = {}
  /\ spawns = 0 /\ stops = 0 /\ cuts = 0

Script(c, op, at) == call[c].op = op /\ call[c].at = at
Go(c, at) == call' = [call EXCEPT ![c].at = at]
Cut == cuts < MaxCuts /\ cuts' = cuts + 1
Alive(p) == p # 0 /\ holder[p] # Nobody

---------------------------------------------------------------------------
\* mint: process id and ordinal, taken to be an identifier nobody else has.
mint == spawns + 1

Spawn(c) ==
  /\ call[c].at = "idle" /\ spawns < MaxSpawns
  /\ spawns' = spawns + 1
  /\ call' = [call EXCEPT ![c] = [op |-> "spawn", job |-> mint, at |-> "fork", pid |-> 0]]
  /\ UNCHANGED <<checks, holder, pidFile, spawned, stopped, stops, cuts>>

\* The script of start: { inner ; } & and then echo $! > pid_file.
StartFork(c) ==
  /\ Script(c, "spawn", "fork")
  /\ \E p \in 1 .. MaxPid :
       /\ holder[p] = Nobody
       /\ holder' = [holder EXCEPT ![p] = call[c].job]
       /\ call' = [call EXCEPT ![c].at = "record", ![c].pid = p]
  /\ UNCHANGED <<checks, pidFile, spawned, stopped, spawns, stops, cuts>>

StartRecord(c) ==
  /\ Script(c, "spawn", "record")
  /\ \/ /\ UNCHANGED cuts
        /\ pidFile' = [pidFile EXCEPT ![call[c].job] = call[c].pid] /\ Go(c, "ok")
     \/ Cut /\ UNCHANGED pidFile /\ Go(c, "failed")
  /\ UNCHANGED <<checks, holder, spawned, stopped, spawns, stops>>

\* spawn returns the identifier only of a script that succeeded.
SpawnReturn(c) ==
  /\ call[c].op = "spawn" /\ call[c].at \in {"ok", "failed"}
  /\ \/ UNCHANGED cuts /\ spawned' = IF call[c].at = "ok" THEN spawned \cup {call[c].job} ELSE spawned
     \/ Cut /\ UNCHANGED spawned
  /\ call' = [call EXCEPT ![c] = NoCall]
  /\ UNCHANGED <<checks, holder, pidFile, stopped, spawns, stops>>

\* probe: running when the pid file is there and kill -0 finds its pid.
Running(j) == pidFile[j] # 0 /\ Alive(pidFile[j])

---------------------------------------------------------------------------
Stop(c) ==
  /\ call[c].at = "idle" /\ stops < MaxStops
  /\ stops' = stops + 1
  /\ \E j \in spawned : call' = [call EXCEPT ![c] = [op |-> "stop", job |-> j, at |-> "read", pid |-> 0]]
  /\ UNCHANGED <<checks, holder, pidFile, spawned, stopped, spawns, cuts>>

\* The script of stop: the pid, if there is a file; TERM; the wait; KILL; rm.
StopRead(c) ==
  /\ Script(c, "stop", "read")
  /\ call' = [call EXCEPT ![c].pid = pidFile[call[c].job], ![c].at = IF pidFile[call[c].job] = 0 THEN "ok" ELSE "term"]
  /\ UNCHANGED <<checks, holder, pidFile, spawned, stopped, spawns, stops, cuts>>

Signal(c, must) ==
  LET p == call[c].pid IN
  \/ holder' = [holder EXCEPT ![p] = Nobody]
  \/ (holder[p] = Nobody \/ ~must) /\ UNCHANGED holder

StopTerm(c) ==
  /\ Script(c, "stop", "term") /\ Signal(c, FALSE) /\ Go(c, "kill")
  /\ UNCHANGED <<checks, pidFile, spawned, stopped, spawns, stops, cuts>>

\* After the grace period, or once the pid is gone.
StopKillNever(c) ==
  /\ Script(c, "stop", "kill") /\ Go(c, "rm")
  /\ UNCHANGED <<checks, holder, pidFile, spawned, stopped, spawns, stops, cuts>>

StopKill(c) ==
  /\ Script(c, "stop", "kill") /\ Signal(c, TRUE) /\ Go(c, "rm")
  /\ UNCHANGED <<checks, pidFile, spawned, stopped, spawns, stops, cuts>>

StopRemove(c) ==
  /\ Script(c, "stop", "rm")
  /\ pidFile' = [pidFile EXCEPT ![call[c].job] = 0] /\ Go(c, "ok")
  /\ UNCHANGED <<checks, holder, spawned, stopped, spawns, stops, cuts>>

\* The passthrough sandbox drops the output of the script, the Docker one asks
\* for success: a script that never started is reported by the second only.
StopReturn(c) ==
  /\ call[c].op = "stop"
  /\ \/ /\ call[c].at = "ok" /\ UNCHANGED cuts
        /\ stopped' = stopped \cup {call[c].job}
     \/ /\ call[c].at \in {"read", "ok"} /\ Cut
        /\ stopped' = IF checks THEN stopped ELSE stopped \cup {call[c].job}
  /\ call' = [call EXCEPT ![c] = NoCall]
  /\ UNCHANGED <<checks, holder, pidFile, spawned, spawns, stops>>

\* A process or a stranger ends; a stranger takes a free pid.
Exit ==
  /\ \E p \in 1 .. MaxPid : holder[p] # Nobody /\ holder' = [holder EXCEPT ![p] = Nobody]
  /\ UNCHANGED <<checks, pidFile, call, spawned, stopped, spawns, stops, cuts>>

Reuse ==
  /\ \E p \in 1 .. MaxPid : holder[p] = Nobody /\ holder' = [holder EXCEPT ![p] = Stranger]
  /\ UNCHANGED <<checks, pidFile, call, spawned, stopped, spawns, stops, cuts>>

Next ==
  \/ \E c \in Callers :
       \/ Spawn(c) \/ StartFork(c) \/ StartRecord(c) \/ SpawnReturn(c)
       \/ Stop(c) \/ StopRead(c) \/ StopTerm(c) \/ StopKill(c) \/ StopRemove(c)
       \/ StopReturn(c)
  \/ Exit \/ Reuse

Spec == Init /\ [][Next]_vars
---------------------------------------------------------------------------
TypeOK ==
  /\ holder \in [1 .. MaxPid -> 0 .. Stranger] /\ pidFile \in [Jobs -> 0 .. MaxPid]
  /\ spawned \subseteq Jobs /\ stopped \subseteq Jobs /\ checks \in BOOLEAN

\* A live process whose identifier was returned has its pid file and is reported
\* running, whatever stops of it are under way; and it does not outlive a stop in
\* a Docker box that returned Ok, whether or not it obeyed TERM (start, probe and
\* stop of detach/mod.rs).
JobIsReachable ==
  \A j \in spawned : (\E p \in 1 .. MaxPid : holder[p] = j) => Running(j) /\ (checks => j \notin stopped)
=============================================================================
