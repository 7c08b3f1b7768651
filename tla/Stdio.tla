------------------------------- MODULE Stdio -------------------------------
(***************************************************************************)
(* Interactive processes of one resource (tinybus_module/resources_stdio.rs *)
(* and stdio.rs): StartStdio, WriteStdio, ReadStdio, CloseStdin, KillStdio  *)
(* and the stdio part of Close as concurrent calls, with the pump and the   *)
(* waiter task of every session.  stdout and stderr are one stream here,    *)
(* counted in chunks; SIGKILL stops a process at once.                      *)
(***************************************************************************)
EXTENDS Naturals, FiniteSets

CONSTANTS
  Calls,       \* concurrent bus calls
  Processes,   \* process ids reserved for the resource
  MaxStdio,    \* MAX_STDIO_PROCESSES
  MaxBuffer,   \* MAX_STDIO_BUFFER_BYTES, in chunks
  MaxOutput,   \* bound: chunks one child writes
  Free         \* a mutex is free

VARIABLES
  held,       \* the resource is registered
  shutting,   \* it is closing
  slotMutex,  \* the call holding the slot mutex
  ids,        \* process reservations
  slot,       \* per process: "none", "starting", "ready"
  leader,     \* its child: "none", "run", "zombie", "reaped"
  kids,       \* processes whose group has other members
  owned,      \* processes whose session still has its Child
  reaper,     \* per process: where reap is
  exit,       \* per process: "none", "known", "unknown"
  stdin,      \* per process: "open", "closed", or the call writing
  torn,       \* processes whose stdin got a part of a write
  pipe, buffer, read,   \* chunks written, pumped and returned to the client
  eof,        \* the pump reached end of file
  ended,      \* processes whose client was told the stream is closed
  killed,     \* processes that a KillStdio killed and released
  stdioCall   \* per call: where it is

registry == <<held, shutting, slotMutex, ids, slot>>
child == <<leader, kids, owned, reaper, exit>>
stream == <<pipe, buffer, read, eof, ended>>
input == <<stdin, torn>>
vars == <<registry, child, stream, input, killed, stdioCall>>

Idle == [at |-> "idle", p |-> CHOOSE p \in Processes : TRUE, todo |-> {}, starting |-> {}, bad |-> FALSE]

Init ==
  /\ held = TRUE /\ shutting = FALSE /\ slotMutex = Free /\ ids = Processes
  /\ slot = [p \in Processes |-> "none"]
  /\ leader = [p \in Processes |-> "none"] /\ kids = {} /\ owned = {}
  /\ reaper = [p \in Processes |-> "off"] /\ exit = [p \in Processes |-> "none"]
  /\ stdin = [p \in Processes |-> "open"] /\ torn = {}
  /\ pipe = [p \in Processes |-> 0] /\ buffer = [p \in Processes |-> 0]
  /\ read = [p \in Processes |-> 0] /\ eof = {} /\ ended = {}
  /\ killed = {}
  /\ stdioCall = [c \in Calls |-> Idle]

At(c) == stdioCall[c].at
P(c) == stdioCall[c].p
Goto(c, at) == stdioCall' = [stdioCall EXCEPT ![c].at = at]
Answer(c) == stdioCall' = [stdioCall EXCEPT ![c] = Idle]
SlotFree(c) == slotMutex \in {Free, c}

-----------------------------------------------------------------------------
(* The child, the pump and the waiter. *)

Live(p) == leader[p] = "run" \/ p \in kids

ChildStep(p) ==
  /\ \/ /\ Live(p) /\ pipe[p] + buffer[p] + read[p] < MaxOutput
        /\ pipe' = [pipe EXCEPT ![p] = @ + 1]
        /\ UNCHANGED <<leader, kids>>
     \/ leader[p] = "run" /\ p \notin kids /\ kids' = kids \cup {p} /\ UNCHANGED <<leader, pipe>>
     \/ p \in kids /\ kids' = kids \ {p} /\ UNCHANGED <<leader, pipe>>
     \/ leader[p] = "run" /\ leader' = [leader EXCEPT ![p] = "zombie"] /\ UNCHANGED <<kids, pipe>>
  /\ UNCHANGED <<registry, owned, reaper, exit, input, buffer, read, eof, ended, killed, stdioCall>>

\* pump: no more than there is room for, and end of file once nobody can write.
Pump(p) ==
  /\ p \notin eof /\ leader[p] # "none"
  /\ \/ /\ pipe[p] > 0 /\ buffer[p] < MaxBuffer
        /\ pipe' = [pipe EXCEPT ![p] = @ - 1]
        /\ buffer' = [buffer EXCEPT ![p] = @ + 1]
        /\ UNCHANGED eof
     \/ /\ pipe[p] = 0 /\ buffer[p] < MaxBuffer /\ ~Live(p)
        /\ eof' = eof \cup {p}
        /\ UNCHANGED <<pipe, buffer>>
  /\ UNCHANGED <<registry, child, input, read, ended, killed, stdioCall>>

\* reap: the wait under the child mutex, then the child is given up, its group is
\* killed and the exit is recorded.
Reap(p) ==
  /\ reaper[p] = "poll"
  /\ \/ /\ p \in owned /\ leader[p] = "zombie"
        /\ leader' = [leader EXCEPT ![p] = "reaped"]
        /\ reaper' = [reaper EXCEPT ![p] = "take"]
        /\ UNCHANGED exit
     \/ /\ p \in owned                                   \* try_wait fails
        /\ reaper' = [reaper EXCEPT ![p] = "off"]
        /\ exit' = [exit EXCEPT ![p] = "unknown"]
        /\ UNCHANGED leader
     \/ /\ p \notin owned
        /\ reaper' = [reaper EXCEPT ![p] = "off"]
        /\ UNCHANGED <<leader, exit>>
  /\ UNCHANGED <<registry, kids, owned, input, stream, killed, stdioCall>>

ReapTake(p) ==
  /\ reaper[p] = "take"
  /\ owned' = owned \ {p}
  /\ reaper' = [reaper EXCEPT ![p] = "kill"]
  /\ UNCHANGED <<registry, leader, kids, exit, input, stream, killed, stdioCall>>

\* Mutant: the exit is recorded and the rest of the group left alone.
ReapKillLeader(p) ==
  /\ reaper[p] = "kill"
  /\ exit' = [exit EXCEPT ![p] = "known"]
  /\ reaper' = [reaper EXCEPT ![p] = "off"]
  /\ UNCHANGED <<registry, leader, kids, owned, input, stream, killed, stdioCall>>

ReapKill(p) ==
  /\ reaper[p] = "kill"
  /\ kids' = kids \ {p}
  /\ exit' = [exit EXCEPT ![p] = "known"]
  /\ reaper' = [reaper EXCEPT ![p] = "off"]
  /\ UNCHANGED <<registry, leader, owned, input, stream, killed, stdioCall>>

-----------------------------------------------------------------------------
(* StartStdio. *)

MayStart(p) == held /\ ~shutting /\ p \in ids /\ slot[p] = "none"

\* A session that is ready is replayed, one that is starting is refused.
Start(c, p) ==
  /\ At(c) = "idle" /\ slotMutex = Free /\ MayStart(p)
  /\ stdioCall' = [stdioCall EXCEPT ![c] = [Idle EXCEPT !.at = "admit", !.p = p]]
  /\ UNCHANGED <<registry, child, stream, input, killed>>

\* The jail is prepared without a lock, then the start is admitted.
Admit(c) ==
  /\ At(c) = "admit" /\ slotMutex = Free
  /\ \/ /\ MayStart(P(c)) /\ Cardinality({p \in Processes : slot[p] # "none"}) < MaxStdio
        /\ ids' = ids \ {P(c)}
        /\ slot' = [slot EXCEPT ![P(c)] = "starting"]
        /\ Goto(c, "spawn")
     \/ Answer(c) /\ UNCHANGED <<ids, slot>>
  /\ UNCHANGED <<held, shutting, slotMutex, child, stream, input, killed>>

\* Mutant: without StartingGuard, a start that fails leaves its slot.
SpawnLeaks(c) ==
  /\ At(c) = "spawn"
  /\ \/ /\ leader' = [leader EXCEPT ![P(c)] = "run"]
        /\ owned' = owned \cup {P(c)}
        /\ reaper' = [reaper EXCEPT ![P(c)] = "poll"]
        /\ Goto(c, "insert")
     \/ Answer(c) /\ UNCHANGED <<leader, owned, reaper>>
  /\ UNCHANGED <<registry, kids, exit, stream, input, killed>>

\* StdioSession::spawn; StartingGuard ends the slot of a start that fails.
Spawn(c) ==
  /\ At(c) = "spawn"
  /\ \/ /\ leader' = [leader EXCEPT ![P(c)] = "run"]
        /\ owned' = owned \cup {P(c)}
        /\ reaper' = [reaper EXCEPT ![P(c)] = "poll"]
        /\ Goto(c, "insert")
        /\ UNCHANGED slot
     \/ /\ slot' = [slot EXCEPT ![P(c)] = "none"]
        /\ Answer(c)
        /\ UNCHANGED <<leader, owned, reaper>>
  /\ UNCHANGED <<held, shutting, slotMutex, ids, kids, exit, stream, input, killed>>

Insert(c) ==
  /\ At(c) = "insert"
  /\ slot' = [slot EXCEPT ![P(c)] = "ready"]
  /\ Goto(c, "check")
  /\ UNCHANGED <<held, shutting, slotMutex, ids, child, stream, input, killed>>

\* Mutant: a start that lost its resource just fails.
CheckForgets(c) ==
  /\ At(c) = "check"
  /\ slot' = IF held /\ ~shutting THEN slot ELSE [slot EXCEPT ![P(c)] = "none"]
  /\ Answer(c)
  /\ UNCHANGED <<held, shutting, slotMutex, ids, child, stream, input, killed>>

\* A Close began meanwhile: the slot is removed, then the child killed.
Check(c) ==
  /\ At(c) = "check"
  /\ IF held /\ ~shutting
       THEN Answer(c) /\ UNCHANGED slot
       ELSE /\ slot' = [slot EXCEPT ![P(c)] = "none"]
            /\ Goto(c, "start.kill")
  /\ UNCHANGED <<held, shutting, slotMutex, ids, child, stream, input, killed>>

-----------------------------------------------------------------------------
(* StdioSession::kill and its three callers. *)

\* Mutant: only the child itself is killed.
TerminateLeader(p) ==
  IF p \in owned
    THEN leader' = [leader EXCEPT ![p] = IF @ = "run" THEN "zombie" ELSE @] /\ UNCHANGED kids
    ELSE UNCHANGED <<leader, kids>>

\* terminate, while the session still has its child.
Terminate(p) ==
  IF p \in owned
    THEN /\ leader' = [leader EXCEPT ![p] = IF @ = "run" THEN "zombie" ELSE @]
         /\ kids' = kids \ {p}
    ELSE UNCHANGED <<leader, kids>>

\* An unknown process is answered at once, one that is starting is refused.
KillStdio(c, p) ==
  /\ At(c) = "idle" /\ slot[p] = "ready"
  /\ stdioCall' = [stdioCall EXCEPT ![c] = [Idle EXCEPT !.at = "kill", !.p = p]]
  /\ UNCHANGED <<registry, child, stream, input, killed>>

Kill(c) ==
  /\ At(c) \in {"kill", "start.kill", "close.kill"}
  /\ Terminate(P(c))
  /\ Goto(c, CASE At(c) = "kill" -> "wait" [] At(c) = "start.kill" -> "start.wait"
               [] At(c) = "close.kill" -> "close.wait")
  /\ UNCHANGED <<registry, owned, reaper, exit, stream, input, killed>>

\* The last handle is dropped: what is left of the child is killed and detached.
Dropped(c, p) ==
  IF \E d \in Calls \ {c} : P(d) = p /\ At(d) \in
       {"check", "kill", "wait", "start.kill", "start.wait", "close.kill", "close.wait", "write"}
    THEN UNCHANGED <<leader, kids, owned>>
    ELSE Terminate(p) /\ owned' = owned \ {p}

\* Stdin is closed once no write holds it, then the exit is awaited for at most
\* KILL_DEADLINE.
Remove(p) == slot' = [slot EXCEPT ![p] = "none"]
KillWait(c) ==
  LET p == P(c) IN
  /\ At(c) \in {"wait", "start.wait", "close.wait"} /\ stdin[p] \notin Calls
  /\ stdin' = [stdin EXCEPT ![p] = "closed"]
  /\ \/ /\ exit[p] # "none"
        /\ \/ At(c) = "wait" /\ Remove(p) /\ killed' = killed \cup {p} /\ Answer(c)
           \/ At(c) = "close.wait" /\ Remove(p) /\ Goto(c, "close.next") /\ UNCHANGED killed
           \/ At(c) = "start.wait" /\ Answer(c) /\ UNCHANGED <<slot, killed>>
        /\ Dropped(c, p)
     \/ /\ At(c) = "start.wait" /\ Dropped(c, p) /\ Answer(c)            \* timeout
        /\ UNCHANGED <<slot, killed>>
     \/ /\ At(c) = "wait" /\ Answer(c)
        /\ UNCHANGED <<slot, killed, leader, kids, owned>>
     \/ /\ At(c) = "close.wait"
        /\ stdioCall' = [stdioCall EXCEPT ![c].at = "close.next", ![c].bad = TRUE]
        /\ UNCHANGED <<slot, killed, leader, kids, owned>>
  /\ UNCHANGED <<held, shutting, slotMutex, ids, reaper, exit, torn, stream>>

-----------------------------------------------------------------------------
(* Close. *)

BeginClose(c) ==
  /\ At(c) = "idle" /\ held
  /\ shutting' = TRUE /\ ids' = {}
  /\ stdioCall' = [stdioCall EXCEPT ![c] = [Idle EXCEPT !.at = "close.lock"]]
  /\ UNCHANGED <<held, slotMutex, slot, child, stream, input, killed>>

\* One round of close_stdio: the sessions that are ready are killed in turn.
CloseScan(c) ==
  /\ At(c) \in {"close.lock", "close.scan"} /\ SlotFree(c)
  /\ slotMutex' = c
  /\ stdioCall' = [stdioCall EXCEPT ![c].at = "close.next",
       ![c].todo = {p \in Processes : slot[p] = "ready"},
       ![c].starting = {p \in Processes : slot[p] = "starting"}]
  /\ UNCHANGED <<held, shutting, ids, slot, child, stream, input, killed>>

CloseNext(c) ==
  /\ At(c) = "close.next"
  /\ \/ \E p \in stdioCall[c].todo :
          stdioCall' = [stdioCall EXCEPT ![c].at = "close.kill", ![c].p = p, ![c].todo = @ \ {p}]
     \/ /\ stdioCall[c].todo = {}
        /\ Goto(c, IF stdioCall[c].starting = {} THEN "close.end" ELSE "close.changed")
  /\ UNCHANGED <<registry, child, stream, input, killed>>

\* stdio_changed is enabled before the scan, so nothing since then is missed.
CloseChanged(c) ==
  /\ At(c) = "close.changed"
  /\ \E p \in stdioCall[c].starting : slot[p] # "starting"
  /\ Goto(c, "close.scan")
  /\ UNCHANGED <<registry, child, stream, input, killed>>

\* The resource goes unless a kill failed or a slot is left.
CloseEnd(c) ==
  /\ At(c) = "close.end"
  /\ slotMutex' = Free
  /\ held' = (held /\ (stdioCall[c].bad \/ \E p \in Processes : slot[p] # "none"))
  /\ Answer(c)
  /\ UNCHANGED <<shutting, ids, slot, child, stream, input, killed>>

-----------------------------------------------------------------------------
(* WriteStdio, CloseStdin and ReadStdio. *)

Write(c, p) ==
  /\ At(c) = "idle" /\ slot[p] = "ready" /\ stdin[p] = "open"
  /\ stdin' = [stdin EXCEPT ![p] = c]
  /\ stdioCall' = [stdioCall EXCEPT ![c] = [Idle EXCEPT !.at = "write", !.p = p]]
  /\ UNCHANGED <<registry, child, stream, torn, killed>>

\* The write succeeds, fails, or its invocation is dropped half way.
WriteEnd(c) ==
  LET p == P(c) IN
  /\ At(c) = "write"
  /\ \/ leader[p] = "run" /\ stdin' = [stdin EXCEPT ![p] = "open"] /\ UNCHANGED torn
     \/ stdin' = [stdin EXCEPT ![p] = "closed"] /\ torn' \in {torn, torn \cup {p}}
     \/ stdin' = [stdin EXCEPT ![p] = "open"] /\ torn' = torn \cup {p}
  /\ Answer(c)
  /\ UNCHANGED <<registry, child, stream, killed>>

CloseStdin(p) ==
  /\ slot[p] = "ready" /\ stdin[p] = "open"
  /\ stdin' = [stdin EXCEPT ![p] = "closed"]
  /\ UNCHANGED <<registry, child, stream, torn, killed, stdioCall>>

\* Mutant: the stream counts as closed at end of file.
ReadStdioEarly(p) ==
  /\ slot[p] = "ready"
  /\ \E n \in 0..buffer[p] :
       /\ n > 0 \/ p \in eof
       /\ buffer' = [buffer EXCEPT ![p] = @ - n]
       /\ read' = [read EXCEPT ![p] = @ + n]
       /\ ended' = IF p \in eof THEN ended \cup {p} ELSE ended
  /\ UNCHANGED <<registry, child, input, pipe, eof, killed, stdioCall>>

\* drain: as much as fits, and whether the stream is closed.
ReadStdio(p) ==
  /\ slot[p] = "ready"
  /\ \E n \in 0..buffer[p] :
       /\ n > 0 \/ p \in eof
       /\ buffer' = [buffer EXCEPT ![p] = @ - n]
       /\ read' = [read EXCEPT ![p] = @ + n]
       /\ ended' = IF p \in eof /\ n = buffer[p] THEN ended \cup {p} ELSE ended
  /\ UNCHANGED <<registry, child, input, pipe, eof, killed, stdioCall>>

-----------------------------------------------------------------------------
Begin(c) ==
  \/ \E p \in Processes : Start(c, p) \/ KillStdio(c, p) \/ Write(c, p)
  \/ BeginClose(c)
Proceed(c) ==
  \/ Admit(c) \/ Spawn(c) \/ Insert(c) \/ Check(c) \/ Kill(c) \/ KillWait(c)
  \/ CloseScan(c) \/ CloseNext(c) \/ CloseChanged(c) \/ CloseEnd(c) \/ WriteEnd(c)
Work(p) == Pump(p) \/ Reap(p) \/ ReapTake(p) \/ ReapKill(p)

Next ==
  \/ \E c \in Calls : Begin(c) \/ Proceed(c)
  \/ \E p \in Processes : ChildStep(p) \/ Work(p) \/ CloseStdin(p) \/ ReadStdio(p)

Spec == Init /\ [][Next]_vars

-----------------------------------------------------------------------------
TypeOK ==
  /\ slot \in [Processes -> {"none", "starting", "ready"}]
  /\ leader \in [Processes -> {"none", "run", "zombie", "reaped"}]
  /\ \A p \in Processes : buffer[p] <= MaxBuffer

\* A process that KillStdio released is dead with its whole group, also when the
\* kill met the waiter in the middle of reaping it.
KillIsFinal == \A p \in killed : ~Live(p)

\* A recorded exit means that nothing of the group is left ("then kill what the
\* child left behind so the pipes reach end of file").
ExitMeansDead == \A p \in Processes : exit[p] = "known" => ~Live(p)

\* A child that may still run is in the table, or in the hands of the start that
\* will insert or kill it, or of the waiter that reaped its leader and kills the
\* rest: nothing is left to itself when a Close meets a start.
LiveIsOwned ==
  \A p \in Processes : Live(p) =>
    \/ slot[p] # "none" \/ reaper[p] \in {"take", "kill"}
    \/ \E c \in Calls : P(c) = p /\ At(c) \in {"insert", "start.kill"}

\* The stream is reported closed only after every byte was delivered (StdioChunk:
\* "Stdout reached end of file and its buffer is empty").
EndIsComplete == \A p \in ended : pipe[p] = 0 /\ buffer[p] = 0

\* close_stdio waits "for any start still in flight so nothing outlives the
\* Close": no child runs once the resource is gone.
NothingOutlivesClose == ~held => \A p \in Processes : ~Live(p)
=============================================================================
