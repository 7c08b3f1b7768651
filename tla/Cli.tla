--------------------------------- MODULE Cli ---------------------------------
(***************************************************************************)
(* The command line (tinybox-cli/src/command/mod.rs): create, run, rm and   *)
(* reap, each invocation a process of its own over the shared store and the *)
(* Docker daemon.  Only a Docker box is more than its record.  Boxes are    *)
(* ephemeral unless their record says otherwise, and identifiers are        *)
(* reissued, lowest first.                                                  *)
(***************************************************************************)
EXTENDS Naturals, FiniteSets, FiniteSetsExt

CONSTANTS
  Users, Reaper,     \* invocations by hand, and the one that is repeated
  MaxBox,            \* box-0 .. box-MaxBox
  MaxInvocations, MaxNow,
  MaxMishaps         \* commands of the daemon or the store that fail

BoxIds == 0 .. MaxBox
Processes == Users \cup {Reaper}
Never == MaxNow + 1
Ttl == 1
NoEntry == [sandbox |-> "none", born |-> 0, expires |-> 0]
Quiet == [command |-> "none", at |-> "idle", box |-> 0, born |-> 0, sandbox |-> "none", todo |-> {}]

VARIABLES
  entries,      \* the store
  daemon,       \* the containers, by the creation they belong to
  invocation,   \* each process: its command and how far it is
  clock,
  created,      \* how many boxes were created
  stuck,        \* boxes whose container the daemon does not remove
  crossed,      \* identifiers two invocations used at cross purposes
  invocations, mishaps

vars == <<entries, daemon, invocation, clock, created, stuck, crossed, invocations, mishaps>>

Kinds == {"docker", "passthrough", "microvm"}

\* Boxes from before: of a creation time that is not known, or of a sandbox that
\* needs a flag this invocation was not given.
Init ==
  /\ entries \in {[i \in BoxIds |-> IF i = 0 THEN e ELSE NoEntry] :
                    e \in {NoEntry, [sandbox |-> "microvm", born |-> 0, expires |-> 0],
                           [sandbox |-> "passthrough", born |-> 0, expires |-> Never]}}
  /\ daemon = [i \in BoxIds |-> 0]
  /\ invocation = [p \in Processes |-> Quiet]
  /\ clock = 0 /\ created = 0 /\ stuck \in {{}, {0}} /\ crossed = {}
  /\ invocations = 0 /\ mishaps = 0

is_expired(e) == e # NoEntry /\ e.expires <= clock
At(p, at) == invocation[p].at = at
Goto(p, at) == invocation' = [invocation EXCEPT ![p].at = at]
End(p) == invocation' = [invocation EXCEPT ![p] = Quiet]
Fine == UNCHANGED mishaps
Mishap == mishaps < MaxMishaps /\ mishaps' = mishaps + 1

---------------------------------------------------------------------------
\* build_sandbox: a microVM needs --microvm-kernel.
Builds(kind) == kind # "microvm"

\* create and run: the record first, under the lowest free identifier.
Create(p) ==
  /\ p \in Users /\ At(p, "idle") /\ invocations < MaxInvocations
  /\ \E i \in BoxIds : entries[i] = NoEntry
  /\ LET i == Min({k \in BoxIds : entries[k] = NoEntry}) IN
     \E command \in {"create", "run"} : \E kind \in {k \in Kinds : Builds(k)} :
       /\ entries' = [entries EXCEPT ![i] = [sandbox |-> kind, born |-> created + 1, expires |-> clock + Ttl]]
       /\ invocation' = [invocation EXCEPT ![p] =
            [command |-> command, at |-> IF kind = "docker" THEN "container" ELSE "created", box |-> i,
             born |-> created + 1, sandbox |-> kind, todo |-> {}]]
  /\ created' = created + 1 /\ invocations' = invocations + 1
  /\ UNCHANGED <<daemon, clock, stuck, crossed, mishaps>>

\* A step on the identifier of a box that is no longer the one this invocation
\* looked up, or whose container is just being created.
Crossing(p, i) ==
  crossed' = IF \/ entries[i].born \notin {0, invocation[p].born}
                \/ \E q \in Processes \ {p} : At(q, "container") /\ invocation[q].box = i
             THEN crossed \cup {i} ELSE crossed

\* The container.  A create that failed takes back what it finds of its own and
\* its record; what it cannot find out stays, recorded, for a later destroy.
CreateContainer(p) ==
  /\ At(p, "container")
  /\ LET i == invocation[p].box IN
     \/ /\ Fine /\ daemon[i] = 0
        /\ daemon' = [daemon EXCEPT ![i] = invocation[p].born]
        /\ Goto(p, "created") /\ UNCHANGED <<entries, crossed>>
     \/ /\ Mishap \/ (daemon[i] # 0 /\ Fine)
        /\ entries' = [entries EXCEPT ![i] = NoEntry] /\ Crossing(p, i)
        /\ End(p) /\ UNCHANGED daemon
     \/ /\ Mishap /\ daemon[i] = 0
        /\ daemon' \in {daemon, [daemon EXCEPT ![i] = invocation[p].born]}
        /\ End(p) /\ UNCHANGED <<entries, crossed>>
  /\ UNCHANGED <<clock, created, stuck, invocations>>

\* create is done; run executes, for as long as it takes and whatever it returns,
\* and destroys.
Created(p) ==
  /\ At(p, "created")
  /\ IF invocation[p].command = "run" THEN Goto(p, "destroy") ELSE End(p)
  /\ UNCHANGED <<entries, daemon, clock, created, stuck, crossed, invocations, mishaps>>

---------------------------------------------------------------------------
\* sandbox_of and build, from the record as it is now.
Lookup(p, i, rest, refused) ==
  invocation' = [invocation EXCEPT ![p] =
    IF entries[i] # NoEntry /\ Builds(entries[i].sandbox)
    THEN [command |-> IF rest = {} /\ p \in Users THEN "rm" ELSE "reap", at |-> "destroy", box |-> i,
          born |-> entries[i].born, sandbox |-> entries[i].sandbox, todo |-> rest]
    ELSE refused]

Rm(p) ==
  /\ p \in Users /\ At(p, "idle") /\ invocations < MaxInvocations
  /\ \E i \in BoxIds : entries[i] # NoEntry /\ Lookup(p, i, {}, Quiet)
  /\ invocations' = invocations + 1
  /\ UNCHANGED <<entries, daemon, clock, created, stuck, crossed, mishaps>>

\* reap lists what has expired, and looks each one up when its turn comes.
Reap ==
  /\ At(Reaper, "idle") /\ \E i \in BoxIds : is_expired(entries[i])
  /\ invocation' = [invocation EXCEPT ![Reaper] =
       [Quiet EXCEPT !.command = "reap", !.at = "next", !.todo = {i \in BoxIds : is_expired(entries[i])}]]
  /\ UNCHANGED <<entries, daemon, clock, created, stuck, crossed, invocations, mishaps>>

\* A box that is gone by now, or cannot be built, ends the whole reap.
ReapNext ==
  /\ At(Reaper, "next")
  /\ LET todo == invocation[Reaper].todo IN
     IF todo = {} THEN End(Reaper) ELSE Lookup(Reaper, Min(todo), todo \ {Min(todo)}, Quiet)
  /\ UNCHANGED <<entries, daemon, clock, created, stuck, crossed, invocations, mishaps>>

\* What follows a destroy: the next box for a reap, also of one that failed.
DestroyedStops(p, ok) == IF invocation[p].command = "reap" /\ ok THEN Goto(p, "next") ELSE End(p)
Destroyed(p, ok) == IF invocation[p].command = "reap" THEN Goto(p, "next") ELSE End(p)

\* destroy: an unknown box fails; the container goes before the record.
Destroy(p) ==
  /\ At(p, "destroy")
  /\ LET i == invocation[p].box IN
     \/ /\ entries[i] = NoEntry /\ Fine /\ Destroyed(p, FALSE) /\ UNCHANGED <<daemon, crossed>>
     \/ /\ entries[i] # NoEntry /\ invocation[p].sandbox # "docker"
        /\ Fine /\ Goto(p, "forget") /\ Crossing(p, i) /\ UNCHANGED daemon
     \/ /\ entries[i] # NoEntry /\ invocation[p].sandbox = "docker" /\ i \notin stuck
        /\ Fine /\ Goto(p, "forget")
        /\ daemon' = [daemon EXCEPT ![i] = 0] /\ Crossing(p, i)
     \/ /\ entries[i] # NoEntry /\ invocation[p].sandbox = "docker"
        /\ Mishap \/ (i \in stuck /\ Fine)
        /\ Destroyed(p, FALSE) /\ UNCHANGED <<daemon, crossed>>
  /\ UNCHANGED <<entries, clock, created, stuck, invocations>>

Forget(p) ==
  /\ At(p, "forget")
  /\ LET i == invocation[p].box IN
     \/ /\ Fine /\ entries' = [entries EXCEPT ![i] = NoEntry] /\ Destroyed(p, entries[i] # NoEntry)
        /\ Crossing(p, i)
     \/ Mishap /\ Destroyed(p, FALSE) /\ UNCHANGED <<entries, crossed>>
  /\ UNCHANGED <<daemon, clock, created, stuck, invocations>>

Tick ==
  /\ clock < MaxNow /\ clock' = clock + 1
  /\ UNCHANGED <<entries, daemon, invocation, created, stuck, crossed, invocations, mishaps>>

Next ==
  \/ \E p \in Processes :
       \/ Create(p) \/ CreateContainer(p) \/ Created(p) \/ Rm(p) \/ Destroy(p) \/ Forget(p)
  \/ Reap \/ ReapNext \/ Tick

\* Reap is run again and again, and what is running goes on.
Reaping == Reap \/ ReapNext \/ Destroy(Reaper) \/ Forget(Reaper)

Spec == Init /\ [][Next]_vars /\ WF_vars(Reaping)
---------------------------------------------------------------------------
TypeOK ==
  /\ entries \in [BoxIds -> [sandbox : Kinds \cup {"none"}, born : 0 .. created, expires : 0 .. Never]]
  /\ daemon \in [BoxIds -> 0 .. created] /\ crossed \subseteq BoxIds
  /\ \A p \in Processes : invocation[p].todo \subseteq BoxIds

\* A container belongs to a recorded box ("a container without a record is a
\* leak"): whichever commands run at a time and wherever one of them fails, unless
\* a destroy crossed with the creation of its box, or went on with an identifier
\* that had been reissued meanwhile.
ContainerIsRecorded ==
  \A i \in BoxIds \ crossed : daemon[i] # 0 => entries[i].born = daemon[i] /\ entries[i].sandbox = "docker"

\* The box of creation b has expired, and its daemon answers; it is gone, or an
\* expired box that cannot be built ends every reap.
Overdue(b) == \E i \in BoxIds : is_expired(entries[i]) /\ entries[i].born = b /\ i \notin stuck
Blocked == \E i \in BoxIds : is_expired(entries[i]) /\ ~Builds(entries[i].sandbox)
Settled(b) == Blocked \/ \A i \in BoxIds : entries[i].born # b

\* Every expired box that this build can construct and whose daemon answers is
\* eventually reaped, however many others fail ("one unreachable box must not
\* strand every other expired one"); not so one that comes after an expired box
\* that cannot be built, which ends every reap.
ExpiredIsReaped == \A b \in 1 .. MaxInvocations : Overdue(b) ~> Settled(b)
=============================================================================
