------------------------- MODULE ResourcesInvariant -------------------------
(***************************************************************************)
(* The inductive invariant behind the properties of Resources: what the    *)
(* steps of an operation may rely on between one lock section and the      *)
(* next.                                                                   *)
(***************************************************************************)
EXTENDS Resources

\* Reserve mints each id once, and a handle keeps a target that was published.
Minted ==
  /\ \A i \in Ids : kind[i] = "none" <=> i > next
  /\ \A i \in Ids : kind[i] \in {"Process", "Forward"} =>
       of[i] \in Ids /\ kind[of[i]] = "Resource" /\ of[i] \notin reservations

\* Every id is used for what it was reserved for.
Kinded ==
  /\ \A i \in reservations : kind[i] # "none"
  /\ \A r \in entries \cup destroyed \cup closed :
       kind[r] = "Resource" /\ r \notin reservations
  /\ \A p \in alive : kind[p] = "Process"
  /\ \A p \in Ids : processes[p] # "absent" \/ pending[p] # "no" =>
       kind[p] = "Process"
  /\ \A f \in forwards \cup tunnels : kind[f] = "Forward"

\* The slot mutex: a task holds it exactly while it is at a holding place.
Mutex ==
  \A c \in Calls, r \in Ids :
    guard[r] = c <=> call[c].at \in Holding /\ call[c].r = r

\* What each task works on, where it is.
WorkingOn(c) ==
  LET at == call[c].at  r == call[c].r  p == call[c].p IN
  /\ at \in CreateAt \cup SpawnAt \cup ExecAt \cup CancelAt \cup ForwardAt
              \cup CloseAt => r \in Ids /\ kind[r] # "none"
  /\ at \in SpawnAt \cup CancelAt \cup ForwardAt =>
       p \in Ids /\ kind[p] # "none"
  /\ at \in SpawnAt => /\ kind[p] = "Process" /\ of[p] = r
                       /\ p \notin reservations /\ pending[p] # "no"
  /\ at \in CancelAt => p \notin reservations /\ pending[p] # "live"
  /\ at = "unforward.lock" => p \notin reservations
  /\ at \in CloseAt => /\ kind[r] = "Resource" /\ r \notin reservations
                       /\ r \in entries => r \in closing

Working == \A c \in Calls : WorkingOn(c)

\* Between its sections a task finds the slot as it left it.
HeldBy(c) ==
  LET at == call[c].at  r == call[c].r  p == call[c].p IN
  /\ at \in CreateAt => r \in entries /\ r \notin destroyed
  /\ at \in CreateAt \ {"create.ports"} => r \notin slot
  /\ at \in {"create.ports", "spawn.start", "spawn.stop", "exec.await",
             "exec.remove", "cancel.stop", "forward.ports", "forward.open",
             "forward.publish", "close.stop", "close.check",
             "close.destroy"} => r \in slot
  /\ at = "spawn.start" => backend[r] \in {"docker", "remote"}
  /\ at \in {"spawn.start", "spawn.stop"} => r \notin destroyed
  /\ at = "spawn.stop" => backend[r] = "docker"
  /\ at \in {"spawn.start", "spawn.stop"} /\ backend[r] = "docker" =>
       processes[p] = "owned"
  /\ at = "cancel.stop" => p \in TrackedOf(r)
  /\ at \in {"forward.ports", "forward.open", "forward.publish"} =>
       p \in ForwardsOf(r) \ forwards
  /\ at \in {"close.unlist", "close.reopen"} => r \notin slot
  /\ at = "close.reopen" => r \notin entries

Held == \A c \in Calls : HeldBy(c)

\* One startup for each process id.
OneStartup ==
  \A c, d \in Calls :
    call[c].at \in SpawnAt /\ call[d].at \in SpawnAt
      /\ call[c].p = call[d].p => c = d

\* What a slot owns, and what it has let go.
Slots ==
  /\ slot \subseteq entries /\ \A r \in entries : backend[r] # "none"
  /\ boxes \subseteq slot /\ commands \subseteq slot
  /\ boxes \cap destroyed = {}
  /\ slot \cap destroyed \subseteq closing
  /\ \A p \in Ids : processes[p] # "absent" => of[p] \in slot
  /\ \A p \in alive : of[p] \in destroyed =>
       backend[of[p]] \in {"local", "remote"}
  /\ \A p \in alive : Supervised(p) => processes[p] = "owned"
  /\ \A f \in forwards \cup tunnels : of[f] \in slot
  /\ \A f \in tunnels \ forwards :
       \E c \in Calls : call[c].at = "forward.publish" /\ call[c].p = f

\* How far a Close has got.
ClosingBy(c) ==
  LET at == call[c].at  r == call[c].r IN
  /\ at \in {"close.check", "close.destroy", "close.retire"} =>
       \A f \in forwards : of[f] # r
  /\ at = "close.check" /\ backend[r] = "docker" => r \in destroyed
  /\ (at = "close.destroy" /\ backend[r] # "docker") \/ at = "close.retire" =>
       r \notin commands /\ \A p \in ProcessesOf(r) : processes[p] = "absent"
  /\ at = "close.retire" => r \notin boxes

Closing == \A c \in Calls : ClosingBy(c)

\* What an acknowledged Cancel, CloseForward or Close rules out.
Acknowledged ==
  /\ \A i \in cancelled :
       /\ kind[i] \in {"Process", "Forward"}
       /\ i \notin reservations \cup tunnels \cup forwards
       /\ pending[i] # "live"
       /\ i \in alive => ~Supervised(i)
       /\ \A c \in Calls :
            call[c].at \in {"spawn.start", "spawn.stop", "forward.open",
                            "forward.publish"} => call[c].p # i
  /\ closed \cap entries = {}

\* Shutdown: everything still registered is ahead of the loop or has failed.
SweepingBy(c) ==
  /\ call[c].at \in DownAt => sweep[c].active
  /\ sweep[c].active => shutdown /\ call[c].at \in CloseAt \cup DownAt
  /\ sweep[c].active /\ ~sweep[c].failed =>
       entries \subseteq sweep[c].todo
         \cup (IF call[c].at \in CloseAt THEN {call[c].r} ELSE {})
  /\ call[c].at \in DownAt \ {"down.next"} => sweep[c].todo = {}

Sweeping ==
  /\ shutdown => reservations = {}
  /\ down => shutdown /\ entries = {} /\ \A p \in Ids : pending[p] = "no"
  /\ \A c \in Calls : SweepingBy(c)

\* The strengthening that every step of the registry preserves.
IndInv ==
  /\ TypeOK /\ Minted /\ Kinded /\ Mutex /\ Working /\ Held /\ OneStartup
  /\ Slots /\ Closing /\ Acknowledged /\ Sweeping

=============================================================================
