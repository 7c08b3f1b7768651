---------------------------- MODULE MCComponents ----------------------------
(***************************************************************************)
(* The components that share nothing with each other, one at a time: `part` *)
(* says which of them a behaviour is of, and the variables of the others    *)
(* are unused in it.  Remote executions and Docker boxes; the box store's   *)
(* opening, the gateway boxes and the CLI; jails, their policies and their   *)
(* grants; workspace sync, detached jobs, tunnels, one-shot containers and   *)
(* the shell scanners.                                                      *)
(***************************************************************************)
EXTENDS Naturals, Sequences, FiniteSets, TLC

CONSTANTS
  Cleaners, MaxCreates, MaxFaults, MaxCrashes, Foreign,
  Openers, Boxes, JailIndexes, TemplateNames, MaxWrites, MaxCommands,
  Keepers, Minting, MaxStarts, MaxTries, MaxLosses,
  Users, Reaper, MaxBox, MaxInvocations, MaxNow, MaxMishaps,
  MaxSecond, MaxCount, MaxBirths, Labels, Elsewhere, MaxTroubles,
  Files, Derived, Texts, MaxEdits, MaxSyncs, MaxDrops,
  Callers, MaxPid, MaxSpawns, MaxStops, MaxCuts,
  Polls, Runs, MaxFailures,
  MaxPieces, MaxLines, MaxArguments

VARIABLES
  part,
  client, entry, prepare, wrapper, leader, members, place, files, cleaner, asked, torn,
  caller, purpose, launched, ack, journal, destroyed, sent, answer, ctl, supervisor,
  group, watcher,
  pc, doing, attempt, record, filtered, remembered, ctr, net, chain, hooked, mine, step,
  faults, crashes,
  v1, rows, source, migrated, imported, opener, latest, touched, writes, commands,
  opened, boxes, inserted, pods, strangers, slot, task, starts, minted, unheard, losses,
  entries, daemon, invocation, clock, created, stuck, crossed, invocations, mishaps,
  jails, index, dirs, second, count, job, sweep, births, doubt, troubles,
  request, jail, links, at, rules, confined,
  aliases, includes, config, todo, fixed, visited, read_only, read_write, result,
  local, far, marker, syncing, edits, syncs, drops,
  checks, holder, pidFile, call, spawned, stopped, spawns, stops, cuts,
  opening, ssh, squatter, polls,
  shot, container, listed, missed, sweeping, failures,
  lines, kinds, line, pending, argv, cwd

sshTuple == <<client, entry, prepare, wrapper, leader, members, place, files, cleaner,
  asked, torn>>
execTuple == <<caller, purpose, launched, ack, journal, destroyed, sent, answer, ctl,
  supervisor, group, watcher>>
boxTuple == <<pc, doing, attempt, record, filtered, remembered, ctr, net, chain, hooked,
  mine, step, faults, crashes>>
remoteTuple == <<sshTuple, execTuple, boxTuple>>
openingTuple == <<v1, rows, source, migrated, imported, opener, latest, touched, writes,
  commands>>
gatewayTuple == <<opened, boxes, inserted, pods, strangers, slot, task, starts, minted,
  unheard, losses>>
cliTuple == <<entries, daemon, invocation, clock, created, stuck, crossed, invocations,
  mishaps>>
storesTuple == <<openingTuple, gatewayTuple, cliTuple>>
jailsTuple == <<jails, index, dirs, second, count, job, sweep, births, doubt, troubles>>
policyTuple == <<request, jail, links, at, rules, confined>>
grantsTuple == <<aliases, includes, config, todo, fixed, visited, read_only, read_write,
  result>>
jailingTuple == <<jailsTuple, policyTuple, grantsTuple>>
syncTuple == <<local, far, marker, syncing, edits, syncs, drops>>
detachedTuple == <<checks, holder, pidFile, call, spawned, stopped, spawns, stops,
  cuts>>
tunnelTuple == <<opening, ssh, squatter, polls>>
oneshotTuple == <<shot, container, listed, missed, sweeping, failures>>
shellTuple == <<lines, kinds, line, pending, argv, cwd>>
hostsTuple == <<syncTuple, detachedTuple, tunnelTuple, oneshotTuple, shellTuple>>
vars == <<part, remoteTuple, storesTuple, jailingTuple, hostsTuple>>

------------------------------------------------------------------------------
\* Constants that a configuration file cannot write down.

Families == <<"iptables", "ip6tables">>

\* StoreOpening: two boxes as the CLI keeps them, with a lifetime
Infos ==
  {[state |-> "ready", created_at |-> [secs |-> 1, nanos |-> n],
    spec |-> [rest |-> "r", lifecycle |-> [kind |-> "ephemeral", span |-> [secs |-> 1, nanos |-> 0]]]] :
     n \in {0, 2}}

\* JailPolicy: /w is the workspace, /w/l and /bin are links, /w/a may become one
PolicyDirs ==
  {<<>>, <<"usr">>, <<"usr", "bin">>, <<"w">>, <<"w", "a">>, <<"w", "a", "b">>, <<"tmp">>,
   <<"h">>, <<"proc">>}
PolicyPlain == {<<"w", "k">>}
Aliases == (<<"bin">> :> <<"usr", "bin">>) @@ (<<"w", "l">> :> <<"h">>)
Planted == <<"w", "a">> :> <<"h">>
Roots == {<<"w">>}
Grants == {<<"w", "a">>, <<"w", "a", "b">>, <<"w", "l">>, <<"usr">>, <<"h">>}
Denials == {<<"w", "a">>, <<"w", "k">>, <<"w", "n">>, <<"bin">>, <<"h">>}

\* LocalGrants: a home with a workspace, dotfiles, keys and a Cargo home with a token
H(p) == <<"h">> \o p
GrantDirs ==
  {<<>>, <<"opt">>, <<"proc">>, <<"h">>} \cup
  {H(p) : p \in {<<"cargo">>, <<"cargo", "bin">>, <<"dots">>, <<"work">>, <<"keys">>, <<"git">>}}
GrantPlain ==
  {H(p) : p \in {<<"gitconfig">>, <<"dots", "git">>, <<"work", "inc">>, <<"keys", "k">>, <<"cargo", "token">>}}
Unreadable == {<<"opt">>}
LinkSets ==
  {H(<<"l">>) :> H(<<"work">>), H(<<"l">>) :> H(<<"keys">>),
   H(<<"work", "inc">>) :> H(<<"dots", "git">>), H(<<"gitconfig">>) :> H(<<"dots", "git">>)}
Target(kind, path) == [kind |-> kind, path |-> path]
OneTarget ==
  {<<>>} \cup {<<t>> : t \in {Target("relative", <<"work", "inc">>), Target("absolute", H(<<"l", "new">>)),
                             Target("home", <<"dots", "git">>), Target("unsupported", <<>>)}}
TwoTargets == <<Target("relative", <<"work", "inc">>), Target("absolute", H(<<"l", "new">>))>>
Includes ==
  {[p \in GrantPlain |-> IF p = H(<<"gitconfig">>) THEN a ELSE IF p = H(<<"dots", "git">>) THEN b ELSE <<>>] :
     a \in OneTarget \cup {TwoTargets}, b \in OneTarget}
Credentials == {H(<<"keys">>)}
Components == {"secret"}
Pairs == {<<"cargo", "token">>}
Readable == {H(<<"cargo">>)}
Writable == {H(<<"work">>), H(<<"dots">>), H(<<"l">>)}

\* ShellScan: what the lines, the bodies and the arguments are made of
Piece(text, opens, redirects) ==
  [text |-> text, opens |-> opens, redirects |-> redirects, last |-> FALSE, covered |-> TRUE]
Doc(word, quoted, tabs) == [word |-> word, quoted |-> quoted, tabs |-> tabs]
Pieces ==
  {Piece(<<"c", " ">>, <<>>, FALSE), Piece(<<">", "o", ";">>, <<>>, TRUE),
   Piece(<<"'", ">", "\\", "'", " ">>, <<>>, FALSE),
   Piece(<<"\"", "\\", "\"", "<", "<", "E", "\"", " ">>, <<>>, FALSE),
   Piece(<<"\\", ">", "&", "&">>, <<>>, FALSE),
   Piece(<<"<", "<", "<", "E", " ">>, <<>>, FALSE),
   Piece(<<"<", "<", "E", "|">>, <<Doc(<<"E">>, FALSE, FALSE)>>, FALSE),
   Piece(<<"<", "<", "'", "E", "'", "F", " ">>, <<Doc(<<"E", "F">>, TRUE, FALSE)>>, FALSE),
   Piece(<<"<", "<", "-", " ", "\\", "E", ";">>, <<Doc(<<"E">>, TRUE, TRUE)>>, FALSE),
   [Piece(<<" ", "#", "<", "<", "E">>, <<>>, FALSE) EXCEPT !.last = TRUE, !.covered = FALSE],
   [Piece(<<"$", "(", "(", "1", "<", "<", "E", ")", ")", " ">>, <<>>, FALSE) EXCEPT !.covered = FALSE]}
Bodies == {<<"x", ">">>, <<"<", "<", "'", "F", "'">>, <<"\t", "E">>, <<"E", "F">>}
Arguments == {<<"a">>, <<"'", "\\">>, <<";", "\"", " ">>, <<"&", "&", "'">>}

------------------------------------------------------------------------------
Ssh == INSTANCE SshObserved
Exec == INSTANCE DockerObserved
Box == INSTANCE DockerBox
Opening == INSTANCE StoreOpening
Gateway == INSTANCE GatewayBoxes
Commands == INSTANCE Cli
Jails == INSTANCE JailRegistry
Policy == INSTANCE JailPolicy WITH Dirs <- PolicyDirs, Plain <- PolicyPlain
Granting == INSTANCE LocalGrants WITH
  links <- aliases, Dirs <- GrantDirs, Plain <- GrantPlain
Sync == INSTANCE WorkspaceSync
Detach == INSTANCE Detached
Forward == INSTANCE Tunnel
Shots == INSTANCE OneShot
Shell == INSTANCE ShellScan

Unused == "unused"
SshInit ==
  IF part = "ssh" THEN Ssh!Init
  ELSE client = Unused /\ entry = Unused /\ prepare = Unused /\ wrapper = Unused /\
    leader = Unused /\ members = Unused /\ place = Unused /\ files = Unused /\ cleaner =
    Unused /\ asked = Unused /\ torn = Unused
ExecInit ==
  IF part = "exec" THEN Exec!Init
  ELSE caller = Unused /\ purpose = Unused /\ launched = Unused /\ ack = Unused /\
    journal = Unused /\ destroyed = Unused /\ sent = Unused /\ answer = Unused /\ ctl =
    Unused /\ supervisor = Unused /\ group = Unused /\ watcher = Unused
BoxInit ==
  IF part = "box" THEN Box!Init
  ELSE pc = Unused /\ doing = Unused /\ attempt = Unused /\ record = Unused /\ filtered
    = Unused /\ remembered = Unused /\ ctr = Unused /\ net = Unused /\ chain = Unused /\
    hooked = Unused /\ mine = Unused /\ step = Unused /\ faults = Unused /\ crashes =
    Unused
\* A bound: templates to import only where there are no boxes to take over yet.
OpeningInit ==
  IF part = "opening"
  THEN Opening!Init /\ (source.templates # Opening!NoFile =>
         source.boxes = Opening!NoFile /\ \A d \in DOMAIN v1 : v1[d] = Opening!Absent)
  ELSE v1 = Unused /\ rows = Unused /\ source = Unused /\ migrated = Unused /\ imported
    = Unused /\ opener = Unused /\ latest = Unused /\ touched = Unused /\ writes =
    Unused /\ commands = Unused
GatewayInit ==
  IF part = "gateway" THEN Gateway!Init
  ELSE opened = Unused /\ boxes = Unused /\ inserted = Unused /\ pods = Unused /\
    strangers = Unused /\ slot = Unused /\ task = Unused /\ starts = Unused /\ minted =
    Unused /\ unheard = Unused /\ losses = Unused
CommandsInit ==
  IF part = "cli" THEN Commands!Init
  ELSE entries = Unused /\ daemon = Unused /\ invocation = Unused /\ clock = Unused /\
    created = Unused /\ stuck = Unused /\ crossed = Unused /\ invocations = Unused /\
    mishaps = Unused
JailsInit ==
  IF part = "jails" THEN Jails!Init
  ELSE jails = Unused /\ index = Unused /\ dirs = Unused /\ second = Unused /\ count =
    Unused /\ job = Unused /\ sweep = Unused /\ births = Unused /\ doubt = Unused /\
    troubles = Unused
PolicyInit ==
  IF part = "policy" THEN Policy!Init
  ELSE request = Unused /\ jail = Unused /\ links = Unused /\ at = Unused /\ rules =
    Unused /\ confined = Unused
GrantingInit ==
  IF part = "grants" THEN Granting!Init
  ELSE aliases = Unused /\ includes = Unused /\ config = Unused /\ todo = Unused /\
    fixed = Unused /\ visited = Unused /\ read_only = Unused /\ read_write = Unused /\
    result = Unused
SyncInit ==
  IF part = "sync" THEN Sync!Init
  ELSE local = Unused /\ far = Unused /\ marker = Unused /\ syncing = Unused /\ edits =
    Unused /\ syncs = Unused /\ drops = Unused
DetachInit ==
  IF part = "detached" THEN Detach!Init
  ELSE checks = Unused /\ holder = Unused /\ pidFile = Unused /\ call = Unused /\
    spawned = Unused /\ stopped = Unused /\ spawns = Unused /\ stops = Unused /\ cuts =
    Unused
ForwardInit ==
  IF part = "tunnel" THEN Forward!Init
  ELSE opening = Unused /\ ssh = Unused /\ squatter = Unused /\ polls = Unused
ShotsInit ==
  IF part = "oneshot" THEN Shots!Init
  ELSE shot = Unused /\ container = Unused /\ listed = Unused /\ missed = Unused /\
    sweeping = Unused /\ failures = Unused
ShellInit ==
  IF part = "shell" THEN Shell!Init
  ELSE lines = Unused /\ kinds = Unused /\ line = Unused /\ pending = Unused /\ argv =
    Unused /\ cwd = Unused

Init ==
  /\ part \in {"ssh", "exec", "box", "opening", "gateway", "cli", "jails", 
               "policy", "grants", "sync", "detached", "tunnel", "oneshot", "shell"}
  /\ SshInit /\ ExecInit /\ BoxInit /\ OpeningInit /\ GatewayInit
  /\ CommandsInit /\ JailsInit /\ PolicyInit /\ GrantingInit /\ SyncInit
  /\ DetachInit /\ ForwardInit /\ ShotsInit /\ ShellInit

InSsh == part = "ssh" /\ UNCHANGED <<part, storesTuple, jailingTuple, hostsTuple,
  execTuple, boxTuple>>
InExec == part = "exec" /\ UNCHANGED <<part, storesTuple, jailingTuple, hostsTuple,
  sshTuple, boxTuple>>
InBox == part = "box" /\ UNCHANGED <<part, storesTuple, jailingTuple, hostsTuple,
  sshTuple, execTuple>>
InOpening == part = "opening" /\ UNCHANGED <<part, remoteTuple, jailingTuple,
  hostsTuple, gatewayTuple, cliTuple>>
InGateway == part = "gateway" /\ UNCHANGED <<part, remoteTuple, jailingTuple,
  hostsTuple, openingTuple, cliTuple>>
InCommands == part = "cli" /\ UNCHANGED <<part, remoteTuple, jailingTuple, hostsTuple,
  openingTuple, gatewayTuple>>
InJails == part = "jails" /\ UNCHANGED <<part, remoteTuple, storesTuple, hostsTuple,
  policyTuple, grantsTuple>>
InPolicy == part = "policy" /\ UNCHANGED <<part, remoteTuple, storesTuple, hostsTuple,
  jailsTuple, grantsTuple>>
InGranting == part = "grants" /\ UNCHANGED <<part, remoteTuple, storesTuple, hostsTuple,
  jailsTuple, policyTuple>>
InSync == part = "sync" /\ UNCHANGED <<part, remoteTuple, storesTuple, jailingTuple,
  detachedTuple, tunnelTuple, oneshotTuple, shellTuple>>
InDetach == part = "detached" /\ UNCHANGED <<part, remoteTuple, storesTuple,
  jailingTuple, syncTuple, tunnelTuple, oneshotTuple, shellTuple>>
InForward == part = "tunnel" /\ UNCHANGED <<part, remoteTuple, storesTuple,
  jailingTuple, syncTuple, detachedTuple, oneshotTuple, shellTuple>>
InShots == part = "oneshot" /\ UNCHANGED <<part, remoteTuple, storesTuple, jailingTuple,
  syncTuple, detachedTuple, tunnelTuple, shellTuple>>
InShell == part = "shell" /\ UNCHANGED <<part, remoteTuple, storesTuple, jailingTuple,
  syncTuple, detachedTuple, tunnelTuple, oneshotTuple>>

Next ==
  \/ InSsh /\ Ssh!Next
  \/ InExec /\ Exec!Next
  \/ InBox /\ Box!Next
  \/ InOpening /\ Opening!Next
  \/ InGateway /\ Gateway!Next
  \/ InCommands /\ Commands!Next
  \/ InJails /\ Jails!Next
  \/ InPolicy /\ Policy!Next
  \/ InGranting /\ Granting!Next
  \/ InSync /\ Sync!Next
  \/ InDetach /\ Detach!Next
  \/ InForward /\ Forward!Next
  \/ InShots /\ Shots!Next
  \/ InShell /\ Shell!Next

\* DestroyFinishes repeats a destroy until the box is gone; the reaper is run again
\* and again (the CLI's documentation asks for a timer).
Spec ==
  /\ Init /\ [][Next]_vars
  /\ WF_vars(InBox /\ Box!Running) /\ WF_vars(InBox /\ Box!Destroy)
  /\ WF_vars(InCommands /\ Commands!Reaping)

------------------------------------------------------------------------------
\* Over SSH: a released execution has nothing left on the far machine.
ReleasedIsGone == part = "ssh" => Ssh!ReleasedIsGone

\* In a Docker box: an acknowledged workload is gone for good.
AcknowledgedIsGone == part = "exec" => Exec!AcknowledgedIsGone

\* In a Docker box: a workload whose call has ended is in the journal.
WorkloadIsJournalled == part = "exec" => Exec!WorkloadIsJournalled

\* An allowlisted container exists only behind its complete filter.
RunningIsFiltered == part = "box" => Box!RunningIsFiltered

\* What a create attempt made on the host belongs to a recorded box.
NothingLeaks == part = "box" => Box!NothingLeaks

\* Another attempt's container is not removed.
ForeignUntouched == [][part = "box" => (ctr = Foreign /\ crashes = 0 => ctr' = Foreign)]_vars

\* A recorded box whose destroy is repeated is eventually gone.
DestroyFinishes ==
  (part = "box" /\ record) ~> (part = "box" => ~record \/ Box!Unowned \/ (ctr = Foreign /\ remembered # 0))

\* What an older version wrote survives every opening of the store, and what the
\* jail registry shows is what a restart will find.
RecordsAreKept ==
  /\ part = "opening" => Opening!NothingLost
  /\ part = "jails" => Jails!ShownIsStored

\* A resource removes only records that it has inserted itself.
RemovesItsOwn == [][part = "gateway" => Gateway!OwnRemoval]_vars

\* What runs on a gateway or in the CLI's Docker daemon has a record that leads to it.
BackendIsRecorded ==
  /\ part = "gateway" => Gateway!PodIsRecorded
  /\ part = "cli" => Commands!ContainerIsRecorded

\* A box past its time to live is reaped, whatever the others do.
ExpiredIsReaped ==
  \A b \in 1 .. MaxInvocations :
    (part = "cli" /\ Commands!Overdue(b)) ~> (part = "cli" => Commands!Settled(b))

\* The far marker is written after the tree that it stands for.
MarkerComesLast == part = "sync" => Sync!MarkerComesLast

\* Nothing that was started on a host is out of reach: a job, a forward, a container.
NothingStranded ==
  /\ part = "detached" => Detach!JobIsReachable
  /\ part = "tunnel" => Forward!SshIsHeld
  /\ part = "oneshot" => Shots!RunTakesItsContainer

\* A jailed program sees what the request grants, and discovery grants nothing that
\* the floor protects.
JailHolds ==
  /\ part = "policy" => Policy!RunsAsGranted
  /\ part = "grants" => Granting!GrantsKeepFloor

\* The scanners find exactly the heredocs, redirections and segments a shell would,
\* and a shell reads quoted words back as they were.
ShellIsExact == part = "shell" => Shell!HeredocsExact /\ Shell!SegmentsWhole /\ Shell!WordsVerbatim
==============================================================================
