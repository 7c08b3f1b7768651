----------------------------- MODULE SshObserved -----------------------------
(***************************************************************************)
(* One observed execution over SSH (tinybox-ssh/src/host/mod.rs and         *)
(* host/observed.rs): the client that reserves, launches and cleans up, and *)
(* the three shell programs it sends, which run on the far machine and meet *)
(* in a private directory.  Any reply may be lost, and a program whose      *)
(* reply is lost goes on running.                                           *)
(***************************************************************************)
EXTENDS FiniteSets

CONSTANT Cleaners   \* cleanup programs that may run at the same time

VARIABLES
  client,    \* where run_observed_owned is
  entry,     \* RemoteCleanupState: "none", "held", "pending", "released"
  prepare,   \* prepare_request: "unsent", "sent", "mkdir", "ready", "failed"
  wrapper,   \* the wrapper: "unsent", then where it is, or "exited"
  leader,    \* the session leader: "none", "forked", "open", "run",
             \* "idle" (asleep after its command), "dead"
  members,   \* other members of its group are alive
  place,     \* the directory: "none", "dir", or renamed to "claim"
  files,     \* its files; "pid.open" is a pid file still empty
  cleaner,   \* per cleanup program: where it is, or what it answered
  asked,     \* the cleanup program the client waits for
  torn       \* the directory was claimed while the pid file was empty

remote == <<prepare, wrapper, leader, members, place, files, torn>>
sshVars == <<client, entry, remote, cleaner, asked>>

Init ==
  /\ client = "probe" /\ entry = "none"
  /\ prepare = "unsent" /\ wrapper = "unsent" /\ leader = "none" /\ members = FALSE
  /\ place = "none" /\ files = {}
  /\ cleaner = [k \in Cleaners |-> "idle"] /\ asked \in Cleaners
  /\ torn = FALSE

GroupExists == leader \in {"open", "run", "idle"} \/ members
WrapperRuns == wrapper \notin {"unsent", "sent", "exited"}
Mine(where) == place = where /\ "owner" \in files

-----------------------------------------------------------------------------
(* prepare_request: the directory, then its owner. *)
Prepare ==
  /\ \/ /\ prepare = "sent"
        /\ IF place = "none" THEN prepare' = "mkdir" /\ place' = "dir" /\ files' = {}
                             ELSE prepare' = "failed" /\ UNCHANGED <<place, files>>
     \/ /\ prepare = "mkdir" /\ place = "dir"
        /\ \/ prepare' = "ready" /\ files' = files \cup {"owner"} /\ UNCHANGED place
           \/ prepare' = "failed" /\ files' = {} /\ place' = "none"
     \/ prepare = "mkdir" /\ place # "dir" /\ prepare' = "failed" /\ UNCHANGED <<place, files>>
  /\ UNCHANGED <<client, entry, wrapper, leader, members, cleaner, asked, torn>>

(* request: the wrapper checks the directory, marks it, checks it again, and
   only then launches the session. *)
WrapperStart ==
  /\ \/ wrapper = "sent" /\ wrapper' = (IF Mine("dir") THEN "mark" ELSE "exited") /\ UNCHANGED files
     \/ /\ wrapper = "mark"
        /\ IF place = "dir" THEN wrapper' = "check" /\ files' = files \cup {"wrapper"}
                            ELSE wrapper' = "exited" /\ UNCHANGED files
     \/ wrapper = "check" /\ wrapper' = (IF Mine("dir") THEN "launch" ELSE "exited") /\ UNCHANGED files
  /\ UNCHANGED <<client, entry, prepare, leader, members, place, cleaner, asked, torn>>

WrapperLaunch ==
  /\ wrapper = "launch"
  /\ wrapper' = "watch" /\ leader' = "forked"
  /\ UNCHANGED <<client, entry, prepare, members, place, files, cleaner, asked, torn>>

\* It waits for the pid file and then for the status, or for the end of the
\* launcher, and reads the group from the pid file.
WrapperWatch ==
  /\ wrapper = "watch"
  /\ \/ /\ leader = "dead" \/ (place = "dir" /\ "status" \in files)
        /\ wrapper' = IF place = "dir" /\ "pid" \in files THEN "reap" ELSE "exited"
        /\ UNCHANGED <<leader, members>>
     \/ /\ ~(place = "dir" /\ files \cap {"pid.open", "pid"} # {})      \* ten seconds without it
        /\ wrapper' = "exited" /\ leader' = "dead" /\ members' = (members \/ leader = "run")
  /\ UNCHANGED <<client, entry, prepare, place, files, cleaner, asked, torn>>

WrapperReap ==
  /\ \/ /\ wrapper = "reap" /\ wrapper' = "remove"
        /\ leader' = "dead" /\ members' = FALSE /\ UNCHANGED <<place, files>>
     \/ /\ wrapper = "remove" /\ wrapper' = "exited"
        /\ IF place = "dir" THEN place' = "none" /\ files' = {} ELSE UNCHANGED <<place, files>>
        /\ UNCHANGED <<leader, members>>
  /\ UNCHANGED <<client, entry, prepare, cleaner, asked, torn>>

WrapperDies ==
  /\ WrapperRuns /\ wrapper' = "exited"
  /\ UNCHANGED <<client, entry, prepare, leader, members, place, files, cleaner, asked, torn>>

\* The session leader: the pid file is opened, then written, then the command
\* runs; the leader outlives its command while the group has other members.
Leader ==
  /\ \/ /\ leader = "forked"
        /\ IF place = "dir" THEN leader' = "open" /\ files' = files \cup {"pid.open"}
                            ELSE leader' = "dead" /\ UNCHANGED files
        /\ UNCHANGED members
     \/ /\ leader = "open" /\ leader' = "run"
        /\ files' = IF "pid.open" \in files THEN (files \ {"pid.open"}) \cup {"pid"} ELSE files
        /\ UNCHANGED members
     \/ leader = "run" /\ ~members /\ members' = TRUE /\ UNCHANGED <<leader, files>>
     \/ /\ leader = "run"                              \* the command ends
        /\ IF place = "dir"
             THEN leader' \in {"idle"} \cup (IF members THEN {} ELSE {"dead"}) /\ files' = files \cup {"status"}
             ELSE leader' = "idle" /\ UNCHANGED files
        /\ UNCHANGED members
     \/ members /\ members' = FALSE /\ UNCHANGED <<leader, files>>
  /\ UNCHANGED <<client, entry, prepare, wrapper, place, cleaner, asked, torn>>

-----------------------------------------------------------------------------
(* cleanup_request. *)

\* wrapper_state: 0 running, 1 gone, 3 not marked
Inactive == ~("wrapper" \in files /\ WrapperRuns)
CleanGo(k, to) == cleaner' = [cleaner EXCEPT ![k] = to]

CleanStart(k) ==
  /\ cleaner[k] = "start"
  /\ CleanGo(k, IF place = "claim" THEN "reclaim" ELSE IF ~Mine("dir") THEN "clean" ELSE "pid")
  /\ UNCHANGED <<client, entry, asked, remote>>

\* It waits for a pid file, for at most ten seconds.
CleanPid(k) ==
  /\ cleaner[k] = "pid"
  /\ CleanGo(k, IF place = "dir" /\ "pid" \in files THEN "look"
                ELSE IF place = "dir" /\ "pid.open" \in files THEN "pending" ELSE "reclaim")
  /\ UNCHANGED <<client, entry, asked, remote>>

\* With a live wrapper and a group whose leader is its own, it signals the group.
CleanLook(k) ==
  /\ cleaner[k] = "look"
  /\ \/ /\ (place # "dir" \/ Inactive \/ ~GroupExists) /\ CleanGo(k, "reclaim")
        /\ UNCHANGED <<leader, members>>
     \/ /\ place = "dir" /\ ~Inactive /\ GroupExists
        /\ IF leader \in {"run", "idle"}
             THEN members' \in {members, FALSE} /\ CleanGo(k, "kill")
             ELSE UNCHANGED members /\ CleanGo(k, "pending")
        /\ UNCHANGED leader
  /\ UNCHANGED <<client, entry, asked, prepare, wrapper, place, files, torn>>

CleanKill(k) ==
  /\ cleaner[k] = "kill"
  /\ \/ place = "dir" /\ leader' = "dead" /\ members' = FALSE
     \/ place # "dir" /\ UNCHANGED <<leader, members>>
  /\ CleanGo(k, "gone")
  /\ UNCHANGED <<client, entry, asked, prepare, wrapper, place, files, torn>>

CleanGone(k) ==
  /\ cleaner[k] = "gone"
  /\ CleanGo(k, IF place = "dir" THEN "reclaim" ELSE "clean")
  /\ UNCHANGED <<client, entry, asked, remote>>

\* reclaim_if_inactive: nobody uses the directory, so it is renamed.
Reclaim(k) ==
  /\ cleaner[k] = "reclaim"
  /\ \/ /\ place = "claim"
        /\ IF Inactive THEN CleanGo(k, "recheck") /\ UNCHANGED place
                       ELSE CleanGo(k, "pending") /\ place' = "dir"
     \/ place = "dir" /\ CleanGo(k, IF Inactive THEN "move" ELSE "pending") /\ UNCHANGED place
     \/ place = "none" /\ CleanGo(k, "clean") /\ UNCHANGED place
  /\ UNCHANGED <<client, entry, asked, prepare, wrapper, leader, members, files, torn>>

Move(k) ==
  /\ cleaner[k] = "move"
  /\ IF place = "dir"
       THEN /\ place' = "claim" /\ CleanGo(k, "recheck")
            /\ torn' = (torn \/ "pid.open" \in files)
       ELSE CleanGo(k, "pending") /\ UNCHANGED <<place, torn>>
  /\ UNCHANGED <<client, entry, asked, prepare, wrapper, leader, members, files>>

\* The wrapper may have marked the directory before the rename.
Recheck(k) ==
  /\ cleaner[k] = "recheck"
  /\ IF Mine("claim") /\ ~Inactive THEN place' = "dir" ELSE UNCHANGED place
  /\ CleanGo(k, IF Mine("claim") /\ Inactive THEN "stop" ELSE "pending")
  /\ UNCHANGED <<client, entry, asked, prepare, wrapper, leader, members, files, torn>>

\* Mutant: a claimed directory is removed without a look at its group.
StopSkips(k) ==
  /\ cleaner[k] = "stop" /\ CleanGo(k, "rm")
  /\ UNCHANGED <<client, entry, asked, remote>>

\* stop_owned_group
Stop(k) ==
  /\ cleaner[k] = "stop"
  /\ \/ /\ place = "claim" /\ "pid" \in files /\ GroupExists
        /\ IF leader \in {"run", "idle"}
             THEN leader' = "dead" /\ members' = FALSE /\ CleanGo(k, "rm") /\ UNCHANGED place
             ELSE CleanGo(k, "pending") /\ place' = "dir" /\ UNCHANGED <<leader, members>>
     \/ /\ ~(place = "claim" /\ "pid" \in files /\ GroupExists)
        /\ CleanGo(k, "rm") /\ UNCHANGED <<place, leader, members>>
  /\ UNCHANGED <<client, entry, asked, prepare, wrapper, files, torn>>

Rm(k) ==
  /\ cleaner[k] = "rm"
  /\ IF place = "claim" THEN place' = "none" /\ files' = {} ELSE UNCHANGED <<place, files>>
  /\ CleanGo(k, "clean")
  /\ UNCHANGED <<client, entry, asked, prepare, wrapper, leader, members, torn>>

-----------------------------------------------------------------------------
(* The client. *)

SendCleanup ==
  \E k \in Cleaners : /\ cleaner[k] \in {"idle", "clean", "pending"}
                       /\ CleanGo(k, "start") /\ asked' = k

\* cleanup_result: the answer of the cleanup that was sent, if it arrives.
CleanOk == cleaner[asked] = "clean" /\ UNCHANGED <<cleaner, asked>>
CleanFails == UNCHANGED <<cleaner, asked>>

\* The remote shell supports sessions; the cleanup entry is reserved first.
Reserve ==
  /\ client = "probe"
  /\ \/ client' = "prepare" /\ entry' = "held" /\ prepare' = "sent"
     \/ client' = "end" /\ UNCHANGED <<entry, prepare>>
  /\ UNCHANGED <<wrapper, leader, members, place, files, torn, cleaner, asked>>

Prepared ==
  /\ client = "prepare"
  /\ \/ prepare = "ready" /\ client' = "launch" /\ UNCHANGED <<cleaner, asked>>
     \/ SendCleanup /\ client' = "clean"
  /\ UNCHANGED <<entry, remote>>

Launch ==
  /\ client = "launch"
  /\ \/ client' = "run" /\ wrapper' = "sent"
     \/ client' = "run" /\ UNCHANGED wrapper                       \* never reaches the host
  /\ UNCHANGED <<entry, prepare, leader, members, place, files, torn, cleaner, asked>>

\* The command ends, the connection is lost, or the observer cancels: in each
\* case the directory is cleaned up, by cancelled() and again at the end.
RunEnds ==
  /\ client = "run" /\ SendCleanup /\ client' \in {"cancel", "clean"}
  /\ UNCHANGED <<entry, remote>>

Cancelled ==
  /\ client = "cancel"
  /\ \/ CleanOk /\ entry' = "released" /\ client' = "end"
     \/ CleanFails /\ UNCHANGED entry /\ client' = "run"
  /\ UNCHANGED remote

Cleaned ==
  /\ client = "clean"
  /\ \/ CleanOk /\ entry' = "released"
     \/ CleanFails /\ entry' = "pending"
  /\ client' = "end"
  /\ UNCHANGED remote

\* retry_observed_cleanup
Retry ==
  /\ client = "end" /\ entry = "pending" /\ SendCleanup /\ client' = "clean"
  /\ UNCHANGED <<entry, remote>>

Next ==
  \/ Prepare \/ WrapperStart \/ WrapperLaunch \/ WrapperWatch \/ WrapperReap \/ WrapperDies \/ Leader
  \/ \E k \in Cleaners :
       \/ CleanStart(k) \/ CleanPid(k) \/ CleanLook(k) \/ CleanKill(k) \/ CleanGone(k)
       \/ Reclaim(k) \/ Move(k) \/ Recheck(k) \/ Stop(k) \/ Rm(k)
  \/ Reserve \/ Prepared \/ Launch \/ RunEnds \/ Cancelled \/ Cleaned \/ Retry

Spec == Init /\ [][Next]_sshVars

-----------------------------------------------------------------------------
TypeOK ==
  /\ entry \in {"none", "held", "pending", "released"}
  /\ files \subseteq {"owner", "wrapper", "pid.open", "pid", "status"}
  /\ place = "none" => files = {}

\* "Cancellation and close acknowledge the remote process group's cleanup before
\* retiring the execution" (module README): once the entry is released nothing
\* of the command runs, and nothing that is still on its way can start it.  The
\* one exception is a wrapper that dies while its child has the pid file open.
ReleasedIsGone == entry = "released" => ~GroupExists \/ torn
=============================================================================
