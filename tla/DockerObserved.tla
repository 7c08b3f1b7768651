---------------------------- MODULE DockerObserved ----------------------------
(***************************************************************************)
(* One observed execution in a Docker box: exec_observed and the cleanup    *)
(* functions of tinybox-docker/src/sandbox/mod.rs, and the shell programs   *)
(* of sandbox/observed.rs that run inside the container and meet in a       *)
(* control directory.  Each request has a deadline: a program whose caller  *)
(* gave up still runs, now or later.                                        *)
(***************************************************************************)
EXTENDS FiniteSets

VARIABLES
  caller,      \* where the call is: "start", "run", "end" or a request's name
  purpose,     \* what a cleanup is for: "reserve", "undo", "cancel", "settle", "retry"
  launched,    \* CleanupHandle.launched, of the handle the drop guard holds
  ack,         \* CleanupHandle.acknowledged
  journal,     \* pending_observed_cleanup holds the token
  destroyed,   \* the box was destroyed
  sent,        \* requests on their way to the container or running in it
  answer,      \* the answer to the request waited for: "none", "ok", "fail"
  ctl,         \* the control directory's files; "dir" is the directory itself
  supervisor,  \* "unsent", "sent", "begin", "launch", "wait", "reap", "exited"
  group,       \* the workload: "none", "forked", "run", "left" (leader gone), "dead"
  watcher      \* "none", "poll", "exited"

container == <<ctl, supervisor, group, watcher>>
dockVars == <<caller, purpose, launched, ack, journal, destroyed, sent, answer, container>>

Init ==
  /\ caller = "start" /\ purpose = "reserve"
  /\ launched = FALSE /\ ack = FALSE /\ journal = FALSE /\ destroyed = FALSE
  /\ sent = {} /\ answer = "none"
  /\ ctl = {} /\ supervisor = "unsent" /\ group = "none" /\ watcher = "none"

Owned == {"dir", "owner"} \subseteq ctl
GroupAlive == group \in {"run", "left"}

-----------------------------------------------------------------------------
(* The programs: what each answers and does. *)

Finish(r, ok) ==
  /\ sent' = sent \ {r}
  /\ answer' = IF caller = r /\ answer = "none" THEN (IF ok THEN "ok" ELSE "fail") ELSE answer

RunReserve ==
  /\ "reserve" \in sent
  /\ IF ~destroyed /\ (Owned \/ {"started", "cancel"} \cap ctl = {})
       THEN ctl' = ctl \cup {"dir", "owner"} /\ Finish("reserve", TRUE)
       ELSE UNCHANGED ctl /\ Finish("reserve", FALSE)
  /\ UNCHANGED <<caller, purpose, launched, ack, journal, destroyed, supervisor, group, watcher>>

\* CANCEL_AND_ACK first leaves its mark and then waits for "done".
RunCancel ==
  /\ "cancel" \in sent
  /\ IF ~destroyed /\ Owned
       THEN /\ ctl' = ctl \cup {"cancel"}
            /\ sent' = (sent \ {"cancel"}) \cup {"await"}
            /\ caller' = (IF caller = "cancel" THEN "await" ELSE caller) /\ UNCHANGED answer
       ELSE Finish("cancel", FALSE) /\ UNCHANGED <<ctl, caller>>
  /\ UNCHANGED <<purpose, launched, ack, journal, destroyed, supervisor, group, watcher>>

AwaitDone ==
  /\ "await" \in sent
  /\ \/ "done" \in ctl /\ Finish("await", TRUE)
     \/ "done" \notin ctl /\ Finish("await", FALSE)                     \* five seconds
  /\ UNCHANGED <<caller, purpose, launched, ack, journal, destroyed, container>>

RunAbort ==
  /\ "abort" \in sent
  /\ \/ ~destroyed /\ "dir" \notin ctl /\ Finish("abort", TRUE) /\ UNCHANGED ctl
     \/ ~destroyed /\ Owned /\ "started" \notin ctl /\ Finish("abort", TRUE) /\ ctl' = {}
     \/ /\ destroyed \/ ("dir" \in ctl /\ (~Owned \/ "started" \in ctl))
        /\ Finish("abort", FALSE) /\ UNCHANGED ctl
  /\ UNCHANGED <<caller, purpose, launched, ack, journal, destroyed, supervisor, group, watcher>>

RunRelease ==
  /\ "release" \in sent
  /\ \/ ~destroyed /\ "dir" \notin ctl /\ Finish("release", TRUE) /\ UNCHANGED ctl
     \/ ~destroyed /\ Owned /\ "done" \in ctl /\ Finish("release", TRUE) /\ ctl' = {}
     \/ /\ destroyed \/ ("dir" \in ctl /\ ~(Owned /\ "done" \in ctl))
        /\ Finish("release", FALSE) /\ UNCHANGED ctl
  /\ UNCHANGED <<caller, purpose, launched, ack, journal, destroyed, supervisor, group, watcher>>

-----------------------------------------------------------------------------
(* SUPERVISOR: claims the directory, launches the workload and its watcher,
   waits for the leader, retires the group and acknowledges. *)

SupervisorBegin ==
  /\ \/ /\ supervisor = "sent"
        /\ IF Owned /\ "started" \notin ctl
             THEN supervisor' = "begin" /\ ctl' = ctl \cup {"started"}
             ELSE supervisor' = "exited" /\ UNCHANGED ctl
     \/ supervisor = "begin" /\ "cancel" \in ctl /\ supervisor' = "exited" /\ ctl' = ctl \cup {"done"}
     \/ supervisor = "begin" /\ "cancel" \notin ctl /\ supervisor' = "launch" /\ UNCHANGED ctl
  /\ UNCHANGED <<caller, purpose, launched, ack, journal, destroyed, sent, answer, group, watcher>>

SupervisorLaunch ==
  /\ supervisor = "launch"
  /\ \/ supervisor' = "exited" /\ ctl' = ctl \cup {"unsupported", "done"} /\ UNCHANGED <<group, watcher>>
     \/ supervisor' = "wait" /\ group' = "forked" /\ watcher' = "poll" /\ UNCHANGED ctl
  /\ UNCHANGED <<caller, purpose, launched, ack, journal, destroyed, sent, answer>>

\* Mutant: the acknowledgement follows the leader's exit, whatever it left behind.
SupervisorHasty ==
  /\ supervisor = "wait" /\ group \in {"left", "dead"}
  /\ supervisor' = "exited" /\ watcher' = "exited" /\ ctl' = ctl \cup {"done"}
  /\ UNCHANGED <<caller, purpose, launched, ack, journal, destroyed, sent, answer, group>>

SupervisorWait ==
  /\ \/ /\ supervisor = "wait" /\ group \in {"left", "dead"}
        /\ supervisor' = "reap" /\ watcher' = "exited" /\ UNCHANGED <<group, ctl>>
     \/ /\ supervisor = "reap"
        /\ group' = "dead" /\ supervisor' = "exited" /\ ctl' = ctl \cup {"done"} /\ UNCHANGED watcher
  /\ UNCHANGED <<caller, purpose, launched, ack, journal, destroyed, sent, answer>>

Watch ==
  /\ watcher = "poll" /\ "cancel" \in ctl
  /\ watcher' = "exited"
  /\ group' = IF "pid" \in ctl /\ GroupAlive THEN "dead" ELSE group
  /\ UNCHANGED <<caller, purpose, launched, ack, journal, destroyed, sent, answer, ctl, supervisor>>

\* The session leader records its pid and becomes the command.
LeaderStarts ==
  /\ group = "forked" /\ group' = "run" /\ ctl' = ctl \cup {"pid"}
  /\ UNCHANGED <<caller, purpose, launched, ack, journal, destroyed, sent, answer, supervisor, watcher>>

LeaderExits ==
  /\ group = "run" /\ group' \in {"left", "dead"}
  /\ UNCHANGED <<caller, purpose, launched, ack, journal, destroyed, sent, answer, ctl, supervisor, watcher>>

-----------------------------------------------------------------------------
(* The client. *)

Ask(r) == caller' = r /\ sent' = sent \cup {r} /\ answer' = "none"
Rest(at) == caller' = at /\ answer' = "none" /\ UNCHANGED sent

\* retain_observed_cleanup: only for the box that is still there.
Retain == journal' = (journal \/ ~destroyed)

\* The answer arrived, or the deadline passed.
Ok(r) == caller = r /\ answer = "ok"
Fails(r) == caller = r                  \* "fail", or the deadline, even when the answer is on its way

\* A cleanup is over: cleanup_remote returned to what called it.
CleanupOk ==
  /\ Rest(IF purpose = "cancel" THEN "run" ELSE "end")
  /\ journal' = (journal /\ purpose # "retry") /\ UNCHANGED launched
CleanupErr ==
  /\ Rest(IF purpose = "cancel" THEN "run" ELSE "end")
  /\ IF purpose = "retry" THEN journal' = (journal /\ ~destroyed) ELSE Retain
  /\ launched' = (launched /\ purpose # "undo")

ExecObserved ==
  /\ caller = "start" /\ ~destroyed
  /\ Ask("reserve")
  /\ UNCHANGED <<purpose, launched, ack, journal, destroyed, container>>

\* reserve_observed_execution, and the reservation a cleanup repeats.
Reserved ==
  /\ \/ /\ Ok("reserve") /\ purpose = "reserve" /\ ~launched
        /\ Rest("run") /\ launched' = TRUE /\ supervisor' \in {"sent", "unsent"}
        /\ UNCHANGED <<purpose, journal>>
     \/ /\ Fails("reserve") /\ purpose = "reserve"
        /\ Ask("reserve") /\ purpose' = "undo" /\ UNCHANGED <<launched, supervisor, journal>>
     \/ /\ Ok("reserve") /\ purpose # "reserve" /\ Ask("abort")
        /\ UNCHANGED <<purpose, launched, supervisor, journal>>
     \/ /\ Fails("reserve") /\ purpose # "reserve" /\ CleanupErr
        /\ UNCHANGED <<purpose, supervisor>>
  /\ UNCHANGED <<ack, destroyed, ctl, group, watcher>>

Aborted ==
  /\ \/ Ok("abort") /\ CleanupOk
     \/ Fails("abort") /\ CleanupErr
  /\ UNCHANGED <<purpose, ack, destroyed, container>>

\* cleanup_remote, for a handle that was launched
CleanupRemote(why) ==
  /\ Ask(IF ~launched THEN "reserve" ELSE IF ack THEN "release" ELSE "cancel")
  /\ purpose' = why

Acknowledged ==
  /\ \/ Ok("await") /\ Ask("release") /\ ack' = TRUE /\ UNCHANGED <<launched, journal>>
     \/ (Fails("await") \/ Fails("cancel")) /\ CleanupErr /\ UNCHANGED ack
  /\ UNCHANGED <<purpose, destroyed, container>>

Released ==
  /\ \/ Ok("release") /\ CleanupOk
     \/ Fails("release") /\ CleanupErr
  /\ UNCHANGED <<purpose, ack, destroyed, container>>

\* DockerExecutionObserver::cancelled cleans up inside the call.
Cancelled ==
  /\ caller = "run" /\ purpose # "cancel" /\ CleanupRemote("cancel")
  /\ UNCHANGED <<launched, ack, journal, destroyed, container>>

\* run_observed ends: what a cancellation could not acknowledge is in the
\* journal; otherwise the call settles.
RunEnds ==
  /\ caller = "run"
  /\ \/ (journal \/ (ack /\ purpose = "cancel")) /\ Rest("end") /\ purpose' = "settle"
     \/ /\ ~journal /\ ~(ack /\ purpose = "cancel")
        /\ \/ CleanupRemote("settle")
           \/ supervisor = "unsent" /\ Ask("reserve") /\ purpose' = "undo"     \* UnsupportedStreaming
  /\ UNCHANGED <<launched, ack, journal, destroyed, container>>

\* The call's future is dropped at an await: RetainCleanupOnDrop.
Dropped ==
  /\ caller \notin {"start", "end"} /\ purpose # "retry"
  /\ Rest("end") /\ Retain
  /\ UNCHANGED <<purpose, launched, ack, destroyed, container>>

\* Mutant: an entry is tried once.
RetryForgets ==
  /\ caller = "end" /\ journal /\ journal' = FALSE
  /\ CleanupRemote("retry")
  /\ UNCHANGED <<launched, ack, destroyed, container>>

RetryObservedCleanup ==
  /\ caller = "end" /\ journal
  /\ IF destroyed THEN journal' = FALSE /\ UNCHANGED <<caller, sent, answer, purpose>>
                  ELSE CleanupRemote("retry") /\ UNCHANGED journal
  /\ UNCHANGED <<launched, ack, destroyed, container>>

\* destroy: the container is gone with all that ran in it.
Destroy ==
  /\ ~destroyed /\ destroyed' = TRUE /\ journal' = FALSE
  /\ ctl' = {} /\ supervisor' = "exited" /\ watcher' = "exited" /\ group' = "dead"
  /\ UNCHANGED <<caller, purpose, launched, ack, sent, answer>>

Programs == RunReserve \/ RunCancel \/ AwaitDone \/ RunAbort \/ RunRelease
Workload == SupervisorBegin \/ SupervisorLaunch \/ SupervisorWait \/ Watch \/ LeaderStarts
Client == Reserved \/ Aborted \/ Acknowledged \/ Released \/ Cancelled \/ RunEnds \/ RetryObservedCleanup

Next == ExecObserved \/ Client \/ Dropped \/ Destroy \/ Programs \/ Workload \/ LeaderExits
Spec == Init /\ [][Next]_dockVars

\* Programs and processes that are ready to run do run, and the module retries
\* what is pending.
FairSpec ==
  Spec /\ WF_dockVars(Workload) /\ WF_dockVars(Programs) /\ WF_dockVars(Client)

-----------------------------------------------------------------------------
TypeOK ==
  /\ ctl \subseteq {"dir", "owner", "started", "cancel", "pid", "unsupported", "done"}
  /\ sent \subseteq {"reserve", "cancel", "await", "abort", "release"}
  /\ caller \in {"start", "run", "end"} \cup {"reserve", "cancel", "await", "abort", "release"}

MayRun == supervisor \in {"begin", "launch", "wait", "reap"} \/ GroupAlive

\* cleanup_remote answers Ok, and sets acknowledged, only when the process group
\* is gone and no supervisor that is still on its way can start it.
AcknowledgedIsGone == ack => ~MayRun /\ supervisor # "sent"

\* "lost acknowledgement or receipt-release replies retain enough state for
\* retry" (module README): once the call has ended or was dropped, a workload
\* that runs or may still start is in the journal, or its cleanup is under way.
WorkloadIsJournalled == caller = "end" /\ (MayRun \/ (supervisor = "sent" /\ ~destroyed)) => journal

\* "It sends the cancellation signal" (SUPERVISOR): a workload whose control
\* directory holds the cancellation is killed.
CancelStops == ("cancel" \in ctl) ~> ~GroupAlive
=============================================================================
