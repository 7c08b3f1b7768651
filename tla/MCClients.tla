------------------------------ MODULE MCClients ------------------------------
(***************************************************************************)
(* The instance of the three parts of the module that a client drives call *)
(* by call: the native shell runner, the file transfers and the interactive *)
(* processes.  They share nothing but the resource, so a behaviour is one   *)
(* of one part, chosen in the initial state.                                *)
(***************************************************************************)
EXTENDS Naturals, Sequences, FiniteSets

CONSTANTS
  MaxChunks, Batch,
  Transfers, Bytes, MaxFile, MaxTransfers, Nobody,
  Calls, Processes, MaxStdio, MaxBuffer, MaxOutput, Free

VARIABLES
  part,
  state, chunks, tree, at, cursor, cancelling, timedOut, late, yields, outcome, closed,
  open, shut, booked, opening, readers, writers, staged, content, completed, current, acked,
  held, shutting, slotMutex, ids, slot, leader, kids, owned, reaper, exit, stdin, torn,
  pipe, buffer, read, eof, ended, killed, stdioCall

Shell == INSTANCE NativeShell
Files == INSTANCE FileTransfer
Pipes == INSTANCE Stdio

shell == <<state, chunks, tree, at, cursor, cancelling, timedOut, late, yields, outcome, closed>>
files == <<open, shut, booked, opening, readers, writers, staged, content, completed, current, acked>>
stdio == <<held, shutting, slotMutex, ids, slot, leader, kids, owned, reaper, exit, stdin, torn,
           pipe, buffer, read, eof, ended, killed, stdioCall>>
vars == <<part, shell, files, stdio>>

Init ==
  /\ part \in {"shell", "files", "stdio"}
  /\ Shell!Init /\ Files!Init /\ Pipes!Init

InShell == part = "shell" /\ UNCHANGED <<part, files, stdio>>
InFiles == part = "files" /\ UNCHANGED <<part, shell, stdio>>
InStdio == part = "stdio" /\ UNCHANGED <<part, shell, files>>

Proceed(c) == InStdio /\ Pipes!Proceed(c)

Next ==
  \/ InShell /\ Shell!Next
  \/ InFiles /\ Files!Next
  \/ InStdio /\ Pipes!Next

\* Every call of the module is a task that tokio polls, its mutexes are served
\* first come first served, and the waits on a child and on stdin have deadlines.
Spec == Init /\ [][Next]_vars /\ \A c \in Calls : SF_vars(Proceed(c))

-----------------------------------------------------------------------------
\* run_native_shell returns complete output.
FinishedIsComplete == Shell!FinishedIsComplete
\* run_native_shell leaves nothing behind that it does not report.
LeavesNothing == Shell!LeavesNothing
\* finish_file_write publishes exactly what was acknowledged.
PublishedIsAcknowledged == Files!PublishedIsAcknowledged
\* Staging files belong to a writer that Close aborts.
StagedIsOwned == Files!StagedIsOwned
\* A process that KillStdio released is dead.
KillIsFinal == Pipes!KillIsFinal
\* A recorded exit means that the process group is gone.
ExitMeansDead == Pipes!ExitMeansDead
\* No interactive child is left to itself.
LiveIsOwned == Pipes!LiveIsOwned
\* The end of the output is reported after all of it was delivered.
EndIsComplete == Pipes!EndIsComplete

\* StartStdio, WriteStdio, KillStdio and Close always return: a Close waits for
\* starts in flight (close_stdio), and every start ends its slot (StartingGuard).
StdioReturns == \A c \in Calls : Pipes!At(c) # "idle" ~> Pipes!At(c) = "idle"
=============================================================================
