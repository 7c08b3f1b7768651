---------------------------- MODULE JailRegistry ----------------------------
(***************************************************************************)
(* The registry of named jail directories (tinybox-jail/src/registry.rs)   *)
(* over the document that stores its index                                 *)
(* (tinybox-drivers/src/index_store.rs).  An operation holds the index     *)
(* mutex from its first step to its last; clear takes it again for every   *)
(* jail it deletes.  A save or a removal may fail, a save may also fail    *)
(* after it was stored, and the process may stop between two steps.        *)
(***************************************************************************)
EXTENDS Naturals, FiniteSets, FiniteSetsExt

CONSTANTS
  MaxSecond, MaxCount,  \* clock readings, and identifiers drawn in one run
  MaxBirths,            \* jails created
  Labels,
  Elsewhere,            \* identifiers whose recorded directory is outside the base
  MaxTroubles           \* failures and restarts

\* generate_id: the second and a counter that starts over with the process.
generate_id(s, n) == s * (MaxCount + 1) + n
JailIds == 0 .. generate_id(MaxSecond, MaxCount)
NoJail == [label |-> "none", born |-> 0]
NoDir == 0
Resting == [at |-> "rest", id |-> 0, was |-> NoJail]

VARIABLES
  jails,    \* the index in memory
  index,    \* the stored index
  dirs,     \* the directories: whose they are, by creation number
  second, count,
  job,      \* the operation that holds the mutex
  sweep,    \* what a clear still has to delete
  births,   \* how many jails were created
  doubt,    \* a save was stored although it failed
  troubles

vars == <<jails, index, dirs, second, count, job, sweep, births, doubt, troubles>>

Init ==
  /\ index \in {[i \in JailIds |-> IF i \in Elsewhere /\ e THEN [label |-> "old", born |-> MaxBirths] ELSE NoJail] : e \in BOOLEAN}
  /\ jails = index /\ dirs = [i \in JailIds |-> NoDir]
  /\ second = 0 /\ count = 0
  /\ job = Resting /\ sweep = {} /\ births = 0 /\ doubt = FALSE /\ troubles = 0

Fine == UNCHANGED troubles
Trouble == troubles < MaxTroubles /\ troubles' = troubles + 1
Locked(at) == job.at = at
Release == job' = Resting

---------------------------------------------------------------------------
\* create: an identifier that is neither in the index nor a directory.
Candidates ==
  {n \in count .. MaxCount : LET i == generate_id(second, n) IN jails[i] = NoJail /\ dirs[i] = NoDir}

Create ==
  /\ Locked("rest") /\ Candidates # {} /\ births < MaxBirths
  /\ LET n == Min(Candidates)
         i == generate_id(second, n) IN
     /\ count' = n + 1
     /\ births' = births + 1
     /\ \/ Fine /\ dirs' = [dirs EXCEPT ![i] = births + 1] /\ job' = [at |-> "insert", id |-> i, was |-> NoJail]
        \/ Trouble /\ UNCHANGED <<dirs, job>>
  /\ UNCHANGED <<jails, index, second, sweep, doubt>>

CreateInsert ==
  /\ Locked("insert")
  /\ \E l \in Labels : jails' = [jails EXCEPT ![job.id] = [label |-> l, born |-> births]]
  /\ job' = [job EXCEPT !.at = "save create"]
  /\ UNCHANGED <<index, dirs, second, count, sweep, births, doubt, troubles>>

\* rename and set_notes: the old value is kept for the rollback.
Rename ==
  /\ Locked("rest")
  /\ \E i \in JailIds : \E l \in Labels :
       /\ jails[i] # NoJail
       /\ jails' = [jails EXCEPT ![i].label = l]
       /\ job' = [at |-> "save rename", id |-> i, was |-> jails[i]]
  /\ UNCHANGED <<index, dirs, second, count, sweep, births, doubt, troubles>>

\* delete: the directory goes first; one outside the base is refused.
Delete(i) ==
  /\ Locked("rest") /\ jails[i] # NoJail /\ i \notin Elsewhere
  /\ \/ /\ Fine /\ dirs' = [dirs EXCEPT ![i] = NoDir]
        /\ job' = [at |-> "unlist", id |-> i, was |-> NoJail]
     \/ Trouble /\ dirs[i] # NoDir /\ UNCHANGED <<dirs, job>>
  /\ UNCHANGED <<jails, index, second, count, births, doubt>>

DeleteOne == \E i \in JailIds : Delete(i) /\ UNCHANGED sweep

DeleteUnlist ==
  /\ Locked("unlist")
  /\ jails' = [jails EXCEPT ![job.id] = NoJail]
  /\ job' = [job EXCEPT !.at = "save delete"]
  /\ UNCHANGED <<index, dirs, second, count, sweep, births, doubt, troubles>>

\* clear: the identifiers of this moment, then one delete after the other; the
\* first that fails, or finds its jail gone, ends it.
Clear ==
  /\ Locked("rest") /\ sweep = {}
  /\ sweep' = {i \in JailIds : jails[i] # NoJail}
  /\ UNCHANGED <<jails, index, dirs, second, count, job, births, doubt, troubles>>

ClearNext ==
  /\ sweep # {} /\ Locked("rest")
  /\ LET i == Min(sweep) IN
     \/ /\ Delete(i)
        /\ sweep' = IF job' = job THEN {} ELSE sweep \ {i}
     \/ /\ jails[i] = NoJail \/ i \in Elsewhere
        /\ sweep' = {}
        /\ UNCHANGED <<jails, index, dirs, second, count, job, births, doubt, troubles>>

---------------------------------------------------------------------------
\* persist: the whole index is stored; what a failure undoes depends on the
\* operation.  A failed create takes its directory back too.
RollbackNothing ==
  /\ UNCHANGED jails
  /\ dirs' = IF job.at = "save create" THEN [dirs EXCEPT ![job.id] = NoDir] ELSE dirs

Rollback ==
  /\ jails' = IF job.at = "save delete" THEN jails ELSE [jails EXCEPT ![job.id] = job.was]
  /\ dirs' = IF job.at = "save create" THEN [dirs EXCEPT ![job.id] = NoDir] ELSE dirs

Persist ==
  /\ job.at \in {"save create", "save rename", "save delete"}
  /\ \/ Fine /\ index' = jails /\ doubt' = FALSE /\ UNCHANGED <<jails, dirs, sweep>>
     \/ /\ Trouble
        /\ \/ index' = jails /\ doubt' = TRUE
           \/ UNCHANGED <<index, doubt>>
        /\ Rollback
        /\ sweep' = IF job.at = "save delete" THEN {} ELSE sweep
  /\ Release
  /\ UNCHANGED <<second, count, births>>

\* The process stops, and the index is loaded again.
Reopen ==
  /\ Trouble
  /\ jails' = index /\ count' = 0 /\ Release /\ sweep' = {} /\ doubt' = FALSE
  /\ UNCHANGED <<index, dirs, second, births>>

Tick ==
  /\ second < MaxSecond /\ second' = second + 1
  /\ UNCHANGED <<jails, index, dirs, count, job, sweep, births, doubt, troubles>>

Next ==
  \/ Create \/ CreateInsert \/ Rename \/ DeleteOne \/ DeleteUnlist
  \/ Clear \/ ClearNext \/ Persist \/ Reopen \/ Tick

Spec == Init /\ [][Next]_vars
---------------------------------------------------------------------------
TypeOK ==
  /\ jails \in [JailIds -> [label : Labels \cup {"none", "old"}, born : 0 .. MaxBirths]]
  /\ DOMAIN index = JailIds /\ dirs \in [JailIds -> 0 .. births]
  /\ second \in 0 .. MaxSecond /\ count \in 0 .. MaxCount + 1
  /\ sweep \subseteq JailIds /\ doubt \in BOOLEAN /\ troubles \in 0 .. MaxTroubles

\* A jail the registry shows is stored as it is shown, so a reopened registry
\* neither loses nor reverts it, unless the last save failed after it was stored
\* (the rollbacks of create, rename and set_notes).  And its directory holds
\* nothing older than the jail: identifiers repeat after a restart in the same
\* second, and deletes that were not saved come back (the loop of create).
ShownIsStored ==
  /\ Locked("rest") /\ ~doubt => \A i \in JailIds : jails[i] # NoJail => index[i] = jails[i]
  /\ \A i \in JailIds : jails[i] # NoJail /\ dirs[i] # NoDir => dirs[i] >= jails[i].born
=============================================================================
