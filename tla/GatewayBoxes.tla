---------------------------- MODULE GatewayBoxes ----------------------------
(***************************************************************************)
(* Boxes that live behind a gateway, and the collection of records the     *)
(* resources of one module share.  Create and destroy of OpenShell and     *)
(* agent37 sandboxes, insert_new, DocumentBoxStore over Repo, and the      *)
(* RecordingStore that lets a failed create find its own record.           *)
(*                                                                         *)
(* Every call on the store or on the gateway is one step.  Up to MaxLosses *)
(* of them fail, before or after their effect: the storage bridge drops a  *)
(* call, a reply of the bus or of the service is lost.  OpenShell names a  *)
(* sandbox after the resource and the box; agent37 mints the identifier.   *)
(***************************************************************************)
EXTENDS Integers, FiniteSets, FiniteSetsExt

CONSTANTS
  Keepers,         \* resources of the module
  Minting,         \* those of them on agent37; the others are on OpenShell
  MaxStarts,       \* how often a resource is created
  MaxTries,        \* ALLOCATION_ATTEMPTS, and the attempts of Repo::update
  MaxLosses        \* calls that fail

\* box-0, box-1, ...: one more than there can be records; then the minted identifiers.
Numbered == 0 .. MaxStarts
Minted == 101 .. 100 + MaxStarts
Ids == Numbered \cup Minted
NoId == -1
NoVersion == <<>>
NoBox == [owner |-> "nobody", state |-> "none", version |-> NoVersion]

VARIABLES
  opened,    \* the module has opened the box store
  boxes,     \* the shared collection
  inserted,  \* per resource: what its RecordingStore has inserted
  pods,      \* what the gateway runs: pairs of a resource and an id
  strangers, \* names on the gateway that are somebody else's
  slot,      \* per resource: the box the registry holds, or NoId
  task,      \* per resource: the step that comes next
  starts,
  minted,    \* the last identifier agent37 gave out
  unheard,   \* removals that happened although the reply was lost
  losses

vars == <<opened, boxes, inserted, pods, strangers, slot, task, starts, minted, unheard, losses>>

Idle == [at |-> "idle", id |-> NoId, tries |-> 0, version |-> NoVersion]

Init ==
  /\ opened = FALSE
  /\ boxes = [i \in Ids |-> NoBox]
  /\ inserted = [h \in Keepers |-> {}] /\ slot = [h \in Keepers |-> NoId]
  /\ pods = {} /\ strangers \in SUBSET ((Keepers \ Minting) \X {0})
  /\ task = [h \in Keepers |-> Idle] /\ starts = 0
  /\ minted = 100 /\ unheard = {} /\ losses = 0

At(h, at) == task[h].at = at
Id(h) == task[h].id
Go(h, at) == task' = [task EXCEPT ![h].at = at]
Finish(h) == task' = [task EXCEPT ![h] = Idle]
Heard == UNCHANGED losses
Lost == losses < MaxLosses /\ losses' = losses + 1
Missing(i) == boxes[i] = NoBox

---------------------------------------------------------------------------
\* Resources::create up to the backend; the store is opened once and a failure
\* to open it is not remembered.
Create(h) ==
  /\ At(h, "idle") /\ slot[h] = NoId /\ starts < MaxStarts
  /\ starts' = starts + 1
  /\ inserted' = [inserted EXCEPT ![h] = {}]
  /\ \/ /\ Lost /\ ~opened /\ UNCHANGED <<opened, task>>
     \/ /\ Heard /\ opened' = TRUE
        /\ Go(h, IF h \in Minting THEN "mint" ELSE "allocate")
  /\ UNCHANGED <<boxes, pods, strangers, slot, minted, unheard>>

\* allocate_id: the lowest box-N no record holds.
allocate_id == CHOOSE i \in Numbered : Missing(i) /\ \A j \in Numbered : j < i => ~Missing(j)

Allocate(h) ==
  /\ At(h, "allocate")
  /\ \/ Heard /\ task' = [task EXCEPT ![h].at = "insert", ![h].id = allocate_id]
     \/ Lost /\ Finish(h)
  /\ UNCHANGED <<opened, boxes, inserted, pods, strangers, slot, starts, minted, unheard>>

\* No two writes of a document have the same version.
Write(h, i) ==
  boxes' = [boxes EXCEPT ![i] = [owner |-> h, state |-> "ready", version |-> <<h, starts, 1>>]]

\* Inserted only where no record is; a collision looks for another id.
Insert(h) ==
  /\ At(h, "insert")
  /\ \/ /\ Missing(Id(h)) /\ Heard
        /\ Write(h, Id(h))
        /\ inserted' = [inserted EXCEPT ![h] = @ \cup {Id(h)}]
        /\ IF h \in Minting THEN slot' = [slot EXCEPT ![h] = Id(h)] /\ Finish(h)
           ELSE UNCHANGED slot /\ Go(h, "gateway")
     \/ /\ ~Missing(Id(h)) /\ Heard /\ h \notin Minting
        /\ IF task[h].tries + 1 < MaxTries
           THEN task' = [task EXCEPT ![h].at = "allocate", ![h].tries = @ + 1]
           ELSE Finish(h)
        /\ UNCHANGED <<boxes, inserted, slot>>
     \/ /\ Lost
        /\ (Missing(Id(h)) /\ Write(h, Id(h))) \/ UNCHANGED boxes
        /\ IF h \in Minting THEN Go(h, "unmint") ELSE Finish(h)
        /\ UNCHANGED <<inserted, slot>>
  /\ UNCHANGED <<opened, pods, strangers, starts, minted, unheard>>

---------------------------------------------------------------------------
\* OpenShellSandbox::create, after its record.

\* args::create refuses the specification: only the record goes.
RefuseSpec(h) ==
  /\ At(h, "gateway") /\ Go(h, "drop")
  /\ UNCHANGED <<opened, boxes, inserted, pods, strangers, slot, starts, minted, unheard, losses>>

\* A name that is taken is not this box; any other failure may have created it.
GatewayCreate(h) ==
  LET name == <<h, Id(h)>> IN
  /\ At(h, "gateway")
  /\ \/ /\ Heard /\ name \notin pods \cup strangers
        /\ pods' = pods \cup {name}
        /\ slot' = [slot EXCEPT ![h] = Id(h)] /\ Finish(h)
     \/ /\ Heard /\ name \in pods \cup strangers
        /\ Go(h, "drop") /\ UNCHANGED <<pods, slot>>
     \/ /\ Lost /\ Go(h, "undo")
        /\ pods' \in {pods, pods \cup ({name} \ strangers)} /\ UNCHANGED slot
  /\ UNCHANGED <<opened, boxes, inserted, strangers, starts, minted, unheard>>

\* delete_sandbox, by name; "not found" is success.
Delete(h) == pods' = pods \ {<<h, Id(h)>>} /\ strangers' = strangers \ {<<h, Id(h)>>}

UndoHasty(h) ==
  /\ At(h, "undo")
  /\ \/ Heard /\ Delete(h) /\ Go(h, "drop")
     \/ Lost /\ (Delete(h) \/ UNCHANGED <<pods, strangers>>) /\ Go(h, "drop")
  /\ UNCHANGED <<opened, boxes, inserted, slot, starts, minted, unheard>>

Undo(h) ==
  /\ At(h, "undo")
  /\ \/ Heard /\ Delete(h) /\ Go(h, "drop")
     \/ Lost /\ (Delete(h) \/ UNCHANGED <<pods, strangers>>) /\ Go(h, "mark")
  /\ UNCHANGED <<opened, boxes, inserted, slot, starts, minted, unheard>>

\* set_state(Failed): Repo::update reads, then writes the version it read.
MarkRead(h) ==
  /\ At(h, "mark")
  /\ \/ /\ Heard
        /\ task' = IF Missing(Id(h)) THEN [task EXCEPT ![h].at = "failed"]
                   ELSE [task EXCEPT ![h].at = "mark write", ![h].version = boxes[Id(h)].version]
     \/ Lost /\ Go(h, "failed")
  /\ UNCHANGED <<opened, boxes, inserted, pods, strangers, slot, starts, minted, unheard>>

MarkWrite(h) ==
  LET i == Id(h) IN
  /\ At(h, "mark write")
  /\ \/ /\ Heard \/ Lost
        /\ boxes[i].version = task[h].version /\ ~Missing(i)
        /\ boxes' = [boxes EXCEPT ![i].state = "failed", ![i].version[3] = @ + 1]
        /\ Go(h, "failed")
     \/ /\ Heard /\ boxes[i].version # task[h].version /\ UNCHANGED boxes
        /\ task' = [task EXCEPT ![h].at = IF task[h].tries + 1 < MaxTries THEN "mark" ELSE "failed",
                                ![h].tries = @ + 1]
     \/ Lost /\ Go(h, "failed") /\ UNCHANGED boxes
  /\ UNCHANGED <<opened, inserted, pods, strangers, slot, starts, minted, unheard>>

\* Store::remove through the RecordingStore, which forgets the id with it.
RemoveKeeping(h, ok, failed) ==
  LET i == Id(h) IN
  \/ /\ Heard /\ ~Missing(i) /\ ok
     /\ boxes' = [boxes EXCEPT ![i] = NoBox] /\ UNCHANGED <<inserted, unheard>>
  \/ Heard /\ Missing(i) /\ failed /\ UNCHANGED <<boxes, inserted, unheard>>
  \/ /\ Lost /\ failed /\ UNCHANGED inserted
     /\ \/ UNCHANGED <<boxes, unheard>>
        \/ ~Missing(i) /\ boxes' = [boxes EXCEPT ![i] = NoBox] /\ unheard' = unheard \cup {i}

Remove(h, ok, failed) ==
  LET i == Id(h) IN
  \/ /\ Heard /\ ~Missing(i) /\ ok
     /\ boxes' = [boxes EXCEPT ![i] = NoBox]
     /\ inserted' = [inserted EXCEPT ![h] = @ \ {i}] /\ UNCHANGED unheard
  \/ Heard /\ Missing(i) /\ failed /\ UNCHANGED <<boxes, inserted, unheard>>
  \/ /\ Lost /\ failed /\ UNCHANGED inserted
     /\ \/ UNCHANGED <<boxes, unheard>>
        \/ ~Missing(i) /\ boxes' = [boxes EXCEPT ![i] = NoBox] /\ unheard' = unheard \cup {i}

Drop(h) ==
  /\ At(h, "drop")
  /\ Remove(h, Go(h, "failed"), Go(h, "failed"))
  /\ UNCHANGED <<opened, pods, strangers, slot, starts, minted>>

\* The registry keeps a box whose record a failed create left behind
\* (first_inserted): only a definite "unknown" rules it out.
AdoptFailed(h) ==
  /\ At(h, "failed")
  /\ \/ Heard /\ slot' = [slot EXCEPT ![h] = Max({NoId} \cup {i \in inserted[h] : ~Missing(i)})]
     \/ Lost /\ inserted[h] # {} /\ slot' = [slot EXCEPT ![h] = Max(inserted[h])]
  /\ Finish(h)
  /\ UNCHANGED <<opened, boxes, inserted, pods, strangers, starts, minted, unheard>>

---------------------------------------------------------------------------
\* Agent37Sandbox::create: the instance first, then the record under its id.
Mint(h) ==
  /\ At(h, "mint")
  /\ LET i == minted + 1 IN
     \/ /\ Heard /\ pods' = pods \cup {<<h, i>>} /\ minted' = i
        /\ task' = [task EXCEPT ![h].at = "insert", ![h].id = i]
     \/ Lost /\ pods' = pods \cup {<<h, i>>} /\ minted' = i /\ Finish(h)
     \/ Lost /\ UNCHANGED <<pods, minted>> /\ Finish(h)
  /\ UNCHANGED <<opened, boxes, inserted, strangers, slot, starts, unheard>>

\* The record could not be written: the instance is deleted, if it can be.
Unmint(h) ==
  /\ At(h, "unmint")
  /\ \/ Heard /\ Delete(h)
     \/ Lost /\ (Delete(h) \/ UNCHANGED <<pods, strangers>>)
  /\ Finish(h)
  /\ UNCHANGED <<opened, boxes, inserted, slot, starts, minted, unheard>>

---------------------------------------------------------------------------
\* Close: destroy of either backend, repeated until it succeeds.
Destroy(h) ==
  /\ At(h, "idle") /\ slot[h] # NoId
  /\ Heard /\ ~Missing(slot[h])
  /\ task' = [task EXCEPT ![h].at = "destroy", ![h].id = slot[h]]
  /\ UNCHANGED <<opened, boxes, inserted, pods, strangers, slot, starts, minted, unheard>>

DestroyPod(h) ==
  /\ At(h, "destroy")
  /\ \/ Heard /\ Delete(h) /\ Go(h, "forget")
     \/ Lost /\ (Delete(h) \/ UNCHANGED <<pods, strangers>>) /\ Finish(h)
  /\ UNCHANGED <<opened, boxes, inserted, slot, starts, minted, unheard>>

Forget(h) ==
  /\ At(h, "forget")
  /\ Remove(h, slot' = [slot EXCEPT ![h] = NoId], UNCHANGED slot)
  /\ Finish(h)
  /\ UNCHANGED <<opened, pods, strangers, starts, minted>>

Next ==
  \E h \in Keepers :
    \/ Create(h) \/ Allocate(h) \/ Insert(h) \/ RefuseSpec(h) \/ GatewayCreate(h) \/ Undo(h)
    \/ MarkRead(h) \/ MarkWrite(h) \/ Drop(h) \/ AdoptFailed(h) \/ Mint(h) \/ Unmint(h)
    \/ Destroy(h) \/ DestroyPod(h) \/ Forget(h)

Spec == Init /\ [][Next]_vars
---------------------------------------------------------------------------
TypeOK ==
  /\ opened \in BOOLEAN /\ DOMAIN boxes = Ids
  /\ \A i \in Ids : boxes[i].owner \in Keepers \cup {"nobody"} /\ boxes[i].state \in {"none", "ready", "failed"}
  /\ inserted \in [Keepers -> SUBSET Ids] /\ slot \in [Keepers -> Ids \cup {NoId}]
  /\ pods \subseteq Keepers \X Ids /\ strangers \subseteq Keepers \X Ids
  /\ \A h \in Keepers : task[h].id \in Ids \cup {NoId} /\ task[h].tries \in 0 .. MaxTries
  /\ unheard \subseteq Ids /\ losses \in 0 .. MaxLosses

\* A resource removes no record but its own, although identifiers are reissued as
\* soon as they are free and several resources share the collection.  The
\* exception is the retry of a removal whose reply was lost: its id may already
\* be somebody else's (RecordingStore::remove, OpenShellSandbox::destroy).
OwnRemoval ==
  \A i \in Ids : (boxes[i] # NoBox /\ boxes'[i] = NoBox)
    => task'[boxes[i].owner] # task[boxes[i].owner] \/ i \in unheard

RemovesItsOwn == [][OwnRemoval]_vars

\* A sandbox that OpenShell runs for a resource has that resource's record, so
\* that a later destroy finds it: whichever single call of create, its undo or
\* destroy fails, before or after its effect (OpenShellSandbox::create).
PodIsRecorded ==
  \A p \in pods : p[1] \notin Minting =>
    \/ boxes[p[2]].owner = p[1]
    \/ p[2] \in unheard
=============================================================================
