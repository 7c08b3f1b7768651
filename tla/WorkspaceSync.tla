---------------------------- MODULE WorkspaceSync ----------------------------
(***************************************************************************)
(* Sending a workspace to a host (tinybox-sync/src/): the tree is walked   *)
(* and hashed, the far marker asked for, the tree walked and packed again, *)
(* and the archive unpacked by tar, entry by entry.  The workspace is      *)
(* edited meanwhile, the connection may drop at any step, and the far      *)
(* directory may be deleted.  A file is its place in the sorted walk; its  *)
(* text stands for contents and execute bit, and a fingerprint for the     *)
(* tree it is the hash of.                                                 *)
(***************************************************************************)
EXTENDS Naturals, FiniteSets, FiniteSetsExt

CONSTANTS
  Files,                        \* 1 .. n
  Derived,                      \* what .gitignore and .boxignore cover
  Texts, MaxEdits, MaxSyncs, MaxDrops

Absent == "absent"
Torn == "torn"
Nothing == [f \in Files |-> Absent]

VARIABLES
  local,      \* the workspace
  far,        \* the destination: the text of each file and the sync it is from
  marker,     \* the far fingerprint, the sync it is from, what that one packed, and
              \* whether it packed what it had hashed
  syncing,    \* the step of the sync under way, what it carries, walks and has read
  edits, syncs, drops

vars == <<local, far, marker, syncing, edits, syncs, drops>>

NoMarker == [tree |-> Nothing, from |-> 0, packed |-> {}, steady |-> TRUE]
Rested == [at |-> "rest", carry |-> {}, left |-> {}, tree |-> Nothing, archive |-> Nothing]

Init ==
  /\ local \in [Files -> Texts]
  /\ far = [f \in Files |-> [text |-> Absent, from |-> 0]] /\ marker = NoMarker
  /\ syncing = Rested /\ edits = 0 /\ syncs = 0 /\ drops = 0

In(at) == syncing.at = at
Quit == syncing' = Rested
Drop == drops < MaxDrops /\ drops' = drops + 1

---------------------------------------------------------------------------
\* entries: the regular files that are not excluded.
excludes(f, no_ignore) == ~no_ignore /\ f \in Derived
entries(carry) == {f \in carry : local[f] # Absent}

Start ==
  /\ syncing.at \in {"rest", "skipped", "sent"} /\ syncs < MaxSyncs
  /\ \E no_ignore \in BOOLEAN :
       LET carry == {f \in Files : ~excludes(f, no_ignore)} IN
       syncing' = [Rested EXCEPT !.at = "hash", !.carry = carry, !.left = entries(carry)]
  /\ syncs' = syncs + 1
  /\ UNCHANGED <<local, far, marker, edits, drops>>

\* of_directory reads one file; one that disappeared fails the sync.
HashFile ==
  /\ In("hash") /\ syncing.left # {}
  /\ LET f == Min(syncing.left) IN
     syncing' = IF local[f] = Absent THEN Rested
                ELSE [syncing EXCEPT !.left = @ \ {f}, !.tree[f] = local[f]]
  /\ UNCHANGED <<local, far, marker, edits, syncs, drops>>

\* remote_fingerprint: a marker that is missing or does not parse is none.
Recorded == marker.from # 0 /\ \A f \in Files : marker.tree[f] # Torn

Ask ==
  /\ In("hash") /\ syncing.left = {}
  /\ \/ /\ UNCHANGED drops
        /\ syncing' = IF Recorded /\ marker.tree = syncing.tree
                      THEN [syncing EXCEPT !.at = "skipped"]
                      ELSE [syncing EXCEPT !.at = "pack", !.left = entries(syncing.carry)]
     \/ Drop /\ Quit
  /\ UNCHANGED <<local, far, marker, edits, syncs>>

PackFile ==
  /\ In("pack") /\ syncing.left # {}
  /\ LET f == Min(syncing.left) IN
     syncing' = IF local[f] = Absent THEN Rested
                ELSE [syncing EXCEPT !.left = @ \ {f}, !.archive[f] = local[f]]
  /\ UNCHANGED <<local, far, marker, edits, syncs, drops>>

\* The place of the marker in the archive: after every file.
MarkerFirst == 0
MarkerPlace == Max(Files) + 1

Packed == {f \in Files : syncing.archive[f] # Absent}

\* pack ends with the marker, and unpack begins with mkdir -p.
Mkdir ==
  /\ In("pack") /\ syncing.left = {}
  /\ \/ UNCHANGED drops /\ syncing' = [syncing EXCEPT !.at = "unpack", !.left = Packed \cup {MarkerPlace}]
     \/ Drop /\ Quit
  /\ UNCHANGED <<local, far, marker, edits, syncs>>

\* tar writes one entry, which is cut short when the connection drops.
Unpack ==
  /\ In("unpack")
  /\ \E cut \in BOOLEAN :
       LET e == Min(syncing.left)
           tree == IF cut THEN [f \in Files |-> Torn] ELSE syncing.tree IN
       /\ IF e = MarkerPlace
          THEN /\ marker' = [tree |-> tree, from |-> syncs, packed |-> Packed, steady |-> syncing.archive = syncing.tree]
               /\ UNCHANGED far
          ELSE /\ far' = [far EXCEPT ![e] = [text |-> IF cut THEN Torn ELSE syncing.archive[e], from |-> syncs]]
               /\ UNCHANGED marker
       /\ IF cut THEN Drop /\ Quit
          ELSE /\ UNCHANGED drops
               /\ syncing' = [syncing EXCEPT !.left = @ \ {e}, !.at = IF syncing.left = {e} THEN "sent" ELSE "unpack"]
  /\ UNCHANGED <<local, edits, syncs>>

\* The connection drops between two entries, or before the last answer.
UnpackDropped ==
  /\ In("unpack") \/ In("sent")
  /\ Drop /\ Quit
  /\ UNCHANGED <<local, far, marker, edits, syncs>>

Edit ==
  /\ edits < MaxEdits /\ edits' = edits + 1
  /\ \E f \in Files : \E t \in Texts \cup {Absent} : local[f] # t /\ local' = [local EXCEPT ![f] = t]
  /\ UNCHANGED <<far, marker, syncing, syncs, drops>>

\* The far directory is deleted, or its machine rebuilt; not while tar writes to it.
Wipe ==
  /\ Drop /\ marker # NoMarker /\ ~In("unpack")
  /\ far' = [f \in Files |-> [text |-> Absent, from |-> 0]] /\ marker' = NoMarker
  /\ UNCHANGED <<local, syncing, edits, syncs>>

Next ==
  \/ Start \/ HashFile \/ Ask \/ PackFile \/ Mkdir \/ Unpack \/ UnpackDropped \/ Edit \/ Wipe

Spec == Init /\ [][Next]_vars
---------------------------------------------------------------------------
TypeOK ==
  /\ local \in [Files -> Texts \cup {Absent}]
  /\ far \in [Files -> [text : Texts \cup {Absent, Torn}, from : 0 .. MaxSyncs]]
  /\ marker.from \in 0 .. MaxSyncs /\ marker.packed \subseteq Files
  /\ syncing.left \subseteq 0 .. Max(Files) + 1

\* A marker is there only once every file it was packed with has been unpacked,
\* and what replaced one of them is from a later sync: a transfer that was cut
\* short leaves no marker of its own (archive::pack appends the marker last).
MarkerComesLast == \A f \in marker.packed : far[f].from >= marker.from

\* A sync that sends nothing found the far side with "this exact tree"
\* (transfer/mod.rs, Sync::Skipped), if the workspace was not edited while the
\* sync that left the marker ran: either its whole archive is there or none of it.
SkippedIsCurrent ==
  [][In("hash") /\ syncing'.at = "skipped" /\ marker.steady =>
       \A f \in Files : syncing.tree[f] # Absent => far[f].text = syncing.tree[f]]_vars
=============================================================================
