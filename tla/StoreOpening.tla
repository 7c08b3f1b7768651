---------------------------- MODULE StoreOpening ----------------------------
(***************************************************************************)
(* Opening the CLI's stores over data of older versions: the migration of  *)
(* version 1 collections (tinybox-drivers/src/migrations.rs) and the       *)
(* import of boxes.json and templates.json (tinybox-bin/src/main.rs), by   *)
(* several processes on one state directory, with crashes, commands of     *)
(* processes that are already open, and a late writer of the old version.  *)
(*                                                                         *)
(* Each call on the document store is one atomic step.  A process scans a  *)
(* collection once and then moves one row at a time; it reads a file once, *)
(* imports its records, compares the file again and leaves a receipt.      *)
(***************************************************************************)
EXTENDS Integers, FiniteSets, BoxRecord

CONSTANTS
  Openers,     \* the CLI processes
  Boxes, JailIndexes, TemplateNames,
  Infos,       \* the boxes an older version has written down
  MaxWrites,   \* how often the old version writes
  MaxCommands  \* how often an open process changes a box

VARIABLES
  v1,          \* the version 1 collections: row and version, or Absent
  rows,        \* the current collections: a body, or Absent
  source,      \* the legacy file of each kind: its records, NoFile or Damaged
  migrated,    \* the migration receipts: "none", "done" or "bad"
  imported,    \* the import receipts: NoReceipt, or the contents they stand for
  opener,      \* what each process is doing
  latest,      \* the last version 1 row written, for the property
  touched,     \* the documents a command has changed
  writes, commands

vars == <<v1, rows, source, migrated, imported, opener, latest, touched, writes, commands>>

Docs == Boxes \cup JailIndexes \cup TemplateNames
Stages == {"boxes", "jail"}
Imports == {"boxes", "templates"}
DocsOf(kind) == CASE kind = "boxes" -> Boxes [] kind = "jail" -> JailIndexes [] OTHER -> TemplateNames

Absent == [none |-> TRUE]
NoFile == [has |-> "nothing", records |-> <<>>]
Damaged == [has |-> "damage", records |-> <<>>]
NoReceipt == NoFile
Snapshot(n) == [snapshot |-> n]
JailRecords == [records |-> 1]
Contents(kind) ==
  [has : {"records"},
   records : UNION {[D -> IF kind = "boxes" THEN Infos ELSE {Snapshot(1)}] : D \in SUBSET DocsOf(kind) \ {{}}}]

\* What the old version stored, and the body this version stores for it.
OldRows(d) == IF d \in Boxes THEN Infos ELSE {JailRecords}
Migrate(d, row) == IF d \in Boxes THEN to_body(row) ELSE row
Store(d, info) == IF d \in Boxes THEN Encode(info) ELSE info
Load(d, body) == IF d \in Boxes THEN into_info(body) ELSE body

Closed == [at |-> "closed", stage |-> "boxes", pass |-> 1, todo |-> <<>>, seen |-> NoFile,
           doc |-> "none", err |-> "none"]

Init ==
  /\ v1 \in {f \in [Boxes \cup JailIndexes -> {Absent} \cup {[row |-> r, version |-> 1] : r \in Infos \cup {JailRecords}}] :
               \A d \in Boxes \cup JailIndexes : f[d] = Absent \/ f[d].row \in OldRows(d)}
  /\ rows = [d \in Docs |-> Absent]
  /\ source \in [boxes : {NoFile, Damaged} \cup Contents("boxes"), templates : {NoFile} \cup Contents("templates")]
  /\ migrated \in [Stages -> {"none", "bad"}]
  /\ imported = [k \in Imports |-> NoReceipt]
  /\ opener = [p \in Openers |-> Closed]
  /\ latest = [d \in Boxes \cup JailIndexes |-> v1[d]]
  /\ touched = {} /\ writes = 0 /\ commands = 0

stores == <<v1, rows, source, migrated, imported, latest, touched, writes, commands>>

At(p, at) == opener[p].at = at
Become(p, fields) == opener' = [opener EXCEPT ![p] = [f \in DOMAIN Closed |-> IF f \in DOMAIN fields THEN fields[f] ELSE @[f]]]
Fail(p, err) == opener' = [opener EXCEPT ![p] = [Closed EXCEPT !.err = err]] /\ UNCHANGED stores
Go(p, at) == opener' = [opener EXCEPT ![p].at = at]
Rest(p) == [e \in DOMAIN opener[p].todo \ {opener[p].doc} |-> opener[p].todo[e]]

\* On to one of the documents left, or past the last one.
Proceed(p, todo, first, after) ==
  IF DOMAIN todo = {} THEN Become(p, [at |-> after, todo |-> todo, doc |-> "none"])
  ELSE \E d \in DOMAIN todo : Become(p, [at |-> first, todo |-> todo, doc |-> d])

---------------------------------------------------------------------------
\* migrations::prepare, run by the opening of the box store and again by that
\* of the template store: both receipts are validated before any row moves.

Prepare(p) ==
  /\ At(p, "closed")
  /\ IF \E s \in Stages : migrated[s] = "bad"
     THEN Fail(p, "receipt")
     ELSE Become(p, [at |-> "scan", stage |-> "boxes", err |-> "none"]) /\ UNCHANGED stores

Scan(p) ==
  /\ At(p, "scan")
  /\ LET found == {d \in DocsOf(opener[p].stage) : v1[d] # Absent} IN
     Proceed(p, [d \in found |-> v1[d]], "put", "record")
  /\ UNCHANGED stores

NextRow(p) == Proceed(p, Rest(p), "put", "record")

Body(p) == Migrate(opener[p].doc, opener[p].todo[opener[p].doc].row)

PutRow(p) ==
  /\ At(p, "put")
  /\ LET d == opener[p].doc IN
     IF rows[d] = Absent
     THEN rows' = [rows EXCEPT ![d] = Body(p)] /\ Go(p, "verify")
     ELSE UNCHANGED rows /\ Go(p, "compare")
  /\ UNCHANGED <<v1, source, migrated, imported, latest, touched, writes, commands>>

\* The destination already existed: it must be the same body.
CompareRow(p) ==
  /\ At(p, "compare")
  /\ CASE rows[opener[p].doc] = Absent -> Fail(p, "disappeared")
       [] rows[opener[p].doc] = Body(p) -> Go(p, "verify") /\ UNCHANGED stores
       [] OTHER -> Fail(p, "differs")

VerifyRow(p) ==
  /\ At(p, "verify")
  /\ IF rows[opener[p].doc] = Body(p)
     THEN Go(p, "delete") /\ UNCHANGED stores
     ELSE Fail(p, "migration readback")

\* Deleted only in the version that was scanned.
DeleteAlways(p) ==
  /\ At(p, "delete")
  /\ v1' = [v1 EXCEPT ![opener[p].doc] = Absent]
  /\ NextRow(p)
  /\ UNCHANGED <<rows, source, migrated, imported, latest, touched, writes, commands>>

DeleteRow(p) ==
  /\ At(p, "delete")
  /\ LET d == opener[p].doc IN
     IF v1[d] = opener[p].todo[d]
     THEN v1' = [v1 EXCEPT ![d] = Absent] /\ NextRow(p)
     ELSE UNCHANGED v1 /\ Go(p, "reread")
  /\ UNCHANGED <<rows, source, migrated, imported, latest, touched, writes, commands>>

\* Nothing was deleted: fine when another process has done it.
RereadRow(p) ==
  /\ At(p, "reread")
  /\ IF v1[opener[p].doc] = Absent
     THEN NextRow(p) /\ UNCHANGED stores
     ELSE Fail(p, "changed during migration")

RecordComplete(p) ==
  /\ At(p, "record")
  /\ migrated' = [migrated EXCEPT ![opener[p].stage] = "done"]
  /\ CASE opener[p].stage = "boxes" -> Become(p, [at |-> "scan", stage |-> "jail"])
       [] opener[p].pass = 1 -> Become(p, [at |-> "scan", stage |-> "boxes", pass |-> 2])
       [] OTHER -> Become(p, [at |-> "read source", stage |-> "boxes"])
  /\ UNCHANGED <<v1, rows, source, imported, latest, touched, writes, commands>>

---------------------------------------------------------------------------
\* import_legacy_boxes and import_legacy_templates.

NextImport(p) ==
  IF opener[p].stage = "boxes" THEN Become(p, [at |-> "read source", stage |-> "templates"])
  ELSE Become(p, [at |-> "open", todo |-> <<>>, seen |-> NoFile, doc |-> "none"])

FirstStep(p) == IF opener[p].stage = "boxes" THEN "look" ELSE "insert"

Start(p, contents) ==
  \E d \in DOMAIN contents.records :
    Become(p, [at |-> FirstStep(p), doc |-> d, todo |-> contents.records, seen |-> contents])

\* The file's contents stand for its digest.
ReadSource(p) ==
  LET k == opener[p].stage IN
  /\ At(p, "read source")
  /\ CASE source[k] \in {NoFile, imported[k]} -> NextImport(p) /\ UNCHANGED stores
       [] source[k] # NoFile /\ imported[k] \notin {NoReceipt, source[k]} -> Fail(p, "changed after import")
       [] source[k] = Damaged /\ imported[k] = NoReceipt -> Fail(p, "invalid")
       [] OTHER -> Start(p, source[k]) /\ UNCHANGED stores

Info(p) == opener[p].todo[opener[p].doc]
Imported(p) == Proceed(p, Rest(p), FirstStep(p), "verify source") /\ UNCHANGED stores
Same(p) == rows[opener[p].doc] # Absent /\ Load(opener[p].doc, rows[opener[p].doc]) = Info(p)

LookRecord(p) ==
  /\ At(p, "look")
  /\ CASE rows[opener[p].doc] = Absent -> Go(p, "insert") /\ UNCHANGED stores
       [] Same(p) -> Imported(p)
       [] OTHER -> Fail(p, "conflicts")

\* A row that is found there is not replaced.
InsertRecord(p) ==
  /\ At(p, "insert")
  /\ LET d == opener[p].doc IN
     IF rows[d] = Absent
     THEN /\ rows' = [rows EXCEPT ![d] = Store(d, Info(p))]
          /\ IF d \in Boxes THEN Go(p, "readback") ELSE Proceed(p, Rest(p), "insert", "verify source")
     ELSE UNCHANGED rows /\ Go(p, "duplicate")
  /\ UNCHANGED <<v1, source, migrated, imported, latest, touched, writes, commands>>

\* A box just inserted is read back; a duplicate of either kind is compared.
ReadRecord(p) ==
  /\ opener[p].at \in {"readback", "duplicate"}
  /\ IF Same(p) THEN Imported(p)
     ELSE Fail(p, IF At(p, "readback") THEN "readback" ELSE "changed during import")

VerifySource(p) ==
  /\ At(p, "verify source")
  /\ IF source[opener[p].stage] = opener[p].seen
     THEN Go(p, "complete") /\ UNCHANGED stores
     ELSE Fail(p, "changed during import")

CompleteImport(p) ==
  LET k == opener[p].stage IN
  /\ At(p, "complete")
  /\ \/ /\ imported[k] = NoReceipt
        /\ imported' = [imported EXCEPT ![k] = opener[p].seen] /\ NextImport(p)
        /\ UNCHANGED <<v1, rows, source, migrated, latest, touched, writes, commands>>
     \/ imported[k] = opener[p].seen /\ NextImport(p) /\ UNCHANGED stores
     \/ imported[k] \notin {NoReceipt, opener[p].seen} /\ Fail(p, "changed after import")

---------------------------------------------------------------------------
\* The environment: commands of an open process, its end or crash, and an
\* installation of the old version that still writes.

\* A box gets a new state or goes; a template is saved or removed.
Command(p) ==
  /\ At(p, "open") /\ commands < MaxCommands
  /\ \E d \in Boxes \cup TemplateNames :
       /\ rows[d] # Absent
       /\ \E body \in {Absent, IF d \in Boxes THEN [rows[d] EXCEPT !.state = "failed"] ELSE Snapshot(2)} :
            rows' = [rows EXCEPT ![d] = body]
       /\ touched' = touched \cup {d}
  /\ commands' = commands + 1
  /\ UNCHANGED <<v1, source, migrated, imported, opener, latest, writes>>

Exit(p) ==
  /\ ~At(p, "closed")
  /\ opener' = [opener EXCEPT ![p] = Closed]
  /\ UNCHANGED stores

OldWriteRow ==
  /\ writes < MaxWrites
  /\ \E d \in Boxes \cup JailIndexes : \E row \in OldRows(d) :
       /\ v1' = [v1 EXCEPT ![d] = [row |-> row, version |-> 2 + writes]]
       /\ latest' = [latest EXCEPT ![d] = v1'[d]]
  /\ writes' = writes + 1
  /\ UNCHANGED <<rows, source, migrated, imported, opener, touched, commands>>

OldWriteFile ==
  /\ writes < MaxWrites
  /\ \E contents \in Contents("boxes") : source' = [source EXCEPT !.boxes = contents]
  /\ writes' = writes + 1
  /\ UNCHANGED <<v1, rows, migrated, imported, opener, latest, touched, commands>>

Next ==
  \/ \E p \in Openers :
       \/ Prepare(p) \/ Scan(p) \/ PutRow(p) \/ CompareRow(p) \/ VerifyRow(p)
       \/ DeleteRow(p) \/ RereadRow(p) \/ RecordComplete(p)
       \/ ReadSource(p) \/ LookRecord(p) \/ InsertRecord(p) \/ ReadRecord(p)
       \/ VerifySource(p) \/ CompleteImport(p) \/ Command(p) \/ Exit(p)
  \/ OldWriteRow \/ OldWriteFile

Spec == Init /\ [][Next]_vars
---------------------------------------------------------------------------
TypeOK ==
  /\ DOMAIN rows = Docs /\ DOMAIN v1 = Boxes \cup JailIndexes
  /\ migrated \in [Stages -> {"none", "done", "bad"}]
  /\ \A k \in Imports : imported[k] # NoReceipt => imported[k] \in Contents(k)
  /\ \A p \in Openers :
       /\ opener[p].stage \in Stages \cup Imports /\ opener[p].pass \in 1 .. 2
       /\ DOMAIN opener[p].todo \subseteq Docs
       /\ opener[p].doc \in Docs \cup {"none"}
  /\ touched \subseteq Docs /\ writes \in 0 .. MaxWrites /\ commands \in 0 .. MaxCommands

\* What an older version wrote is never lost, whatever the interleaving of
\* processes, crashes and late writes: the last version 1 row is still there, or
\* its translation is, or a command has changed the box since; and once the
\* receipt of an import exists, every record of the file it stands for is in the
\* store unless a command has changed it (migrate_row, import_legacy_boxes).
NothingLost ==
  /\ \A d \in Boxes \cup JailIndexes :
       latest[d] # Absent =>
         \/ v1[d] = latest[d]
         \/ rows[d] = Migrate(d, latest[d].row)
         \/ d \in touched
  /\ \A k \in Imports : imported[k] # NoReceipt =>
       \A d \in DOMAIN imported[k].records :
         rows[d] = Store(d, imported[k].records[d]) \/ d \in touched

\* A legacy file that is valid imports: reading a record back straight after
\* inserting it never refuses it ("imports validated
\* records and leaves those files in place", docs/specs/tinybox-runtime.md).
LegacyFileImports == \A p \in Openers : opener[p].err # "readback"
=============================================================================
