---------------------------- MODULE FileTransfer ----------------------------
(***************************************************************************)
(* Workspace file transfers of one resource: the Begin, chunk, Finish and   *)
(* Abort operations of tinybus_module/resources.rs over the staged writer   *)
(* and the reader of tinybox-host/src/files.rs.  Every operation holds the  *)
(* slot mutex; reservations may expire and Close may begin between the two  *)
(* looks of a Begin.  All transfers name the same destination.              *)
(***************************************************************************)
EXTENDS Naturals, Sequences, FiniteSets

CONSTANTS
  Transfers,      \* transfer ids
  Bytes,          \* contents of one chunk
  MaxFile,        \* MAX_FILE_BYTES, in chunks
  MaxTransfers,   \* MAX_FILE_TRANSFERS_PER_RESOURCE
  Nobody          \* no transfer

VARIABLES
  open,       \* the slot holds the resource
  shut,       \* the resource is closing
  booked,     \* FileWrite and FileRead reservations
  opening,    \* the transfer whose Begin holds the slot, and what it opens
  readers,    \* transfers being read, with the inode they opened
  writers,    \* transfers being written, with their OwnedWriter and LocalFileWriter
  staged,     \* transfers whose staging file exists
  content,    \* per transfer: the bytes of its inode
  completed,  \* completed_write_order
  current,    \* the transfer whose inode the destination names
  acked       \* per transfer: the chunks acknowledged to the client

resource == <<open, shut, booked>>
vars == <<resource, opening, readers, writers, staged, content, completed, current, acked>>

Closed == [op |-> "none", t |-> Nobody]
NoChunk == [offset |-> MaxFile + 1, bytes |-> Nobody]
\* file says whether the staged file is still open, last is last_chunk
NewWriter(file) ==
  [file |-> file, next |-> 0, last |-> NoChunk, poisoned |-> FALSE]

Init ==
  /\ open = TRUE /\ shut = FALSE /\ booked = Transfers
  /\ opening = Closed
  /\ readers = {} /\ writers = <<>> /\ staged = {}
  /\ content = [t \in Transfers |-> <<>>]
  /\ completed = <<>> /\ current = Nobody
  /\ acked = [t \in Transfers |-> <<>>]

-----------------------------------------------------------------------------
Set(f, t, v) == [x \in DOMAIN f \cup {t} |-> IF x = t THEN v ELSE f[x]]
Drop(f, t) == [x \in DOMAIN f \ {t} |-> f[x]]
Done == {completed[i] : i \in DOMAIN completed}

\* The slot mutex is free and holds a resource; check_entry_open.
Slot == open /\ opening.op = "none"
EntryOpen == Slot /\ ~shut

Expire(t) ==
  /\ t \in booked
  /\ booked' = booked \ {t}
  /\ UNCHANGED <<open, shut, opening, readers, writers, staged, content, completed, current, acked>>

\* begin_file_read and begin_file_write up to the host call.  A transfer that is
\* known is replayed and changes nothing.
Begin(t, op) ==
  /\ EntryOpen
  /\ t \notin readers /\ t \notin DOMAIN writers /\ t \notin Done
  /\ t \in booked
  /\ Cardinality(readers) + Cardinality(DOMAIN writers) < MaxTransfers
  /\ opening' = [op |-> op, t |-> t]
  /\ UNCHANGED <<resource, readers, writers, staged, content, completed, current, acked>>

\* The file is opened and the transfer admitted, unless either fails.
AdmitRead ==
  LET t == opening.t IN
  /\ opening.op = "read"
  /\ \/ /\ current # Nobody /\ ~shut /\ t \in booked
        /\ readers' = readers \cup {t}
        /\ booked' = booked \ {t}
     \/ UNCHANGED <<readers, booked>>
  /\ opening' = Closed
  /\ UNCHANGED <<open, shut, writers, staged, content, completed, current, acked>>

\* begin_writer creates the staging file, which must be new.
Stage(t) == t \notin staged /\ staged' = staged \cup {t}

\* Mutant: a writer that is not admitted is dropped.
AdmitWriteDrops ==
  LET t == opening.t IN
  /\ opening.op = "write"
  /\ \/ /\ Stage(t) /\ ~shut /\ t \in booked
        /\ booked' = booked \ {t}
        /\ writers' = Set(writers, t, NewWriter(TRUE))
     \/ Stage(t) /\ (shut \/ t \notin booked) /\ UNCHANGED <<booked, writers>>
     \/ UNCHANGED <<staged, booked, writers>>
  /\ opening' = Closed
  /\ UNCHANGED <<open, shut, readers, content, completed, current, acked>>

\* The staging file is created; without the reservation it is removed again, and
\* if that fails the writer is kept for Close (retain_writer_if_abort_fails).
AdmitWrite ==
  LET t == opening.t IN
  /\ opening.op = "write"
  /\ \/ /\ Stage(t) /\ ~shut /\ t \in booked
        /\ booked' = booked \ {t}
        /\ writers' = Set(writers, t, NewWriter(TRUE))
     \/ /\ Stage(t) /\ (shut \/ t \notin booked)
        /\ writers' = Set(writers, t, NewWriter(FALSE))
        /\ UNCHANGED booked
     \/ UNCHANGED <<staged, booked, writers>>
  /\ opening' = Closed
  /\ UNCHANGED <<open, shut, readers, content, completed, current, acked>>

\* read_file_chunk changes nothing; finish_file_read drops the reader.
FinishRead(t) ==
  /\ EntryOpen /\ t \in readers
  /\ readers' = readers \ {t}
  /\ UNCHANGED <<resource, opening, writers, staged, content, completed, current, acked>>

\* The client was told that chunk b is at the offset.
Acknowledge(t, offset, b) ==
  acked' = [acked EXCEPT ![t] = [i \in 1..(IF offset < Len(@) THEN Len(@) ELSE offset + 1) |->
                                    IF i = offset + 1 THEN b ELSE @[i]]]

\* write_file_chunk of an offset acknowledged before.
Replay(t, offset, b) ==
  /\ EntryOpen /\ t \in DOMAIN writers
  /\ writers[t].last = [offset |-> offset, bytes |-> b]
  /\ Acknowledge(t, offset, b)
  /\ UNCHANGED <<resource, opening, readers, writers, staged, content, completed, current>>

\* LocalFileWriter::write_chunk takes the chunk.
Writable(t) == writers[t].file /\ ~writers[t].poisoned

\* Mutant: a failed write does not poison the writer.
WriteChunkUnpoisoned(t, offset, b) ==
  /\ EntryOpen /\ t \in DOMAIN writers
  /\ offset # writers[t].last.offset /\ offset = writers[t].next /\ offset < MaxFile
  /\ Writable(t)
  /\ \/ /\ content' = [content EXCEPT ![t] = Append(@, b)]
        /\ writers' = [writers EXCEPT ![t].next = @ + 1,
                                      ![t].last = [offset |-> offset, bytes |-> b]]
        /\ Acknowledge(t, offset, b)
     \/ /\ content' = [content EXCEPT ![t] = Append(@, b)]
        /\ UNCHANGED <<writers, acked>>
  /\ UNCHANGED <<resource, opening, readers, staged, completed, current>>

\* A failed write may have written a part.
WriteChunk(t, offset, b) ==
  /\ EntryOpen /\ t \in DOMAIN writers
  /\ offset # writers[t].last.offset /\ offset = writers[t].next /\ offset < MaxFile
  /\ Writable(t)
  /\ \/ /\ content' = [content EXCEPT ![t] = Append(@, b)]
        /\ writers' = [writers EXCEPT ![t].next = @ + 1,
                                      ![t].last = [offset |-> offset, bytes |-> b]]
        /\ Acknowledge(t, offset, b)
     \/ /\ content' \in {content, [content EXCEPT ![t] = Append(@, b)]}
        /\ writers' = [writers EXCEPT ![t].poisoned = TRUE]
        /\ UNCHANGED acked
  /\ UNCHANGED <<resource, opening, readers, staged, completed, current>>

\* LocalFileWriter::finish renames the staging file over the destination.  Flush,
\* sync or rename may fail, the last one with the file closed.
Publish(t) == ~writers[t].poisoned /\ current' = t /\ staged' = staged \ {t}
PublishFails(t) ==
  /\ writers' \in {writers, [writers EXCEPT ![t].file = FALSE]}
  /\ UNCHANGED <<current, staged>>

\* finish_file_write keeps the acknowledgement of the last MaxTransfers.
FinishWrite(t) ==
  /\ EntryOpen /\ t \in DOMAIN writers
  /\ \/ /\ Publish(t)
        /\ writers' = Drop(writers, t)
        /\ completed' = IF Len(completed) >= MaxTransfers
                          THEN Append(Tail(completed), t) ELSE Append(completed, t)
     \/ ~writers[t].poisoned /\ PublishFails(t) /\ UNCHANGED completed
  /\ UNCHANGED <<resource, opening, readers, content, acked>>

\* LocalFileWriter::abort of some writers: they go, or stay without their file.
Abort(ts, kept) ==
  /\ writers' = [x \in (DOMAIN writers \ ts) \cup kept |->
                   IF x \in kept THEN [writers[x] EXCEPT !.file = FALSE] ELSE writers[x]]
  /\ staged' = staged \ (ts \ kept)

AbortWrite(t) ==
  /\ EntryOpen /\ t \in DOMAIN writers
  /\ \E kept \in SUBSET {t} : Abort({t}, kept)
  /\ UNCHANGED <<resource, opening, readers, content, completed, current, acked>>

\* begin_close does not wait for the slot mutex.
BeginClose ==
  /\ open /\ ~shut
  /\ shut' = TRUE /\ booked' = {}
  /\ UNCHANGED <<open, opening, readers, writers, staged, content, completed, current, acked>>

\* close aborts the writers, and keeps the resource for a retry while one is left.
Close ==
  /\ Slot /\ shut
  /\ \E kept \in SUBSET DOMAIN writers :
       /\ Abort(DOMAIN writers, kept)
       /\ open' = (kept # {})
       /\ readers' = IF kept = {} THEN {} ELSE readers
  /\ UNCHANGED <<shut, booked, opening, content, completed, current, acked>>

Next ==
  \/ \E t \in Transfers :
       \/ Expire(t) \/ Begin(t, "read") \/ Begin(t, "write")
       \/ FinishRead(t) \/ FinishWrite(t) \/ AbortWrite(t)
       \/ \E offset \in 0..MaxFile, b \in Bytes : WriteChunk(t, offset, b) \/ Replay(t, offset, b)
  \/ AdmitRead \/ AdmitWrite \/ BeginClose \/ Close

Spec == Init /\ [][Next]_vars

-----------------------------------------------------------------------------
TypeOK ==
  /\ booked \subseteq Transfers /\ readers \subseteq Transfers /\ staged \subseteq Transfers
  /\ DOMAIN writers \subseteq Transfers
  /\ Cardinality(readers) + Cardinality(DOMAIN writers) <= MaxTransfers

\* The file a destination names is complete: every chunk its writer acknowledged,
\* once and in order, through retries, failed writes and failed aborts (module
\* README: "Finish atomically publishes them").
PublishedIsAcknowledged == current # Nobody => content[current] = acked[current]

\* Every staging file has a writer that Close will abort (comment of
\* retain_writer_if_abort_fails), so a closed resource leaves none.
StagedIsOwned ==
  /\ staged \subseteq DOMAIN writers
  /\ ~open => staged = {}
=============================================================================
