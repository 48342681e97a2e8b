----------------------------- MODULE CatalogScan -----------------------------
(***************************************************************************)
(* One scan after another of the sources of the catalog: scan_source() and *)
(* _flush() of daemon/axp_daemon/indexer.py over the directory stream of   *)
(* daemon/axp_daemon/scanner.py, the rows of shared/axp_core/schema.py and *)
(* the source table of shared/axp_core/sources.py.                         *)
(*                                                                         *)
(* The scanner is one process with one connection; `docs` is the catalog   *)
(* as that connection sees it and `saved` what is committed.  Around it    *)
(* files are edited, touched, removed and restored at any moment, the      *)
(* volume goes away and comes back, the user disables, removes or          *)
(* reindexes a source or asks for a stop, and the process can die between  *)
(* any two steps.                                                          *)
(*                                                                         *)
(* A version of a file is its stamp, the (size, mtime) pair of stat, and   *)
(* its content, the number of the edit that wrote it; the sha256 of a      *)
(* content is the content.  A chunk list is the version of the text it was *)
(* cut from, 0 for no chunk; the FTS and vector rows of a chunk live and   *)
(* die with it by the schema's triggers, so they are not kept apart.       *)
(***************************************************************************)
EXTENDS Integers, Sequences, FiniteSets

CONSTANTS
  Files,        \* path keys
  Sources,      \* source ids
  Kind,         \* what each file's name says: text, office, metadata, ignored
  Under,        \* the files below the root of each source
  BatchSize,    \* prepared documents that trigger a flush
  MaxEdits,     \* bound on what users do to files, volume and sources
  EditKinds,    \* the edits considered
  MaxFaults,    \* bound on failures and crashes
  FaultKinds,   \* the failures considered
  NoFile, NoSource

ASSUME ScanAssumption ==
  /\ Kind \in [Files -> {"text", "office", "metadata", "ignored"}]
  /\ Under \in [Sources -> SUBSET Files]
  /\ BatchSize \in Nat \ {0}
  /\ MaxEdits \in Nat
  /\ EditKinds \subseteq {"write", "touch", "revert", "remove", "restore", "volume",
                         "enable", "drop", "reindex", "stop"}
  /\ MaxFaults \in Nat
  /\ FaultKinds \subseteq {"walk", "stat", "extract", "embed", "backend", "write", "crash"}
  /\ NoFile \notin Files
  /\ NoSource \notin Sources

VARIABLES
  disk,       \* each file: is it there, its stamp and its content
  online,     \* is the volume of the sources reachable
  edits,      \* edits so far
  faults,     \* faults so far
  known,      \* rows of the sources table
  enabled,    \* the sources with enabled=1
  status,     \* the status column of each source
  stopping,   \* DaemonControl.stop
  docs,       \* documents with their chunks, as the scanner's connection sees them
  saved,      \* documents with their chunks, as committed
  txn,        \* the connection holds an open write transaction
  mark,       \* docs at SAVEPOINT document_write
  pc,         \* where scan_source is
  src,        \* its source
  due,        \* files the directory stream must still return
  yielded,    \* files it returned
  gone,       \* ghost: files that were missing at some moment of this scan
  complete,   \* traversal.complete
  cut,        \* disabled_during_scan
  cur,        \* the file in hand
  stat, old, digest,  \* the locals of the loop body; they survive the iteration
  pending,    \* prepared documents
  embedded,   \* documents of the batch still to be written
  inline,     \* the flush runs inside the try block of a file
  tally       \* the counters of result

table == <<known, enabled, status>>
rows  == <<docs, saved, txn, mark>>
walk  == <<src, due, yielded, gone, complete, cut>>
hand  == <<cur, stat, old, digest>>
batch == <<pending, embedded, inline>>
scan  == <<pc, walk, hand, batch, tally>>
vars  == <<disk, online, edits, faults, table, stopping, rows, scan>>

PC == {"idle", "walk", "stat", "hash", "extract", "embed", "write", "chunks",
       "close", "report"}
Statuses == {"idle", "scanning", "paused", "offline", "error", "disabled"}
Modes == {"content", "metadata"}

Mode(f) == IF Kind[f] \in {"text", "office"} THEN "content" ELSE "metadata"

\* A row of documents with the version of its chunks.
Row == [src : Sources, path : Files, stamp : Nat, digest : Nat, mode : Modes, text : Nat]
NoRow == [mode |-> "none"]
HasRow(d, f) == d[f] # NoRow

\* old is the row read by the SELECT of the loop body, None when there is none.
NoOld == [file |-> NoFile, digest |-> 0, mode |-> "none"]

\* A PreparedDocument; new says that old is None.
Prepared == [file : Files, stamp : Nat, digest : Nat, mode : Modes, text : Nat, new : BOOLEAN]

NoTally == [seen |-> 0, accepted |-> 0, ignored |-> 0, failed |-> 0, completed |-> 0]

\* The version of the text that a current row of the file holds.
Text(f) == IF Mode(f) = "content" THEN disk[f].content ELSE disk[f].stamp

Readable(f) == online /\ disk[f].there
Seen == {f \in yielded : Kind[f] # "ignored"}

\* The catalog without the documents of a source, as the foreign key cascades.
Without(d, s) == [f \in Files |-> IF HasRow(d, f) /\ d[f].src = s THEN NoRow ELSE d[f]]

\* Another connection cannot write while the scanner holds the write lock.
WriteLocked == txn \/ pc = "chunks"

Edit(kind) == kind \in EditKinds /\ edits < MaxEdits /\ edits' = edits + 1
Fault(kind) == kind \in FaultKinds /\ faults < MaxFaults /\ faults' = faults + 1

-----------------------------------------------------------------------------
(***************************************************************************)
(* Users and the file system.                                              *)
(***************************************************************************)

\* A file is saved: with new content, with its stamp only, with an old content.
WriteFile(f) ==
  /\ disk[f].there
  /\ \E content \in 1 .. (disk[f].stamp + 1) :
       /\ \/ content = disk[f].stamp + 1 /\ Edit("write")
          \/ content = disk[f].content /\ Edit("touch")
          \/ content < disk[f].content /\ Edit("revert")
       /\ disk' = [disk EXCEPT ![f].stamp = @ + 1, ![f].content = content]
  /\ UNCHANGED <<online, scan>>

\* The stream of an open directory need not return a file removed meanwhile.
RemoveFile(f) ==
  /\ Edit("remove")
  /\ disk[f].there
  /\ disk' = [disk EXCEPT ![f].there = FALSE]
  /\ due' = due \ {f}
  /\ gone' = gone \union {f}
  /\ UNCHANGED <<online, pc, src, yielded, complete, cut, hand, batch, tally>>

RestoreFile(f) ==
  /\ Edit("restore")
  /\ ~disk[f].there
  /\ disk' = [disk EXCEPT ![f].there = TRUE]
  /\ UNCHANGED <<online, scan>>

LoseVolume ==
  /\ Edit("volume")
  /\ online
  /\ online' = FALSE
  /\ UNCHANGED <<disk, scan>>

MountVolume ==
  /\ ~online
  /\ online' = TRUE
  /\ UNCHANGED <<disk, edits, scan>>

\* enable_source() and disable_source() of the Sources window or the CLI, from
\* another process.
SetEnabled(s) ==
  /\ Edit("enable")
  /\ s \in known
  /\ ~WriteLocked
  /\ IF s \in enabled
       THEN /\ enabled' = enabled \ {s}
            /\ status' = [status EXCEPT ![s] = "disabled"]
       ELSE /\ enabled' = enabled \union {s}
            /\ status' = [status EXCEPT ![s] = "idle"]
  /\ UNCHANGED <<known, stopping, rows, scan>>

\* remove_source(): the row goes and its documents cascade.
RemoveSource(s) ==
  /\ Edit("drop")
  /\ s \in known
  /\ ~WriteLocked
  /\ known' = known \ {s}
  /\ docs' = Without(docs, s)
  /\ saved' = Without(saved, s)
  /\ UNCHANGED <<enabled, status, stopping, txn, mark, scan>>

\* _safe_reindex(): after a complete enumeration the documents of the source
\* are deleted; the daemon scans it next.
Reindex(s) ==
  /\ Edit("reindex")
  /\ pc = "idle"
  /\ s \in known
  /\ ~stopping
  /\ online
  /\ docs' = Without(docs, s)
  /\ saved' = docs'
  /\ txn' = FALSE
  /\ UNCHANGED <<table, stopping, mark, scan>>

\* A stop request reaches DaemonControl; the next daemon starts without it.
RequestStop ==
  /\ Edit("stop")
  /\ ~stopping
  /\ stopping' = TRUE
  /\ UNCHANGED <<table, rows, scan>>

Restart ==
  /\ stopping
  /\ pc = "idle"
  /\ stopping' = FALSE
  /\ UNCHANGED <<edits, table, rows, scan>>

-----------------------------------------------------------------------------
(***************************************************************************)
(* Leaving a scan.                                                         *)
(***************************************************************************)
ForgetScan ==
  /\ pc' = "idle"
  /\ src' = NoSource
  /\ due' = {} /\ yielded' = {} /\ gone' = {}
  /\ complete' = TRUE /\ cut' = FALSE
  /\ cur' = NoFile /\ stat' = 0 /\ old' = NoOld /\ digest' = 0
  /\ pending' = <<>> /\ embedded' = <<>> /\ inline' = FALSE
  /\ mark' = [f \in Files |-> NoRow]
  /\ tally' = NoTally

Mark(value) ==
  status' = IF src \in known THEN [status EXCEPT ![src] = value] ELSE status

CommitAs(d) == docs' = d /\ saved' = d /\ txn' = FALSE
Rollback == CommitAs(saved)

\* The outer except clauses: roll back, mark the source, return.
GiveUp(value) ==
  /\ Rollback
  /\ Mark(value)
  /\ ForgetScan

\* The process dies: what is not committed is lost, a status stays as it was.
Crash ==
  /\ pc # "idle"
  /\ Fault("crash")
  /\ Rollback
  /\ ForgetScan
  /\ stopping' = FALSE
  /\ UNCHANGED <<disk, online, edits, table>>

-----------------------------------------------------------------------------
(***************************************************************************)
(* The walk.                                                               *)
(***************************************************************************)

\* mark_source_status(scanning) commits; the directory stream is opened.
Begin(s) ==
  /\ pc = "idle"
  /\ s \in known
  /\ ~stopping
  /\ pc' = "walk"
  /\ src' = s
  /\ status' = [status EXCEPT ![s] = "scanning"]
  /\ CommitAs(docs)
  /\ due' = {f \in Under[s] : disk[f].there}
  /\ gone' = {f \in Files : ~disk[f].there}
  /\ UNCHANGED <<disk, online, edits, faults, known, enabled, stopping, mark,
                 yielded, complete, cut, hand, batch, tally>>

\* SourceUnavailable, or an OSError of the stream of the root.
FindOffline ==
  /\ pc = "walk"
  /\ ~online
  /\ GiveUp("offline")
  /\ UNCHANGED faults

\* A directory or an entry cannot be read: its files are not returned.
MissEntries ==
  /\ pc = "walk"
  /\ IF online THEN Fault("walk") ELSE UNCHANGED faults
  /\ \E missed \in SUBSET due : missed # {} /\ due' = due \ missed
  /\ complete' = FALSE
  /\ UNCHANGED <<disk, online, edits, table, stopping, rows, pc, src, yielded, gone,
                 cut, hand, batch, tally>>

\* The loop is left for the final flush.
LeaveWalk ==
  /\ inline' = FALSE
  /\ pc' = IF pending = <<>> THEN "close" ELSE "embed"
  /\ UNCHANGED <<faults, status, rows, src, due, yielded, gone, complete, hand,
                 pending, embedded, tally>>

\* The entries of an opened directory may come after the volume is lost.
Returns(f) ==
  /\ f \in Under[src] \ yielded
  /\ disk[f].there
  /\ online \/ yielded # {}

\* The stream returns an entry; a stop or a disabled source ends the loop first.
NextEntryStops ==
  /\ pc = "walk"
  /\ \E f \in Files : Returns(f)
  /\ stopping \/ (src \in known /\ src \notin enabled)
  /\ cut' = ~stopping
  /\ LeaveWalk

\* get_source() of a removed source raises.
NextEntryFindsSourceGone ==
  /\ pc = "walk"
  /\ \E f \in Files : Returns(f)
  /\ ~stopping
  /\ src \notin known
  /\ GiveUp("error")
  /\ UNCHANGED faults

NextEntry(f) ==
  /\ pc = "walk"
  /\ Returns(f)
  /\ ~stopping
  /\ src \in known /\ src \in enabled
  /\ yielded' = yielded \union {f}
  /\ due' = due \ {f}
  /\ IF Kind[f] = "ignored"
       THEN /\ tally' = [tally EXCEPT !.seen = @ + 1, !.ignored = @ + 1, !.completed = @ + 1]
            /\ UNCHANGED <<pc, cur>>
       ELSE /\ tally' = [tally EXCEPT !.seen = @ + 1, !.accepted = @ + 1]
            /\ pc' = "stat"
            /\ cur' = f
  /\ UNCHANGED <<faults, status, rows, src, gone, complete, cut, stat, old, digest, batch>>

EndOfStream ==
  /\ pc = "walk"
  /\ due = {}
  /\ UNCHANGED cut
  /\ LeaveWalk

-----------------------------------------------------------------------------
(***************************************************************************)
(* One file: its failure, then stat, hash and extract.                     *)
(***************************************************************************)
CountFailures(n) ==
  tally' = [tally EXCEPT !.accepted = @ - n, !.failed = @ + n, !.completed = @ + n]

\* The except clause of the loop body.  For an Office file it writes with the
\* locals stat and old as the iteration left them: when stat() itself raised
\* they are those of an earlier file, or not bound at all.  The step counts n
\* failures: the file in hand and, when the backend fails in a batch, the documents
\* isolated before (BackendFails).
RecordFailure(n) ==
  /\ CountFailures(n)
  /\ pc' = "walk"
  /\ UNCHANGED <<status, mark, walk, hand, batch>>

DropFile(n) ==
  /\ Kind[cur] # "office"
  /\ RecordFailure(n)
  /\ UNCHANGED <<docs, saved, txn>>

\* The row _preserve_failed_document leaves for the file in hand.
FailedRow == [src |-> src, path |-> cur, stamp |-> stat, digest |-> 0,
              mode |-> "metadata", text |-> 0]

PreserveOldRow(n) ==
  /\ Kind[cur] = "office"
  /\ stat # 0 /\ old # NoOld
  /\ HasRow(docs, old.file) => src \in known
  /\ CommitAs(IF HasRow(docs, old.file)
                THEN [docs EXCEPT ![old.file] = [FailedRow EXCEPT !.digest = docs[old.file].digest]]
                ELSE docs)
  /\ RecordFailure(n)

PreserveNewRow(n) ==
  /\ Kind[cur] = "office"
  /\ stat # 0 /\ old = NoOld
  /\ src \in known /\ ~HasRow(docs, cur)
  /\ CommitAs([docs EXCEPT ![cur] = FailedRow])
  /\ RecordFailure(n)

\* An unbound local, a duplicate path key or a removed source: the handler
\* itself raises and the scan is given up.
PreserveRaises ==
  /\ Kind[cur] = "office"
  /\ \/ stat = 0
     \/ old = NoOld /\ (src \notin known \/ HasRow(docs, cur))
     \/ old # NoOld /\ src \notin known /\ HasRow(docs, old.file)
  /\ GiveUp("error")

FailFile(n) == DropFile(n) \/ PreserveOldRow(n) \/ PreserveNewRow(n) \/ PreserveRaises

StatFails ==
  /\ pc = "stat"
  /\ IF Readable(cur) THEN Fault("stat") ELSE UNCHANGED faults
  /\ FailFile(1)

\* Faulty variant: the mode of the row is not looked at.
UnchangedInAnyMode(f) == HasRow(docs, f) /\ docs[f].stamp = disk[f].stamp

Unchanged(f) ==
  /\ HasRow(docs, f)
  /\ docs[f].stamp = disk[f].stamp
  /\ docs[f].mode = Mode(f)

\* The row read into old.
RowFor(f) == IF HasRow(docs, f)
             THEN [file |-> f, digest |-> docs[f].digest, mode |-> docs[f].mode]
             ELSE NoOld

\* The document joins the batch; a full batch is flushed at once.
Prepare(doc) ==
  /\ pending' = Append(pending, doc)
  /\ inline' = (Len(pending') >= BatchSize)
  /\ pc' = IF inline' THEN "embed" ELSE "walk"
  /\ UNCHANGED embedded

\* A metadata-only file is never opened: its chunk describes the stat.
StatFile ==
  /\ pc = "stat"
  /\ Readable(cur)
  /\ stat' = disk[cur].stamp
  /\ old' = RowFor(cur)
  /\ IF Unchanged(cur)
       THEN /\ pc' = "walk"
            /\ tally' = [tally EXCEPT !.completed = @ + 1]
            /\ UNCHANGED batch
       ELSE /\ IF Mode(cur) = "content"
                 THEN pc' = "hash" /\ UNCHANGED batch
                 ELSE Prepare([file |-> cur, stamp |-> stat', digest |-> 0,
                               mode |-> "metadata", text |-> stat', new |-> old' = NoOld])
            /\ UNCHANGED tally
  /\ UNCHANGED <<faults, status, rows, walk, cur, digest>>

SameDigest == old.mode = "content" /\ old.digest = disk[cur].content

HashFile ==
  /\ pc = "hash"
  /\ Readable(cur)
  /\ ~SameDigest
  /\ digest' = disk[cur].content
  /\ pc' = "extract"
  /\ UNCHANGED <<faults, status, rows, walk, cur, stat, old, batch, tally>>

\* Same digest: the row takes the new stamp and the scanned source, in a
\* transaction that stays open until the next commit.
TouchRow ==
  /\ pc = "hash"
  /\ Readable(cur)
  /\ SameDigest
  /\ HasRow(docs, cur) => src \in known
  /\ digest' = disk[cur].content
  /\ docs' = IF HasRow(docs, cur)
             THEN [docs EXCEPT ![cur].src = src, ![cur].path = cur, ![cur].stamp = stat]
             ELSE docs
  /\ txn' = TRUE
  /\ pc' = "walk"
  /\ tally' = [tally EXCEPT !.completed = @ + 1]
  /\ UNCHANGED <<faults, status, saved, mark, walk, cur, stat, old, batch>>

HashFails ==
  /\ pc = "hash"
  /\ ~Readable(cur) \/ (SameDigest /\ HasRow(docs, cur) /\ src \notin known)
  /\ FailFile(1)
  /\ UNCHANGED faults

Extract ==
  /\ pc = "extract"
  /\ Readable(cur)
  /\ Prepare([file |-> cur, stamp |-> stat, digest |-> digest, mode |-> "content",
              text |-> disk[cur].content, new |-> old = NoOld])
  /\ UNCHANGED <<faults, status, rows, walk, hand, tally>>

\* The extractor raises, or an Office file has no text.
ExtractFails ==
  /\ pc = "extract"
  /\ IF Readable(cur) THEN Fault("extract") ELSE UNCHANGED faults
  /\ FailFile(1)

-----------------------------------------------------------------------------
(***************************************************************************)
(* _flush: embed the batch, write its documents one by one, commit.        *)
(***************************************************************************)

\* _embed_group isolates the documents whose own embedding fails; pick holds the
\* places of the others, in their order.
EmbedBatch ==
  /\ pc = "embed"
  /\ \E n \in 0..Len(pending) : \E pick \in [1..n -> 1..Len(pending)] :
       /\ \A i, j \in 1..n : i < j => pick[i] < pick[j]
       /\ IF n = Len(pending) THEN UNCHANGED faults ELSE Fault("embed")
       /\ embedded' = [i \in 1..n |-> pending[pick[i]]]
       /\ CountFailures(Len(pending) - n)
  /\ pc' = "write"
  /\ UNCHANGED <<status, rows, walk, hand, pending, inline>>

\* BackendFailure leaves _flush with pending as it is: inside the loop body the
\* per-file handler takes it, in the final flush the outer one.  When the halves of
\* a split batch come first, their isolated documents are counted already, and they
\* stay pending all the same; the file in hand, the last of the batch, is in no
\* such half.
BackendFails ==
  /\ pc = "embed"
  /\ Fault("backend")
  /\ IF inline
       THEN \E n \in 1..Len(pending) :
              /\ n > 1 => "embed" \in FaultKinds
              /\ FailFile(n)
       ELSE GiveUp("error")

First == Head(embedded)

\* Leaves document First: `saved` follows at once when its savepoint opened the
\* transaction, with the final commit otherwise.
ReleaseAs(d) ==
  /\ docs' = d
  /\ saved' = IF txn THEN saved ELSE d
  /\ embedded' = Tail(embedded)
  /\ pc' = "write"
  /\ UNCHANGED <<status, txn, mark, walk, hand, pending, inline>>

\* The row of document First before its chunks.
RowAt(stamp) ==
  /\ pc = "write"
  /\ embedded # <<>>
  /\ src \in known
  /\ First.new = ~HasRow(docs, First.file)
  /\ mark' = docs
  /\ docs' = [docs EXCEPT ![First.file] =
                [src |-> src, path |-> First.file, stamp |-> stamp,
                 digest |-> First.digest, mode |-> First.mode, text |-> 0]]
  /\ pc' = "chunks"
  /\ UNCHANGED <<faults, status, txn, walk, hand, batch, tally>>

\* Faulty variants: the stamp is read again at the write; the row is written
\* outside a savepoint.
WriteRowWithLateStamp == RowAt(disk[First.file].stamp) /\ UNCHANGED saved
WriteRowUnguarded == RowAt(First.stamp) /\ saved' = (IF txn THEN saved ELSE docs')

\* The row is inserted or updated and its old chunks are deleted, after
\* SAVEPOINT document_write.
WriteRow == RowAt(First.stamp) /\ UNCHANGED saved

\* A removed source, a path key that is taken, or a row that is gone.
RowRefused ==
  /\ pc = "write"
  /\ embedded # <<>>
  /\ src \notin known \/ First.new = HasRow(docs, First.file)
  /\ ReleaseAs(docs)
  /\ CountFailures(1)
  /\ UNCHANGED faults

\* The chunks are inserted and the savepoint is released.
WriteChunks ==
  /\ pc = "chunks"
  /\ ReleaseAs([docs EXCEPT ![First.file].text = First.text])
  /\ tally' = [tally EXCEPT !.completed = @ + 1]
  /\ UNCHANGED faults

\* Faulty variant: the document is not recorded as failed.
WriteFailsUncounted ==
  /\ pc = "chunks"
  /\ Fault("write")
  /\ ReleaseAs(mark)
  /\ UNCHANGED tally

\* The write fails: back to the savepoint.
WriteFails ==
  /\ pc = "chunks"
  /\ Fault("write")
  /\ ReleaseAs(mark)
  /\ CountFailures(1)

CommitBatch ==
  /\ pc = "write"
  /\ embedded = <<>>
  /\ CommitAs(docs)
  /\ pending' = <<>>
  /\ inline' = FALSE
  /\ pc' = IF inline THEN "walk" ELSE "close"
  /\ UNCHANGED <<faults, status, mark, walk, hand, embedded, tally>>

-----------------------------------------------------------------------------
(***************************************************************************)
(* The end of the scan.                                                    *)
(***************************************************************************)

DeleteUnseen(files) ==
  /\ pc = "close"
  /\ CommitAs([f \in Files |-> IF f \in files \ Seen THEN NoRow ELSE docs[f]])
  /\ pc' = "report"
  /\ UNCHANGED <<faults, status, mark, walk, hand, batch, tally>>

ScanComplete == complete /\ ~stopping /\ ~cut
DocumentsOf(s) == {f \in Files : HasRow(docs, f) /\ docs[f].src = s}

\* Faulty variants: a partial walk reconciles; the rows of every source do.
ReconcileAlways == DeleteUnseen(DocumentsOf(src))
ReconcileEverything == ScanComplete /\ DeleteUnseen(Files)

\* Only a complete enumeration may delete the rows of files it did not see.
Reconcile == ScanComplete /\ DeleteUnseen(DocumentsOf(src))

\* Faulty variant: a status no reader of the table knows.
ReportIncompleteAsStopped ==
  /\ pc = "close"
  /\ ~ScanComplete
  /\ src \in known
  /\ Mark("stopped")
  /\ CommitAs(docs)
  /\ ForgetScan
  /\ UNCHANGED faults

\* The status after an incomplete scan; its commit also ends an open transaction.
ReportIncomplete ==
  /\ pc = "close"
  /\ ~ScanComplete
  /\ src \in known
  /\ Mark(IF cut THEN "disabled" ELSE IF ~complete THEN "error" ELSE "paused")
  /\ CommitAs(docs)
  /\ ForgetScan
  /\ UNCHANGED faults

ReportComplete ==
  /\ pc = "report"
  /\ src \in known
  /\ Mark("idle")
  /\ ForgetScan
  /\ UNCHANGED <<faults, docs, saved, txn>>

\* source_stats() of a removed source raises out of scan_source.
ReportFindsSourceGone ==
  /\ pc = "report" \/ (pc = "close" /\ ~ScanComplete)
  /\ src \notin known
  /\ ForgetScan
  /\ UNCHANGED <<faults, status, docs, saved, txn>>

-----------------------------------------------------------------------------

Init ==
  /\ disk = [f \in Files |-> [there |-> TRUE, stamp |-> 1, content |-> 1]]
  /\ online = TRUE
  /\ edits = 0 /\ faults = 0
  /\ known = Sources /\ enabled = Sources
  /\ status = [s \in Sources |-> "idle"]
  /\ stopping = FALSE
  /\ docs = [f \in Files |-> NoRow]
  /\ saved = docs /\ mark = docs
  /\ txn = FALSE
  /\ pc = "idle"
  /\ src = NoSource
  /\ due = {} /\ yielded = {} /\ gone = {}
  /\ complete = TRUE /\ cut = FALSE
  /\ cur = NoFile /\ stat = 0 /\ old = NoOld /\ digest = 0
  /\ pending = <<>> /\ embedded = <<>> /\ inline = FALSE
  /\ tally = NoTally

\* What scan_source does with one entry, one document or one ending.
ScanStep ==
  /\ \/ FindOffline
     \/ NextEntryStops
     \/ NextEntryFindsSourceGone
     \/ \E f \in Files : NextEntry(f)
     \/ EndOfStream
     \/ StatFails
     \/ StatFile
     \/ HashFile
     \/ TouchRow
     \/ HashFails
     \/ Extract
     \/ ExtractFails
     \/ EmbedBatch
     \/ BackendFails
     \/ WriteRow
     \/ RowRefused
     \/ WriteChunks
     \/ WriteFails
     \/ CommitBatch
     \/ Reconcile
     \/ ReportIncomplete
     \/ ReportComplete
     \/ ReportFindsSourceGone
  /\ UNCHANGED <<disk, online, edits, known, enabled, stopping>>

FileStep ==
  /\ \/ \E f \in Files : WriteFile(f) \/ RemoveFile(f) \/ RestoreFile(f)
     \/ LoseVolume
     \/ MountVolume
  /\ UNCHANGED <<faults, table, stopping, rows>>

UserStep ==
  /\ \/ \E s \in Sources : SetEnabled(s) \/ RemoveSource(s) \/ Reindex(s)
     \/ RequestStop
     \/ Restart
  /\ UNCHANGED <<disk, online, faults>>

Next ==
  \/ \E s \in Sources : Begin(s)
  \/ ScanStep
  \/ MissEntries
  \/ Crash
  \/ FileStep
  \/ UserStep

Spec == Init /\ [][Next]_vars

\* A started scan goes on, each cycle of the daemon reaches every source, a
\* stopped daemon is started again and a lost volume comes back.
FairSpec ==
  /\ Spec
  /\ WF_vars(ScanStep)
  /\ \A s \in Sources : SF_vars(Begin(s))
  /\ WF_vars(Restart /\ UNCHANGED <<disk, online, faults>>)
  /\ WF_vars(MountVolume /\ UNCHANGED <<faults, table, stopping, rows>>)

-----------------------------------------------------------------------------
(***************************************************************************)
(* Properties.                                                             *)
(***************************************************************************)
Catalogs == [Files -> Row \union {NoRow}]

WorldOK ==
  /\ disk \in [Files -> [there : BOOLEAN, stamp : Nat, content : Nat]]
  /\ online \in BOOLEAN /\ stopping \in BOOLEAN
  /\ edits \in 0..MaxEdits /\ faults \in 0..MaxFaults
  /\ known \subseteq Sources /\ enabled \subseteq Sources
  /\ status \in [Sources -> Statuses]

RowsOK == docs \in Catalogs /\ saved \in Catalogs /\ mark \in Catalogs /\ txn \in BOOLEAN

WalkOK ==
  /\ pc \in PC
  /\ src \in Sources \union {NoSource}
  /\ pc # "idle" => src \in Sources
  /\ due \subseteq Files /\ yielded \subseteq Files /\ gone \subseteq Files
  /\ complete \in BOOLEAN /\ cut \in BOOLEAN

HandOK ==
  /\ cur \in Files \union {NoFile}
  /\ pc \in {"stat", "hash", "extract"} \/ inline => cur \in Files
  /\ stat \in Nat /\ digest \in Nat
  /\ old = NoOld \/ old \in [file : Files, digest : Nat, mode : Modes]

BatchOK ==
  /\ pending \in Seq(Prepared) /\ embedded \in Seq(Prepared) /\ inline \in BOOLEAN
  /\ pc = "chunks" => embedded # <<>> /\ HasRow(docs, First.file)

TallyOK == tally \in [seen : Int, accepted : Int, ignored : Int, failed : Int, completed : Int]

\* Every variable keeps its type, and a location of scan_source has the locals
\* it needs.
TypeOK == WorldOK /\ RowsOK /\ WalkOK /\ HandOK /\ BatchOK /\ TallyOK

\* A row that the next scan takes for unchanged, by the size and mtime of its
\* file, holds the text of that file and its path: nothing a scan skips is stale.
UnchangedMeansCurrent ==
  \A f \in Files :
    /\ HasRow(saved, f)
    /\ disk[f].there
    /\ saved[f].stamp = disk[f].stamp
    /\ saved[f].mode = Mode(f)
    => /\ saved[f].text = Text(f)
       /\ saved[f].path = f

\* The savepoint of _flush: no content document is committed without the chunks
\* of the version it was prepared from, whatever fails or dies in between.
CommittedWhole ==
  \A f \in Files : HasRow(saved, f) /\ saved[f].mode = "content" => saved[f].text # 0

\* The counters of result add up at every moment: each file seen is completed,
\* in hand or in the batch, and is accepted, ignored or failed.
EveryFileCountedOnce ==
  /\ tally.seen = tally.completed
       + (IF pc \in {"stat", "hash", "extract"} THEN 1 ELSE 0)
       + (IF pc \in {"write", "chunks"} THEN Len(embedded) ELSE Len(pending))
  /\ tally.seen = tally.accepted + tally.ignored + tally.failed

\* Deletion safety: while a scan runs, a committed document disappears only when
\* its file was missing at some moment of that scan, or its source is removed.
KeepWhatWasThere ==
  [][\A f \in Files :
       pc # "idle" /\ HasRow(saved, f) /\ ~HasRow(saved', f)
         => f \in gone \/ saved[f].src \notin known']_vars

\* A scan of one source leaves alone every document of a file that is not below
\* its root.
ScanTouchesOwnFiles ==
  [][\A f \in Files :
       pc # "idle" /\ f \notin Under[src] /\ saved'[f] # saved[f]
         => saved[f].src \notin known']_vars

\* What the repository says and the code does not keep; TLC finds the three statements
\* violated. The README describes each disagreement.

\* "Extraction, embedding and database failures are isolated per document":
\* a file that fails in the loop body leaves the documents of the others alone.
FailureIsIsolated ==
  [][\A f \in Files \ {cur} :
       pc \in {"stat", "hash", "extract"} /\ tally'.failed > tally.failed
         => docs'[f] = docs[f]]_vars

\* "A backend-wide failure which must not be treated as a bad document."
BackendFailureIsNobodys ==
  [][pc = "embed" /\ pc' = "walk" => tally'.failed = tally.failed]_vars

\* "existing content remains searchable" while a source is disabled, as long as
\* its file is there.
DisabledKeepsContent ==
  [][\A f \in Files :
       /\ HasRow(saved, f) /\ disk[f].there
       /\ saved[f].src \in known' \ enabled
       => HasRow(saved', f)]_vars

-----------------------------------------------------------------------------

\* The catalog agrees with the file.
Mirrors(f) ==
  IF disk[f].there /\ Kind[f] # "ignored"
    THEN /\ HasRow(saved, f)
         /\ saved[f].path = f
         /\ saved[f].stamp = disk[f].stamp
         /\ saved[f].mode = Mode(f)
         /\ saved[f].text = Text(f)
    ELSE ~HasRow(saved, f)

\* Two defects of the code leave a row that every later scan counts as unchanged.
\* The row of a metadata-only file was overwritten by the failed stat() of an Office
\* file (indexer.py:287, FailureIsIsolated): it has that file's path and no chunk,
\* and the mode the file would get anyway.
TakenOver(f) ==
  Kind[f] = "metadata" /\ HasRow(saved, f) /\ saved[f].path # f

\* A content file returned to an old content between its hash and its extraction
\* and back again later: the row has the digest of the content and the text of
\* another one, and the same digest is all that the scan asks for (indexer.py:253).
Misfiled(f) ==
  /\ HasRow(saved, f) /\ saved[f].mode = "content"
  /\ saved[f].digest = disk[f].content
  /\ saved[f].text # disk[f].content

\* Whatever else failed, was lost, stopped or raced on the way: once the edits end
\* and the sources stay enabled, the catalog comes to agree with the disk and stays
\* so, but for the files that the two defects hold.  Without either exception TLC
\* finds the property violated.
Convergence ==
  <>[](known = Sources /\ enabled = Sources)
    => <>[](\A f \in UNION {Under[s] : s \in Sources} :
              Mirrors(f) \/ TakenOver(f) \/ Misfiled(f))

=============================================================================
