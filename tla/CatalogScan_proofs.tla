------------------------- MODULE CatalogScan_proofs -------------------------
(***************************************************************************)
(* Proofs about CatalogScan, for any files, sources, nesting of sources,   *)
(* batch size and number of edits and faults: the variables keep their     *)
(* types (TypeCorrect); a scan deletes only documents whose file was       *)
(* missing (OnlyGoneFilesAreDeleted) and touches only the documents of     *)
(* files below its root (ScanStaysBelowItsRoot); the counters of the       *)
(* result add up (CountersAddUp); no content document is committed without *)
(* its chunks (ContentIsCommittedWhole); and a row that a scan would skip  *)
(* is not stale (SkippedRowsAreCurrent).                                   *)
(***************************************************************************)
EXTENDS CatalogScan, TLAPS

(***************************************************************************)
(* Types: first the operators the actions share, then one step per action. *)
(***************************************************************************)
LEMMA NoRowIsNoRow == NoRow \notin Row
  BY DEF Row, NoRow, Modes

LEMMA CommitTyped ==
  ASSUME NEW d \in Catalogs, mark \in Catalogs, CommitAs(d), UNCHANGED mark
  PROVE  RowsOK'
  BY DEF CommitAs, RowsOK, Catalogs

LEMMA ForgetTyped ==
  ASSUME ForgetScan
  PROVE  WalkOK' /\ HandOK' /\ BatchOK' /\ TallyOK' /\ mark' \in Catalogs
  <1>1. WalkOK'
    BY DEF ForgetScan, WalkOK, PC
  <1>2. HandOK'
    BY DEF ForgetScan, HandOK
  <1>3. BatchOK'
    <2>1. <<>> \in Seq(Prepared)
      OBVIOUS
    <2>2. QED
      BY <2>1 DEF ForgetScan, BatchOK
  <1>4. TallyOK'
    BY DEF ForgetScan, TallyOK, NoTally
  <1>5. mark' \in Catalogs
    BY DEF ForgetScan, Catalogs
  <1>6. QED
    BY <1>1, <1>2, <1>3, <1>4, <1>5

LEMMA MarkTyped ==
  ASSUME WorldOK, src \in Sources, NEW v \in Statuses, Mark(v)
  PROVE  status' \in [Sources -> Statuses]
  BY DEF WorldOK, Mark

LEMMA GiveUpTyped ==
  ASSUME TypeOK, src \in Sources, NEW v \in Statuses, GiveUp(v)
  PROVE  /\ RowsOK' /\ WalkOK' /\ HandOK' /\ BatchOK' /\ TallyOK'
         /\ status' \in [Sources -> Statuses]
  <1>1. RowsOK'
    BY ForgetTyped DEF GiveUp, Rollback, CommitAs, TypeOK, RowsOK, Catalogs
  <1>2. QED
    BY <1>1, ForgetTyped, MarkTyped DEF GiveUp, TypeOK

LEMMA CountTyped ==
  ASSUME TallyOK, NEW n \in Int, CountFailures(n)
  PROVE  TallyOK'
  <1>1. /\ tally.accepted - n \in Int
        /\ tally.failed + n \in Int
        /\ tally.completed + n \in Int
    BY DEF TallyOK
  <1>2. QED
    BY <1>1 DEF CountFailures, TallyOK

LEMMA RecordTyped ==
  ASSUME TypeOK, pc # "idle", NEW n \in Nat, RecordFailure(n)
  PROVE  WalkOK' /\ HandOK' /\ BatchOK' /\ TallyOK' /\ status' = status /\ mark' = mark
  <1>1. WalkOK'
    BY DEF RecordFailure, TypeOK, WalkOK, PC, walk
  <1>2. HandOK'
    BY DEF RecordFailure, TypeOK, HandOK, hand, batch
  <1>3. BatchOK'
    BY DEF RecordFailure, TypeOK, BatchOK, batch
  <1>4. TallyOK'
    BY CountTyped DEF RecordFailure, TypeOK
  <1>5. QED
    BY <1>1, <1>2, <1>3, <1>4 DEF RecordFailure

LEMMA FailedRowTyped ==
  ASSUME TypeOK, src \in Sources, cur \in Files
  PROVE  FailedRow \in Row
  BY DEF TypeOK, HandOK, FailedRow, Row, Modes

LEMMA FailFileTyped ==
  ASSUME TypeOK, pc # "idle", cur \in Files, NEW n \in Nat, FailFile(n)
  PROVE  /\ RowsOK' /\ WalkOK' /\ HandOK' /\ BatchOK' /\ TallyOK'
         /\ status' \in [Sources -> Statuses]
  <1>0. src \in Sources /\ status \in [Sources -> Statuses]
    BY DEF TypeOK, WalkOK, WorldOK
  <1>1. CASE DropFile(n)
    <2>1. RowsOK'
      BY <1>1, RecordTyped DEF DropFile, TypeOK, RowsOK, Catalogs
    <2>2. QED
      BY <1>0, <1>1, <2>1, RecordTyped DEF DropFile
  <1>2. CASE PreserveOldRow(n)
    <2>1. RecordFailure(n) /\ mark \in Catalogs /\ docs \in Catalogs
      BY <1>2 DEF PreserveOldRow, TypeOK, RowsOK
    <2>2. CASE HasRow(docs, old.file)
      <3>1. old.file \in Files
        BY <1>2 DEF PreserveOldRow, TypeOK, HandOK, NoOld
      <3>2. docs[old.file] \in Row
        BY <2>1, <2>2, <3>1 DEF HasRow, Catalogs
      <3>3. [FailedRow EXCEPT !.digest = docs[old.file].digest] \in Row
        BY <3>2, <1>0, FailedRowTyped DEF Row
      <3>4. [docs EXCEPT ![old.file] = [FailedRow EXCEPT !.digest = docs[old.file].digest]]
              \in Catalogs
        BY <2>1, <3>3 DEF Catalogs
      <3>5. RowsOK'
        BY <1>2, <2>1, <2>2, <3>4, CommitTyped, RecordTyped DEF PreserveOldRow
      <3>6. QED
        BY <1>0, <2>1, <3>5, RecordTyped
    <2>3. CASE ~HasRow(docs, old.file)
      <3>1. RowsOK'
        BY <1>2, <2>1, <2>3, CommitTyped, RecordTyped DEF PreserveOldRow
      <3>2. QED
        BY <1>0, <2>1, <3>1, RecordTyped
    <2>4. QED
      BY <2>2, <2>3
  <1>3. CASE PreserveNewRow(n)
    <2>1. RecordFailure(n) /\ mark \in Catalogs /\ docs \in Catalogs
      BY <1>3 DEF PreserveNewRow, TypeOK, RowsOK
    <2>2. [docs EXCEPT ![cur] = FailedRow] \in Catalogs
      BY <2>1, <1>0, FailedRowTyped DEF Catalogs
    <2>3. RowsOK'
      BY <1>3, <2>1, <2>2, CommitTyped, RecordTyped DEF PreserveNewRow
    <2>4. QED
      BY <1>0, <2>1, <2>3, RecordTyped
  <1>4. CASE PreserveRaises
    BY <1>0, <1>4, GiveUpTyped DEF PreserveRaises, Statuses
  <1>5. QED
    BY <1>1, <1>2, <1>3, <1>4 DEF FailFile

\* What a step of the scanner may change keeps its type.
ScanTyped ==
  /\ RowsOK /\ WalkOK /\ HandOK /\ BatchOK /\ TallyOK
  /\ status \in [Sources -> Statuses]
  /\ faults \in 0..MaxFaults

LEMMA FaultTyped ==
  ASSUME WorldOK, UNCHANGED faults \/ \E k \in FaultKinds : Fault(k)
  PROVE  faults' \in 0..MaxFaults
  BY ScanAssumption DEF ScanAssumption, Fault, WorldOK

LEMMA GiveUpScanTyped ==
  ASSUME TypeOK, pc # "idle", NEW v \in Statuses, GiveUp(v),
         UNCHANGED faults \/ \E k \in FaultKinds : Fault(k)
  PROVE  ScanTyped'
  BY GiveUpTyped, FaultTyped DEF ScanTyped, TypeOK, WalkOK

LEMMA FailFileScanTyped ==
  ASSUME TypeOK, pc \in {"stat", "hash", "extract"} \/ (pc = "embed" /\ inline),
         NEW n \in Nat, FailFile(n),
         UNCHANGED faults \/ \E k \in FaultKinds : Fault(k)
  PROVE  ScanTyped'
  <1>1. cur \in Files
    BY DEF TypeOK, HandOK
  <1>2. QED
    BY <1>1, FailFileTyped, FaultTyped DEF ScanTyped, TypeOK

\* A failure of the backend in the flush a file caused fails that file.
LEMMA BackendFailsCases ==
  ASSUME TypeOK, BackendFails
  PROVE  /\ pc = "embed" /\ Fault("backend")
         /\ \/ inline /\ \E n \in Nat : FailFile(n)
            \/ ~inline /\ GiveUp("error")
  <1>1. 1..Len(pending) \subseteq Nat
    BY DEF TypeOK, BatchOK
  <1>2. QED
    BY <1>1 DEF BackendFails

LEMMA PreparedRowTyped ==
  ASSUME TypeOK, cur \in Files, NEW st \in Nat, NEW dg \in Nat, NEW m \in Modes,
         NEW tx \in Nat, NEW new \in BOOLEAN, pc # "idle",
         Prepare([file |-> cur, stamp |-> st, digest |-> dg, mode |-> m, text |-> tx, new |-> new])
  PROVE  /\ pc' \in {"embed", "walk"} /\ inline' \in BOOLEAN
         /\ BatchOK'
  <1> DEFINE doc == [file |-> cur, stamp |-> st, digest |-> dg, mode |-> m,
                     text |-> tx, new |-> new]
  <1>1. doc \in Prepared
    BY DEF Prepared
  <1>2. pending' = Append(pending, doc) /\ pending \in Seq(Prepared)
    BY DEF Prepare, TypeOK, BatchOK
  <1>3. pending' \in Seq(Prepared)
    BY <1>1, <1>2
  <1>4. pc' \in {"embed", "walk"} /\ inline' \in BOOLEAN /\ embedded' = embedded
    BY DEF Prepare
  <1>5. QED
    BY <1>3, <1>4 DEF TypeOK, BatchOK

LEMMA ScanStepTyped ==
  ASSUME TypeOK, ScanStep
  PROVE  TypeOK'
  <1> USE DEF TypeOK
  <1>1. ASSUME FindOffline PROVE ScanTyped'
    BY <1>1, GiveUpScanTyped DEF FindOffline, Statuses
  <1>2. ASSUME NextEntryFindsSourceGone PROVE ScanTyped'
    BY <1>2, GiveUpScanTyped DEF NextEntryFindsSourceGone, Statuses
  <1>3. ASSUME NextEntryStops \/ EndOfStream PROVE ScanTyped'
    <2>1. LeaveWalk /\ cut' \in BOOLEAN /\ pc = "walk"
      BY <1>3 DEF NextEntryStops, EndOfStream, WalkOK, WorldOK
    <2>2. pc' \in {"close", "embed"} /\ inline' = FALSE /\ UNCHANGED <<faults, status, tally>>
      BY <2>1 DEF LeaveWalk
    <2>3. RowsOK' /\ WalkOK'
      BY <2>1, <2>2 DEF LeaveWalk, rows, RowsOK, WalkOK, PC
    <2>4. HandOK' /\ BatchOK' /\ TallyOK'
      BY <2>1, <2>2 DEF LeaveWalk, hand, HandOK, BatchOK, TallyOK
    <2>5. QED
      BY <2>2, <2>3, <2>4 DEF ScanTyped, WorldOK
  <1>4. ASSUME NEW f \in Files, NextEntry(f) PROVE ScanTyped'
    <2>1. UNCHANGED <<faults, status, rows, batch>>
      BY <1>4 DEF NextEntry
    <2>2. pc' \in {"walk", "stat"} /\ cur' \in {cur, f} /\ (pc' = "stat" => cur' = f)
      BY <1>4 DEF NextEntry
    <2>3. RowsOK' /\ BatchOK'
      BY <2>1, <2>2 DEF RowsOK, BatchOK, rows, batch
    <2>4. WalkOK'
      BY <1>4, <2>2 DEF NextEntry, WalkOK, PC
    <2>5. HandOK'
      BY <1>4, <2>1, <2>2 DEF NextEntry, HandOK, batch
    <2>6. TallyOK'
      <3>1. \A n \in Int : n + 1 \in Int
        OBVIOUS
      <3>2. /\ tally.seen + 1 \in Int /\ tally.ignored + 1 \in Int
            /\ tally.accepted + 1 \in Int /\ tally.completed + 1 \in Int
        BY <3>1 DEF TallyOK
      <3>3. QED
        BY <1>4, <3>2 DEF NextEntry, TallyOK
    <2>7. QED
      BY <2>1, <2>3, <2>4, <2>5, <2>6 DEF ScanTyped, WorldOK
  <1>5. ASSUME StatFails PROVE ScanTyped'
    <2>1. UNCHANGED faults \/ \E k \in FaultKinds : Fault(k)
      BY <1>5 DEF StatFails, Fault
    <2>2. QED
      BY <1>5, <2>1, FailFileScanTyped DEF StatFails
  <1>6. ASSUME HashFails PROVE ScanTyped'
    BY <1>6, FailFileScanTyped DEF HashFails
  <1>7. ASSUME ExtractFails PROVE ScanTyped'
    <2>1. UNCHANGED faults \/ \E k \in FaultKinds : Fault(k)
      BY <1>7 DEF ExtractFails, Fault
    <2>2. QED
      BY <1>7, <2>1, FailFileScanTyped DEF ExtractFails
  <1>8. ASSUME BackendFails PROVE ScanTyped'
    <2>1. \E k \in FaultKinds : Fault(k)
      BY <1>8 DEF BackendFails, Fault
    <2>2. CASE inline
      BY <1>8, <2>1, <2>2, FailFileScanTyped, BackendFailsCases
    <2>3. CASE ~inline
      BY <1>8, <2>1, <2>3, GiveUpScanTyped DEF BackendFails, Statuses
    <2>4. QED
      BY <2>2, <2>3
  <1>9. ASSUME StatFile PROVE ScanTyped'
    <2>1. UNCHANGED <<faults, status, rows, walk, cur, digest>> /\ cur \in Files /\ pc = "stat"
      BY <1>9 DEF StatFile, HandOK
    <2>2. stat' \in Nat /\ stat' = disk[cur].stamp
      BY <1>9, <2>1 DEF StatFile, WorldOK
    <2>3. old' = NoOld \/ old' \in [file : Files, digest : Nat, mode : Modes]
      <3>1. CASE HasRow(docs, cur)
        <4>1. docs[cur] \in Row
          BY <2>1, <3>1 DEF HasRow, RowsOK, Catalogs
        <4>2. QED
          BY <1>9, <2>1, <3>1, <4>1 DEF StatFile, RowFor, Row
      <3>2. CASE ~HasRow(docs, cur)
        BY <1>9, <3>2 DEF StatFile, RowFor
      <3>3. QED
        BY <3>1, <3>2
    <2>4. pc' \in {"walk", "hash", "embed"} /\ inline' \in BOOLEAN /\ BatchOK'
      <3>1. CASE Unchanged(cur)
        BY <1>9, <2>1, <3>1 DEF StatFile, BatchOK, batch
      <3>2. CASE ~Unchanged(cur) /\ Mode(cur) = "content"
        BY <1>9, <2>1, <3>2 DEF StatFile, BatchOK, batch
      <3>3. CASE ~Unchanged(cur) /\ Mode(cur) # "content"
        <4>1. Prepare([file |-> cur, stamp |-> stat', digest |-> 0, mode |-> "metadata",
                       text |-> stat', new |-> old' = NoOld])
          BY <1>9, <3>3 DEF StatFile
        <4>2. 0 \in Nat /\ "metadata" \in Modes /\ (old' = NoOld) \in BOOLEAN /\ pc # "idle"
          BY <2>1 DEF Modes
        <4>3. QED
          BY <2>1, <2>2, <4>1, <4>2, PreparedRowTyped
      <3>4. QED
        BY <3>1, <3>2, <3>3
    <2>5. RowsOK' /\ WalkOK'
      BY <2>1, <2>4 DEF rows, walk, RowsOK, WalkOK, PC
    <2>6. HandOK'
      BY <2>1, <2>2, <2>3, <2>4 DEF HandOK
    <2>7. TallyOK'
      <3>1. tally.completed + 1 \in Int
        BY DEF TallyOK
      <3>2. QED
        BY <1>9, <3>1 DEF StatFile, TallyOK
    <2>8. QED
      BY <2>1, <2>4, <2>5, <2>6, <2>7 DEF ScanTyped, WorldOK
  <1>10. ASSUME HashFile PROVE ScanTyped'
    <2>1. cur \in Files /\ digest' = disk[cur].content
      BY <1>10 DEF HashFile, HandOK
    <2>2. HandOK'
      BY <1>10, <2>1 DEF HashFile, HandOK, WorldOK, batch
    <2>3. RowsOK' /\ WalkOK' /\ BatchOK' /\ TallyOK'
      BY <1>10 DEF HashFile, rows, walk, batch, RowsOK, WalkOK, BatchOK, TallyOK, PC
    <2>4. QED
      BY <1>10, <2>2, <2>3 DEF HashFile, ScanTyped, WorldOK
  <1>11. ASSUME TouchRow PROVE ScanTyped'
    <2>1. cur \in Files /\ digest' = disk[cur].content /\ pc = "hash" /\ pc' = "walk"
      BY <1>11 DEF TouchRow, HandOK
    <2>2. HandOK'
      BY <1>11, <2>1 DEF TouchRow, HandOK, WorldOK, batch
    <2>3. docs' \in Catalogs
      <3>1. CASE HasRow(docs, cur)
        <4>1. docs[cur] \in Row
          BY <2>1, <3>1 DEF HasRow, RowsOK, Catalogs
        <4>2. [docs[cur] EXCEPT !.src = src, !.path = cur, !.stamp = stat] \in Row
          BY <2>1, <4>1 DEF Row, WalkOK, HandOK
        <4>3. docs' = [docs EXCEPT ![cur] = [docs[cur] EXCEPT !.src = src, !.path = cur,
                                                              !.stamp = stat]]
          BY <1>11, <2>1, <3>1 DEF TouchRow, RowsOK, Catalogs
        <4>4. QED
          BY <2>1, <4>2, <4>3 DEF RowsOK, Catalogs
      <3>2. CASE ~HasRow(docs, cur)
        BY <1>11, <3>2 DEF TouchRow, RowsOK
      <3>3. QED
        BY <3>1, <3>2
    <2>4. RowsOK' /\ WalkOK' /\ BatchOK'
      BY <1>11, <2>1, <2>3 DEF TouchRow, walk, batch, RowsOK, WalkOK, BatchOK, PC
    <2>5. TallyOK'
      <3>1. tally.completed + 1 \in Int
        BY DEF TallyOK
      <3>2. QED
        BY <1>11, <3>1 DEF TouchRow, TallyOK
    <2>6. QED
      BY <1>11, <2>2, <2>4, <2>5 DEF TouchRow, ScanTyped, WorldOK
  <1>12. ASSUME Extract PROVE ScanTyped'
    <2>1. UNCHANGED <<faults, status, rows, walk, hand, tally>> /\ cur \in Files /\ pc = "extract"
      BY <1>12 DEF Extract, HandOK
    <2>2. Prepare([file |-> cur, stamp |-> stat, digest |-> digest, mode |-> "content",
                   text |-> disk[cur].content, new |-> old = NoOld])
      BY <1>12 DEF Extract
    <2>3. /\ stat \in Nat /\ digest \in Nat /\ "content" \in Modes
          /\ disk[cur].content \in Nat /\ (old = NoOld) \in BOOLEAN
      BY <2>1 DEF HandOK, WorldOK, Modes
    <2>4. pc' \in {"embed", "walk"} /\ inline' \in BOOLEAN /\ BatchOK'
      BY <2>1, <2>2, <2>3, PreparedRowTyped
    <2>5. RowsOK' /\ WalkOK' /\ HandOK' /\ TallyOK'
      BY <2>1, <2>4 DEF rows, walk, hand, RowsOK, WalkOK, HandOK, TallyOK, PC
    <2>6. QED
      BY <2>1, <2>4, <2>5 DEF ScanTyped, WorldOK
  <1>13. ASSUME EmbedBatch PROVE ScanTyped'
    <2>0. PICK n \in 0..Len(pending) : \E pick \in [1..n -> 1..Len(pending)] :
            /\ embedded' = [i \in 1..n |-> pending[pick[i]]]
            /\ CountFailures(Len(pending) - n)
            /\ UNCHANGED faults \/ Fault("embed")
      BY <1>13 DEF EmbedBatch
    <2>1. PICK pick \in [1..n -> 1..Len(pending)] :
            /\ embedded' = [i \in 1..n |-> pending[pick[i]]]
            /\ CountFailures(Len(pending) - n)
            /\ UNCHANGED faults \/ Fault("embed")
      BY <2>0
    <2>2. pending \in Seq(Prepared) /\ Len(pending) \in Nat /\ n \in Nat
      BY DEF BatchOK
    <2>3. \A i \in 1..n : pending[pick[i]] \in Prepared
      BY <2>2
    <2>4. embedded' \in Seq(Prepared)
      BY <2>1, <2>2, <2>3
    <2>5. pc' = "write" /\ UNCHANGED <<status, rows, walk, hand, pending, inline>> /\ pc = "embed"
      BY <1>13 DEF EmbedBatch
    <2>6. RowsOK' /\ WalkOK' /\ HandOK' /\ BatchOK'
      BY <2>4, <2>5 DEF rows, walk, hand, RowsOK, WalkOK, HandOK, BatchOK, PC
    <2>7. TallyOK'
      BY <2>1, <2>2, CountTyped
    <2>8. faults' \in 0..MaxFaults
      BY <2>1, ScanAssumption DEF ScanAssumption, Fault, WorldOK
    <2>9. QED
      BY <2>5, <2>6, <2>7, <2>8 DEF ScanTyped, WorldOK
  <1>14. ASSUME WriteRow PROVE ScanTyped'
    <2>1. /\ pc = "write" /\ pc' = "chunks" /\ embedded # <<>> /\ mark' = docs
          /\ UNCHANGED <<faults, status, txn, walk, hand, batch, tally, saved>>
      BY <1>14 DEF WriteRow, RowAt
    <2>2. First \in Prepared
      BY <2>1 DEF First, BatchOK
    <2>3. [src |-> src, path |-> First.file, stamp |-> First.stamp, digest |-> First.digest,
           mode |-> First.mode, text |-> 0] \in Row
      BY <2>1, <2>2 DEF Prepared, Row, WalkOK
    <2>4. docs' \in Catalogs
      BY <1>14, <2>2, <2>3 DEF WriteRow, RowAt, RowsOK, Catalogs, Prepared
    <2>5. RowsOK' /\ WalkOK' /\ HandOK' /\ TallyOK'
      BY <2>1, <2>4 DEF walk, hand, batch, RowsOK, WalkOK, HandOK, TallyOK, PC
    <2>6. HasRow(docs, First.file)'
      <3>1. First' = First /\ First.file \in Files
        BY <2>1, <2>2 DEF First, batch, Prepared
      <3>2. docs'[First.file] \in Row
        BY <1>14, <2>3, <3>1 DEF WriteRow, RowAt, RowsOK, Catalogs
      <3>3. QED
        BY <3>1, <3>2, NoRowIsNoRow DEF HasRow
    <2>7. BatchOK'
      BY <2>1, <2>6 DEF batch, BatchOK
    <2>8. QED
      BY <2>1, <2>5, <2>7 DEF ScanTyped, WorldOK
  <1>15. ASSUME NEW d \in Catalogs, ReleaseAs(d), pc \in {"write", "chunks"}, embedded # <<>>
         PROVE  RowsOK' /\ WalkOK' /\ HandOK' /\ BatchOK' /\ status' = status
    <2>1. pc' = "write" /\ UNCHANGED <<status, txn, mark, walk, hand, pending, inline>>
      BY <1>15 DEF ReleaseAs
    <2>2. RowsOK'
      BY <1>15, <2>1 DEF ReleaseAs, RowsOK
    <2>3. embedded' \in Seq(Prepared)
      BY <1>15 DEF ReleaseAs, BatchOK
    <2>4. WalkOK' /\ HandOK' /\ BatchOK'
      BY <1>15, <2>1, <2>3 DEF walk, hand, WalkOK, HandOK, BatchOK, PC
    <2>5. QED
      BY <2>1, <2>2, <2>4
  <1>16. ASSUME RowRefused PROVE ScanTyped'
    <2>1. /\ docs \in Catalogs /\ ReleaseAs(docs) /\ pc = "write" /\ embedded # <<>>
          /\ CountFailures(1) /\ UNCHANGED faults
      BY <1>16 DEF RowRefused, RowsOK
    <2>2. QED
      BY <2>1, <1>15, CountTyped DEF ScanTyped, WorldOK
  <1>17. ASSUME WriteChunks PROVE ScanTyped'
    <2>1. pc = "chunks" /\ embedded # <<>> /\ UNCHANGED faults
      BY <1>17 DEF WriteChunks, BatchOK
    <2>2. First \in Prepared
      BY <2>1 DEF First, BatchOK
    <2>3. [docs EXCEPT ![First.file].text = First.text] \in Catalogs
      <3>1. First.file \in Files /\ First.text \in Nat /\ docs \in Catalogs
        BY <2>2 DEF Prepared, RowsOK
      <3>2. docs[First.file] \in Row
        BY <2>1, <3>1 DEF RowsOK, BatchOK, HasRow, Catalogs
      <3>3. [docs[First.file] EXCEPT !.text = First.text] \in Row
        BY <3>1, <3>2 DEF Row
      <3>4. QED
        BY <3>1, <3>3 DEF Catalogs
    <2>4. tally.completed + 1 \in Int
      BY DEF TallyOK
    <2>5. TallyOK'
      BY <1>17, <2>4 DEF WriteChunks, TallyOK
    <2>6. QED
      BY <1>17, <2>1, <2>3, <2>5, <1>15 DEF WriteChunks, ScanTyped, WorldOK
  <1>18. ASSUME WriteFails PROVE ScanTyped'
    <2>1. /\ mark \in Catalogs /\ ReleaseAs(mark) /\ pc = "chunks" /\ embedded # <<>>
          /\ CountFailures(1) /\ Fault("write")
      BY <1>18 DEF WriteFails, RowsOK, BatchOK
    <2>2. faults' \in 0..MaxFaults
      BY <2>1, ScanAssumption DEF ScanAssumption, Fault, WorldOK
    <2>3. QED
      BY <2>1, <2>2, <1>15, CountTyped DEF ScanTyped, WorldOK
  <1>19. ASSUME CommitBatch PROVE ScanTyped'
    <2>1. /\ pc = "write" /\ pc' \in {"walk", "close"} /\ inline' = FALSE /\ pending' = <<>>
          /\ UNCHANGED <<faults, status, mark, walk, hand, embedded, tally>> /\ CommitAs(docs)
      BY <1>19 DEF CommitBatch
    <2>2. RowsOK'
      BY <2>1, CommitTyped DEF RowsOK
    <2>3. <<>> \in Seq(Prepared)
      OBVIOUS
    <2>4. WalkOK' /\ HandOK' /\ BatchOK' /\ TallyOK'
      BY <2>1, <2>3 DEF walk, hand, WalkOK, HandOK, BatchOK, TallyOK, PC
    <2>5. QED
      BY <2>1, <2>2, <2>4 DEF ScanTyped, WorldOK
  <1>20. ASSUME Reconcile PROVE ScanTyped'
    <2> DEFINE left == [f \in Files |-> IF f \in DocumentsOf(src) \ Seen THEN NoRow ELSE docs[f]]
    <2>1. /\ pc = "close" /\ pc' = "report" /\ CommitAs(left)
          /\ UNCHANGED <<faults, status, mark, walk, hand, batch, tally>>
      BY <1>20 DEF Reconcile, DeleteUnseen
    <2>2. left \in Catalogs
      BY DEF RowsOK, Catalogs
    <2>3. RowsOK'
      BY <2>1, <2>2, CommitTyped DEF RowsOK
    <2>4. WalkOK' /\ HandOK' /\ BatchOK' /\ TallyOK'
      BY <2>1 DEF walk, hand, batch, WalkOK, HandOK, BatchOK, TallyOK, PC
    <2>5. QED
      BY <2>1, <2>3, <2>4 DEF ScanTyped, WorldOK
  <1>21. ASSUME ReportIncomplete \/ ReportComplete PROVE ScanTyped'
    <2>1. \E v \in Statuses : Mark(v)
      BY <1>21 DEF ReportIncomplete, ReportComplete, Statuses
    <2>2. src \in Sources
      BY <1>21 DEF ReportIncomplete, ReportComplete, WalkOK
    <2>3. docs' \in Catalogs /\ saved' \in Catalogs /\ txn' \in BOOLEAN
      BY <1>21 DEF ReportIncomplete, ReportComplete, CommitAs, RowsOK
    <2>4. ForgetScan /\ UNCHANGED faults
      BY <1>21 DEF ReportIncomplete, ReportComplete
    <2>5. QED
      BY <2>1, <2>2, <2>3, <2>4, MarkTyped, ForgetTyped DEF ScanTyped, RowsOK, WorldOK
  <1>22. ASSUME ReportFindsSourceGone PROVE ScanTyped'
    BY <1>22, ForgetTyped DEF ReportFindsSourceGone, ScanTyped, RowsOK, WorldOK
  <1>23. UNCHANGED <<disk, online, edits, known, enabled, stopping>>
    BY DEF ScanStep
  <1>24. ScanTyped'
    BY <1>1, <1>2, <1>3, <1>4, <1>5, <1>6, <1>7, <1>8, <1>9, <1>10, <1>11, <1>12, <1>13,
       <1>14, <1>16, <1>17, <1>18, <1>19, <1>20, <1>21, <1>22 DEF ScanStep
  <1>25. QED
    BY <1>23, <1>24 DEF ScanTyped, WorldOK

LEMMA BeginTyped ==
  ASSUME TypeOK, NEW x \in Sources, Begin(x)
  PROVE  TypeOK'
  <1> USE DEF TypeOK
  <1>1. /\ pc' = "walk" /\ src' = x /\ status' = [status EXCEPT ![x] = "scanning"]
        /\ CommitAs(docs) /\ pc = "idle"
        /\ UNCHANGED <<disk, online, edits, faults, known, enabled, stopping, mark,
                       yielded, complete, cut, hand, batch, tally>>
    BY DEF Begin
  <1>2. RowsOK'
    BY <1>1, CommitTyped DEF RowsOK
  <1>3. WalkOK'
    BY <1>1, ScanAssumption DEF Begin, WalkOK, PC, ScanAssumption
  <1>4. WorldOK' /\ HandOK' /\ BatchOK' /\ TallyOK'
    BY <1>1 DEF WorldOK, HandOK, BatchOK, TallyOK, hand, batch, Statuses
  <1>5. QED
    BY <1>2, <1>3, <1>4

LEMMA WithoutTyped ==
  ASSUME NEW d \in Catalogs, NEW x \in Sources
  PROVE  Without(d, x) \in Catalogs
  BY DEF Without, Catalogs

LEMMA CrashTyped ==
  ASSUME TypeOK, Crash
  PROVE  TypeOK'
  <1>1. /\ Rollback /\ ForgetScan /\ stopping' = FALSE /\ Fault("crash")
        /\ UNCHANGED <<disk, online, edits, table>>
    BY DEF Crash
  <1>2. docs' \in Catalogs /\ saved' \in Catalogs /\ txn' \in BOOLEAN
    BY <1>1 DEF Rollback, CommitAs, TypeOK, RowsOK
  <1>3. faults' \in 0..MaxFaults
    BY <1>1, ScanAssumption DEF ScanAssumption, Fault, TypeOK, WorldOK
  <1>4. QED
    BY <1>1, <1>2, <1>3, ForgetTyped DEF TypeOK, WorldOK, RowsOK, table

LEMMA MissEntriesTyped ==
  ASSUME TypeOK, MissEntries
  PROVE  TypeOK'
  <1>1. UNCHANGED faults \/ \E k \in FaultKinds : Fault(k)
    BY DEF MissEntries, Fault
  <1>2. faults' \in 0..MaxFaults
    BY <1>1, FaultTyped DEF TypeOK
  <1>3. QED
    BY <1>2 DEF MissEntries, TypeOK, WorldOK, RowsOK, WalkOK, HandOK, BatchOK, TallyOK,
                table, rows, hand, batch, First

LEMMA EditTyped ==
  ASSUME WorldOK, NEW k, Edit(k)
  PROVE  edits' \in 0..MaxEdits
  BY ScanAssumption DEF ScanAssumption, Edit, WorldOK

LEMMA ScanKeptTyped ==
  ASSUME TypeOK, UNCHANGED scan, RowsOK', docs' = docs
  PROVE  WalkOK' /\ HandOK' /\ BatchOK' /\ TallyOK'
  BY DEF TypeOK, scan, walk, hand, batch, WalkOK, HandOK, BatchOK, TallyOK, First

LEMMA FileStepTyped ==
  ASSUME TypeOK, FileStep
  PROVE  TypeOK'
  <1> USE DEF TypeOK
  <1>1. UNCHANGED <<faults, table, stopping, rows>>
    BY DEF FileStep
  <1>2. RowsOK'
    BY <1>1 DEF RowsOK, rows
  <1>3. ASSUME NEW f \in Files, WriteFile(f) PROVE TypeOK'
    <2>1. PICK content \in 1 .. (disk[f].stamp + 1) :
            /\ \E k : Edit(k)
            /\ disk' = [disk EXCEPT ![f].stamp = @ + 1, ![f].content = content]
      BY <1>3 DEF WriteFile
    <2>2. edits' \in 0..MaxEdits
      BY <2>1, EditTyped
    <2>3. disk[f].stamp + 1 \in Nat /\ content \in Nat
      BY DEF WorldOK
    <2>4. disk' \in [Files -> [there : BOOLEAN, stamp : Nat, content : Nat]]
      BY <2>1, <2>3 DEF WorldOK
    <2>5. UNCHANGED <<online, scan>>
      BY <1>3 DEF WriteFile
    <2>6. QED
      BY <1>1, <1>2, <2>2, <2>4, <2>5, ScanKeptTyped DEF WorldOK, table, rows
  <1>4. ASSUME NEW f \in Files, RemoveFile(f) PROVE TypeOK'
    <2>1. edits' \in 0..MaxEdits
      BY <1>4, EditTyped DEF RemoveFile
    <2>2. WalkOK'
      BY <1>4 DEF RemoveFile, WalkOK
    <2>3. HandOK' /\ BatchOK' /\ TallyOK'
      BY <1>1, <1>4 DEF RemoveFile, HandOK, BatchOK, TallyOK, hand, batch, rows, First
    <2>4. WorldOK'
      BY <1>1, <1>4, <2>1 DEF RemoveFile, WorldOK, table
    <2>5. QED
      BY <1>2, <2>2, <2>3, <2>4
  <1>5. ASSUME NEW f \in Files, RestoreFile(f) PROVE TypeOK'
    <2>1. edits' \in 0..MaxEdits
      BY <1>5, EditTyped DEF RestoreFile
    <2>2. WorldOK'
      BY <1>1, <1>5, <2>1 DEF RestoreFile, WorldOK, table
    <2>3. QED
      BY <1>1, <1>2, <1>5, <2>2, ScanKeptTyped DEF RestoreFile, rows
  <1>6. ASSUME LoseVolume PROVE TypeOK'
    <2>1. edits' \in 0..MaxEdits
      BY <1>6, EditTyped DEF LoseVolume
    <2>2. QED
      BY <1>1, <1>2, <1>6, <2>1, ScanKeptTyped DEF LoseVolume, WorldOK, table, rows
  <1>7. ASSUME MountVolume PROVE TypeOK'
    BY <1>1, <1>2, <1>7, ScanKeptTyped DEF MountVolume, WorldOK, table, rows
  <1>8. QED
    BY <1>3, <1>4, <1>5, <1>6, <1>7 DEF FileStep

LEMMA UserStepTyped ==
  ASSUME TypeOK, UserStep
  PROVE  TypeOK'
  <1> USE DEF TypeOK
  <1>1. UNCHANGED <<disk, online, faults>>
    BY DEF UserStep
  <1>2. ASSUME NEW x \in Sources, SetEnabled(x) PROVE TypeOK'
    <2>1. edits' \in 0..MaxEdits
      BY <1>2, EditTyped DEF SetEnabled
    <2>2. WorldOK'
      BY <1>1, <1>2, <2>1 DEF SetEnabled, WorldOK, Statuses
    <2>3. RowsOK' /\ docs' = docs /\ UNCHANGED scan
      BY <1>2 DEF SetEnabled, RowsOK, rows
    <2>4. QED
      BY <2>2, <2>3, ScanKeptTyped
  <1>3. ASSUME NEW x \in Sources, RemoveSource(x) PROVE TypeOK'
    <2>1. edits' \in 0..MaxEdits /\ pc # "chunks"
      BY <1>3, EditTyped DEF RemoveSource, WriteLocked
    <2>2. WorldOK'
      BY <1>1, <1>3, <2>1 DEF RemoveSource, WorldOK
    <2>3. RowsOK'
      BY <1>3, WithoutTyped DEF RemoveSource, RowsOK
    <2>4. WalkOK' /\ HandOK' /\ BatchOK' /\ TallyOK'
      BY <1>3, <2>1 DEF RemoveSource, scan, walk, hand, batch, WalkOK, HandOK, BatchOK, TallyOK
    <2>5. QED
      BY <2>2, <2>3, <2>4
  <1>4. ASSUME NEW x \in Sources, Reindex(x) PROVE TypeOK'
    <2>1. edits' \in 0..MaxEdits /\ pc = "idle"
      BY <1>4, EditTyped DEF Reindex
    <2>2. WorldOK'
      BY <1>1, <1>4, <2>1 DEF Reindex, WorldOK, table
    <2>3. RowsOK'
      BY <1>4, WithoutTyped DEF Reindex, RowsOK
    <2>4. WalkOK' /\ HandOK' /\ BatchOK' /\ TallyOK'
      BY <1>4, <2>1 DEF Reindex, scan, walk, hand, batch, WalkOK, HandOK, BatchOK, TallyOK
    <2>5. QED
      BY <2>2, <2>3, <2>4
  <1>5. ASSUME RequestStop PROVE TypeOK'
    <2>1. edits' \in 0..MaxEdits
      BY <1>5, EditTyped DEF RequestStop
    <2>2. QED
      BY <1>1, <1>5, <2>1, ScanKeptTyped DEF RequestStop, WorldOK, RowsOK, table, rows
  <1>6. ASSUME Restart PROVE TypeOK'
    BY <1>1, <1>6, ScanKeptTyped DEF Restart, WorldOK, RowsOK, table, rows
  <1>7. QED
    BY <1>2, <1>3, <1>4, <1>5, <1>6 DEF UserStep

\* Every variable of the scanner, the catalog and their surroundings keeps its
\* type: TypeOK is an invariant of Spec for all values of the constants.
THEOREM TypeCorrect == Spec => []TypeOK
  <1>1. Init => TypeOK
    <2> SUFFICES ASSUME Init PROVE TypeOK
      OBVIOUS
    <2>1. WorldOK
      <3>1. disk \in [Files -> [there : BOOLEAN, stamp : Nat, content : Nat]]
        BY DEF Init
      <3>2. edits \in 0..MaxEdits /\ faults \in 0..MaxFaults
        BY ScanAssumption DEF ScanAssumption, Init
      <3>3. status \in [Sources -> Statuses]
        BY DEF Init, Statuses
      <3>4. QED
        BY <3>1, <3>2, <3>3 DEF Init, WorldOK
    <2>2. RowsOK
      BY DEF Init, RowsOK, Catalogs
    <2>3. WalkOK /\ HandOK
      BY DEF Init, WalkOK, HandOK, PC
    <2>6. TallyOK
      BY DEF Init, TallyOK, NoTally
    <2>4. BatchOK
      <3>1. <<>> \in Seq(Prepared)
        OBVIOUS
      <3>2. QED
        BY <3>1 DEF Init, BatchOK
    <2>5. QED
      BY <2>1, <2>2, <2>3, <2>4, <2>6 DEF TypeOK
  <1>2. TypeOK /\ [Next]_vars => TypeOK'
    <2> SUFFICES ASSUME TypeOK, [Next]_vars PROVE TypeOK'
      OBVIOUS
    <2>1. CASE UNCHANGED vars
      <3>1. UNCHANGED scan /\ RowsOK' /\ docs' = docs
        BY <2>1 DEF vars, scan, rows, TypeOK, RowsOK
      <3>2. WorldOK'
        BY <2>1 DEF vars, table, TypeOK, WorldOK
      <3>3. QED
        BY <3>1, <3>2, ScanKeptTyped DEF TypeOK
    <2>2. QED
      BY <2>1, BeginTyped, ScanStepTyped, CrashTyped, MissEntriesTyped, FileStepTyped,
         UserStepTyped DEF Next
  <1>3. QED
    BY <1>1, <1>2, PTL DEF Spec

-----------------------------------------------------------------------------
(***************************************************************************)
(* Deletion safety.  A complete walk that was neither stopped nor cut      *)
(* reaches its end only when each file below the source was returned or    *)
(* was missing (Covered, Drained); every row of a source is about a file   *)
(* below its root that the walk does not ignore (OwnRows, OwnHand); and    *)
(* nothing but the reconciliation, a removed source or a reindex takes a   *)
(* row from the connection's view (RowsStay, NothingOpen).                 *)
(***************************************************************************)

\* What is committed stays in the connection's view and in its savepoint.
RowsStay ==
  \A f \in Files : HasRow(saved, f) => /\ HasRow(docs, f)
                                       /\ pc = "chunks" => HasRow(mark, f)

NothingOpen == ~txn /\ pc # "chunks" => docs = saved

Own(d) == \A f \in Files : HasRow(d, f) => f \in Under[d[f].src] /\ Kind[f] # "ignored"
OwnRows == Own(docs) /\ Own(saved) /\ Own(mark)

OwnHand ==
  /\ IF pc = "idle" THEN yielded = {} ELSE yielded \subseteq Under[src]
  /\ pc \in {"stat", "hash", "extract"} \/ inline => cur \in Seen
  /\ old # NoOld => old.file \in Seen
  /\ \A i \in 1..Len(pending) : pending[i].file \in Seen
  /\ \A i \in 1..Len(embedded) : embedded[i].file \in Seen

Covered == pc # "idle" /\ complete => Under[src] \subseteq yielded \union due \union gone

Drained ==
  pc = "close" \/ (pc \in {"embed", "write", "chunks"} /\ ~inline)
    => stopping \/ cut \/ due = {}

RowInv == RowsStay /\ NothingOpen /\ OwnRows
WalkInv == OwnHand /\ Covered /\ Drained
DeletionInv == TypeOK /\ RowInv /\ WalkInv

(***************************************************************************)
(* The operators the actions share.                                        *)
(***************************************************************************)
LEMMA CommitKeeps ==
  ASSUME NEW d, Own(d), Own(mark'), CommitAs(d), pc' # "chunks"
  PROVE  RowInv'
  BY DEF CommitAs, RowInv, RowsStay, NothingOpen, OwnRows, Own, HasRow

LEMMA ForgetKeeps ==
  ASSUME ForgetScan
  PROVE  WalkInv' /\ Own(mark') /\ pc' = "idle"
  <1>1. pc' = "idle" /\ yielded' = {} /\ inline' = FALSE /\ old' = NoOld
    BY DEF ForgetScan
  <1>2. Len(pending') = 0 /\ Len(embedded') = 0
    BY DEF ForgetScan
  <1>3. Own(mark')
    BY DEF ForgetScan, Own, HasRow
  <1>4. OwnHand'
    BY <1>1, <1>2 DEF OwnHand, Seen
  <1>5. Covered' /\ Drained'
    BY <1>1 DEF Covered, Drained
  <1>6. QED
    BY <1>1, <1>3, <1>4, <1>5 DEF WalkInv

LEMMA RollbackKeeps ==
  ASSUME DeletionInv, Rollback, ForgetScan
  PROVE  RowInv' /\ WalkInv'
  <1>1. Own(saved)
    BY DEF DeletionInv, RowInv, OwnRows
  <1>2. QED
    BY <1>1, ForgetKeeps, CommitKeeps DEF Rollback

LEMMA SeenBelow ==
  ASSUME DeletionInv, pc # "idle", NEW f \in Seen
  PROVE  f \in Files /\ f \in Under[src] /\ Kind[f] # "ignored"
  BY DEF DeletionInv, TypeOK, WalkOK, WalkInv, OwnHand, Seen

LEMMA RecordKeeps ==
  ASSUME DeletionInv, NEW n \in Nat, RecordFailure(n), pc # "idle"
  PROVE  WalkInv' /\ mark' = mark /\ pc' = "walk"
  <1>1. pc' = "walk" /\ UNCHANGED <<mark, walk, hand, batch>>
    BY DEF RecordFailure
  <1>2. OwnHand'
    BY <1>1 DEF DeletionInv, WalkInv, OwnHand, Seen, walk, hand, batch
  <1>3. Covered' /\ Drained'
    BY <1>1 DEF DeletionInv, WalkInv, Covered, Drained, walk
  <1>4. QED
    BY <1>1, <1>2, <1>3 DEF WalkInv

LEMMA FailFileKeeps ==
  ASSUME DeletionInv, NEW n \in Nat, FailFile(n),
         pc \in {"stat", "hash", "extract"} \/ (pc = "embed" /\ inline)
  PROVE  RowInv' /\ WalkInv'
  <1>0. /\ cur \in Seen /\ pc # "idle" /\ (old # NoOld => old.file \in Seen)
        /\ docs \in Catalogs /\ Own(docs) /\ Own(mark) /\ RowInv
        /\ src \in Sources /\ cur \in Files
    BY DEF DeletionInv, TypeOK, HandOK, RowsOK, WalkOK, RowInv, OwnRows, WalkInv, OwnHand
  <1>1. CASE DropFile(n)
    <2>1. pc' = "walk" /\ mark' = mark /\ WalkInv' /\ UNCHANGED <<docs, saved, txn>>
      BY <1>0, <1>1, RecordKeeps DEF DropFile
    <2>2. RowInv'
      BY <1>0, <2>1 DEF RowInv, RowsStay, NothingOpen, OwnRows
    <2>3. QED
      BY <2>1, <2>2
  <1>2. CASE PreserveOldRow(n)
    <2> DEFINE row == [FailedRow EXCEPT !.digest = docs[old.file].digest]
    <2>1. RecordFailure(n) /\ old # NoOld
      BY <1>2 DEF PreserveOldRow
    <2>2. old.file \in Files /\ old.file \in Under[src] /\ Kind[old.file] # "ignored"
      BY <1>0, <2>1, SeenBelow
    <2>3. row.src = src
      BY DEF FailedRow
    <2>4. Own([docs EXCEPT ![old.file] = row])
      BY <1>0, <2>2, <2>3 DEF Own, Catalogs, HasRow
    <2>5. QED
      BY <1>0, <1>2, <2>1, <2>4, RecordKeeps, CommitKeeps DEF PreserveOldRow
  <1>3. CASE PreserveNewRow(n)
    <2>1. RecordFailure(n)
      BY <1>3 DEF PreserveNewRow
    <2>2. cur \in Under[src] /\ Kind[cur] # "ignored"
      BY <1>0, SeenBelow
    <2>3. Own([docs EXCEPT ![cur] = FailedRow])
      BY <1>0, <2>2 DEF Own, Catalogs, HasRow, FailedRow
    <2>4. QED
      BY <1>0, <1>3, <2>1, <2>3, RecordKeeps, CommitKeeps DEF PreserveNewRow
  <1>4. CASE PreserveRaises
    BY <1>4, RollbackKeeps DEF PreserveRaises, GiveUp
  <1>5. QED
    BY <1>1, <1>2, <1>3, <1>4 DEF FailFile

LEMMA PrepareKeeps ==
  ASSUME DeletionInv, NEW doc, doc.file \in Seen, Prepare(doc), UNCHANGED walk,
         cur \in Seen, cur' = cur, pc # "idle", old' # NoOld => old'.file \in Seen
  PROVE  WalkInv'
  <1>1. pending \in Seq(Prepared) /\ embedded' = embedded /\ Seen' = Seen
    BY DEF DeletionInv, TypeOK, BatchOK, Prepare, Seen, walk
  <1>2. pending' = Append(pending, doc) /\ pc' \in {"embed", "walk"}
        /\ (pc' = "embed" => inline')
    BY DEF Prepare
  <1>3. \A i \in 1..Len(pending') : pending'[i].file \in Seen
    <2>1. Len(pending') = Len(pending) + 1
      BY <1>1, <1>2
    <2>2. \A i \in 1..Len(pending) : pending'[i] = pending[i]
      BY <1>1, <1>2
    <2>3. pending'[Len(pending) + 1] = doc
      BY <1>1, <1>2
    <2>4. QED
      BY <1>1, <2>1, <2>2, <2>3 DEF DeletionInv, WalkInv, OwnHand
  <1>4. OwnHand'
    BY <1>1, <1>2, <1>3 DEF DeletionInv, WalkInv, OwnHand, walk
  <1>5. Covered' /\ Drained'
    BY <1>2 DEF DeletionInv, WalkInv, Covered, Drained, walk
  <1>6. QED
    BY <1>4, <1>5 DEF WalkInv

(***************************************************************************)
(* The steps of the scanner.                                               *)
(***************************************************************************)
LEMMA RowsSame ==
  ASSUME RowInv, UNCHANGED rows, pc # "chunks", pc' # "chunks"
  PROVE  RowInv'
  BY DEF RowInv, RowsStay, NothingOpen, OwnRows, Own, HasRow, rows

LEMMA HandSame ==
  ASSUME DeletionInv, UNCHANGED <<src, yielded, cur, old, pending>>, inline' => inline,
         embedded' = embedded \/ embedded' = <<>>,
         pc # "idle", pc' \notin {"idle", "stat", "hash", "extract"}
  PROVE  OwnHand'
  <1>1. Seen' = Seen
    BY DEF Seen
  <1>2. OwnHand
    BY DEF DeletionInv, WalkInv
  <1>3. \A i \in 1..Len(embedded') : embedded'[i].file \in Seen
    BY <1>2 DEF OwnHand
  <1>4. QED
    BY <1>1, <1>2, <1>3 DEF OwnHand

LEMMA ReleaseKeeps ==
  ASSUME DeletionInv, NEW d, Own(d), ReleaseAs(d), UNCHANGED stopping, pc \in {"write", "chunks"},
         embedded # <<>>, \A f \in Files : HasRow(saved, f) => HasRow(d, f)
  PROVE  RowInv' /\ WalkInv'
  <1>1. /\ docs' = d /\ saved' = (IF txn THEN saved ELSE d) /\ pc' = "write"
        /\ UNCHANGED <<txn, mark, walk, hand, pending, inline>> /\ embedded' = Tail(embedded)
    BY DEF ReleaseAs
  <1>2. RowInv'
    BY <1>1 DEF DeletionInv, RowInv, RowsStay, NothingOpen, OwnRows, Own, HasRow
  <1>3. \A i \in 1..Len(embedded') : embedded'[i].file \in Seen
    <2>1. embedded \in Seq(Prepared)
      BY DEF DeletionInv, TypeOK, BatchOK
    <2>2. Len(embedded') = Len(embedded) - 1
      BY <1>1, <2>1
    <2>3. \A i \in 1..Len(embedded') : embedded'[i] = embedded[i + 1] /\ i + 1 \in 1..Len(embedded)
      BY <1>1, <2>1, <2>2
    <2>4. QED
      BY <2>3 DEF DeletionInv, WalkInv, OwnHand
  <1>4. OwnHand'
    BY <1>1, <1>3 DEF DeletionInv, WalkInv, OwnHand, Seen, walk, hand
  <1>5. Covered' /\ Drained'
    BY <1>1 DEF DeletionInv, WalkInv, Covered, Drained, walk
  <1>6. QED
    BY <1>2, <1>4, <1>5 DEF WalkInv

LEMMA ScanStepKeeps ==
  ASSUME DeletionInv, ScanStep
  PROVE  RowInv' /\ WalkInv'
  <1>0. /\ RowInv /\ WalkInv /\ docs \in Catalogs /\ Own(docs) /\ Own(mark) /\ Own(saved)
        /\ stopping' = stopping
    BY DEF DeletionInv, TypeOK, RowsOK, RowInv, OwnRows, ScanStep
  <1>1. ASSUME FindOffline \/ NextEntryFindsSourceGone PROVE RowInv' /\ WalkInv'
    BY <1>1, RollbackKeeps DEF FindOffline, NextEntryFindsSourceGone, GiveUp
  <1>2. ASSUME NextEntryStops \/ EndOfStream PROVE RowInv' /\ WalkInv'
    <2>1. /\ LeaveWalk /\ pc = "walk" /\ UNCHANGED rows
          /\ stopping \/ cut' \/ (due = {} /\ cut' = cut)
          /\ pc' \in {"close", "embed"} /\ inline' = FALSE
          /\ UNCHANGED <<src, due, yielded, gone, complete, hand, pending, embedded>>
      BY <1>2 DEF NextEntryStops, EndOfStream, LeaveWalk, DeletionInv, TypeOK, WorldOK
    <2>2. RowInv'
      BY <1>0, <2>1, RowsSame
    <2>3. OwnHand'
      BY <2>1, HandSame DEF hand
    <2>4. Covered' /\ Drained'
      BY <1>0, <2>1 DEF WalkInv, Covered, Drained
    <2>5. QED
      BY <2>2, <2>3, <2>4 DEF WalkInv
  <1>3. ASSUME NEW f \in Files, NextEntry(f) PROVE RowInv' /\ WalkInv'
    <2>1. /\ pc = "walk" /\ f \in Under[src] /\ pc' \in {"walk", "stat"}
          /\ UNCHANGED <<rows, src, gone, complete, cut, old, batch>>
          /\ yielded' = yielded \union {f} /\ due' = due \ {f}
          /\ \/ pc' = "stat" /\ cur' = f /\ Kind[f] # "ignored"
             \/ pc' = "walk" /\ cur' = cur
      BY <1>3 DEF NextEntry, Returns
    <2>2. RowInv'
      BY <1>0, <2>1, RowsSame
    <2>3. Seen \subseteq Seen' /\ (pc' = "stat" => cur' \in Seen')
      BY <2>1 DEF Seen
    <2>4. OwnHand'
      BY <1>0, <2>1, <2>3 DEF WalkInv, OwnHand, batch
    <2>5. Covered' /\ Drained'
      BY <1>0, <2>1 DEF WalkInv, Covered, Drained
    <2>6. QED
      BY <2>2, <2>4, <2>5 DEF WalkInv
  <1>4. ASSUME StatFails \/ HashFails \/ ExtractFails PROVE RowInv' /\ WalkInv'
    BY <1>4, FailFileKeeps DEF StatFails, HashFails, ExtractFails
  <1>5. ASSUME BackendFails PROVE RowInv' /\ WalkInv'
    <2>1. CASE inline
      BY <1>5, <2>1, FailFileKeeps, BackendFailsCases DEF DeletionInv
    <2>2. CASE ~inline
      BY <1>5, <2>2, RollbackKeeps DEF BackendFails, GiveUp
    <2>3. QED
      BY <2>1, <2>2
  <1>6. ASSUME StatFile PROVE RowInv' /\ WalkInv'
    <2>1. /\ pc = "stat" /\ cur \in Seen /\ cur' = cur /\ UNCHANGED <<rows, walk>>
          /\ Seen' = Seen
      BY <1>0, <1>6 DEF StatFile, WalkInv, OwnHand, Seen, walk
    <2>2. old' # NoOld => old'.file \in Seen
      BY <1>6, <2>1 DEF StatFile, RowFor
    <2>3. CASE pc' \in {"walk", "hash"} /\ UNCHANGED batch
      <3>1. RowInv'
        BY <1>0, <2>1, <2>3, RowsSame
      <3>2. OwnHand'
        BY <1>0, <2>1, <2>2, <2>3 DEF WalkInv, OwnHand, walk, batch
      <3>3. Covered' /\ Drained'
        BY <1>0, <2>1, <2>3 DEF WalkInv, Covered, Drained, walk
      <3>4. QED
        BY <3>1, <3>2, <3>3 DEF WalkInv
    <2>4. CASE Prepare([file |-> cur, stamp |-> stat', digest |-> 0, mode |-> "metadata",
                        text |-> stat', new |-> old' = NoOld])
      <3>1. pc' # "chunks"
        BY <2>4 DEF Prepare
      <3>2. RowInv'
        BY <1>0, <2>1, <3>1, RowsSame
      <3>3. QED
        BY <2>1, <2>2, <2>4, <3>2, PrepareKeeps
    <2>5. QED
      BY <1>6, <2>3, <2>4 DEF StatFile
  <1>7. ASSUME HashFile PROVE RowInv' /\ WalkInv'
    <2>1. pc = "hash" /\ pc' = "extract" /\ UNCHANGED <<rows, walk, cur, old, batch>>
      BY <1>7 DEF HashFile
    <2>2. RowInv'
      BY <1>0, <2>1, RowsSame
    <2>3. OwnHand' /\ Covered' /\ Drained'
      BY <1>0, <2>1 DEF WalkInv, OwnHand, Seen, Covered, Drained, walk, batch
    <2>4. QED
      BY <2>2, <2>3 DEF WalkInv
  <1>8. ASSUME TouchRow PROVE RowInv' /\ WalkInv'
    <2>1. /\ pc = "hash" /\ pc' = "walk" /\ txn' = TRUE
          /\ UNCHANGED <<saved, mark, walk, cur, old, batch>>
      BY <1>8 DEF TouchRow
    <2>2. cur \in Files /\ cur \in Under[src] /\ Kind[cur] # "ignored"
      BY <1>0, <2>1, SeenBelow DEF WalkInv, OwnHand
    <2>3. Own(docs') /\ \A f \in Files : HasRow(docs, f) => HasRow(docs', f)
      <3>1. CASE HasRow(docs, cur)
        <4> DEFINE row == [docs[cur] EXCEPT !.src = src, !.path = cur, !.stamp = stat]
        <4>1. docs[cur] \in Row
          BY <1>0, <2>2, <3>1 DEF HasRow, Catalogs
        <4>2. row.src = src /\ row.mode = docs[cur].mode
          BY <4>1 DEF Row
        <4>3. row # NoRow
          BY <4>1, <4>2 DEF Row, NoRow, Modes
        <4>4. docs' = [docs EXCEPT ![cur] = row]
          BY <1>0, <1>8, <2>2, <3>1 DEF TouchRow, Catalogs
        <4>5. QED
          BY <1>0, <2>2, <4>2, <4>3, <4>4 DEF Own, HasRow, Catalogs
      <3>2. CASE ~HasRow(docs, cur)
        BY <1>0, <1>8, <3>2 DEF TouchRow
      <3>3. QED
        BY <3>1, <3>2
    <2>4. RowInv'
      BY <1>0, <2>1, <2>3 DEF RowInv, RowsStay, NothingOpen, OwnRows, Own, HasRow
    <2>5. OwnHand' /\ Covered' /\ Drained'
      BY <1>0, <2>1 DEF WalkInv, OwnHand, Seen, Covered, Drained, walk, batch
    <2>6. QED
      BY <2>4, <2>5 DEF WalkInv
  <1>9. ASSUME Extract PROVE RowInv' /\ WalkInv'
    <2>1. pc = "extract" /\ UNCHANGED <<rows, walk, hand>> /\ pc' # "chunks" /\ cur \in Seen
      BY <1>0, <1>9 DEF Extract, Prepare, WalkInv, OwnHand
    <2>2. old' # NoOld => old'.file \in Seen
      BY <1>0, <2>1 DEF WalkInv, OwnHand, hand
    <2>3. WalkInv'
      BY <1>9, <2>1, <2>2, PrepareKeeps DEF Extract, hand
    <2>4. QED
      BY <1>0, <2>1, <2>3, RowsSame
  <1>10. ASSUME EmbedBatch PROVE RowInv' /\ WalkInv'
    <2>1. PICK n \in 0..Len(pending) : \E pick \in [1..n -> 1..Len(pending)] :
            embedded' = [i \in 1..n |-> pending[pick[i]]]
      BY <1>10 DEF EmbedBatch
    <2>2. PICK pick \in [1..n -> 1..Len(pending)] : embedded' = [i \in 1..n |-> pending[pick[i]]]
      BY <2>1
    <2>3. pc = "embed" /\ pc' = "write" /\ UNCHANGED <<rows, walk, hand, pending, inline>>
      BY <1>10 DEF EmbedBatch
    <2>4. \A i \in 1..Len(embedded') : embedded'[i].file \in Seen
      <3>1. pending \in Seq(Prepared) /\ Len(pending) \in Nat /\ n \in Nat
        BY DEF DeletionInv, TypeOK, BatchOK
      <3>2. Len(embedded') = n
        BY <2>2, <3>1
      <3>3. QED
        BY <1>0, <2>2, <3>2 DEF WalkInv, OwnHand
    <2>5. OwnHand'
      BY <1>0, <2>3, <2>4 DEF WalkInv, OwnHand, Seen, walk, hand
    <2>6. Covered' /\ Drained'
      BY <1>0, <2>3 DEF WalkInv, Covered, Drained, walk
    <2>7. QED
      BY <1>0, <2>3, <2>5, <2>6, RowsSame DEF WalkInv
  <1>11. ASSUME WriteRow PROVE RowInv' /\ WalkInv'
    <2> DEFINE row == [src |-> src, path |-> First.file, stamp |-> First.stamp,
                       digest |-> First.digest, mode |-> First.mode, text |-> 0]
    <2>1. /\ pc = "write" /\ pc' = "chunks" /\ mark' = docs /\ embedded # <<>>
          /\ docs' = [docs EXCEPT ![First.file] = row]
          /\ UNCHANGED <<saved, txn, walk, hand, batch>>
      BY <1>11 DEF WriteRow, RowAt
    <2>2. embedded \in Seq(Prepared) /\ First = embedded[1] /\ 1 \in 1..Len(embedded)
      BY <2>1 DEF First, DeletionInv, TypeOK, BatchOK
    <2>3. First.file \in Files /\ First.file \in Under[src] /\ Kind[First.file] # "ignored"
      BY <1>0, <2>1, <2>2, SeenBelow DEF WalkInv, OwnHand
    <2>4. row.src = src /\ row # NoRow
      <3>1. src \in Sources /\ First \in Prepared
        BY <2>1, <2>2 DEF DeletionInv, TypeOK, WalkOK
      <3>2. row \in Row
        BY <2>3, <3>1 DEF Row, Prepared
      <3>3. QED
        BY <3>2, NoRowIsNoRow
    <2>5. Own(docs') /\ \A f \in Files : HasRow(docs, f) => HasRow(docs', f)
      BY <1>0, <2>1, <2>3, <2>4 DEF Own, HasRow, Catalogs
    <2>6. RowInv'
      BY <1>0, <2>1, <2>5 DEF RowInv, RowsStay, NothingOpen, OwnRows, Own, HasRow
    <2>7. OwnHand'
      BY <1>0, <2>1 DEF WalkInv, OwnHand, Seen, walk, hand, batch
    <2>8. Covered' /\ Drained'
      BY <1>0, <2>1 DEF WalkInv, Covered, Drained, walk, batch
    <2>9. QED
      BY <2>6, <2>7, <2>8 DEF WalkInv
  <1>12. ASSUME RowRefused PROVE RowInv' /\ WalkInv'
    BY <1>0, <1>12, ReleaseKeeps DEF RowRefused, RowInv, RowsStay
  <1>13. ASSUME WriteChunks PROVE RowInv' /\ WalkInv'
    <2> DEFINE d == [docs EXCEPT ![First.file].text = First.text]
    <2>1. pc = "chunks" /\ embedded # <<>> /\ HasRow(docs, First.file) /\ ReleaseAs(d)
      BY <1>13 DEF WriteChunks, DeletionInv, TypeOK, BatchOK
    <2>2. First.file \in Files
      <3>1. First \in Prepared
        BY <2>1 DEF First, DeletionInv, TypeOK, BatchOK
      <3>2. QED
        BY <3>1 DEF Prepared
    <2>3. docs[First.file] \in Row
      BY <1>0, <2>1, <2>2 DEF HasRow, Catalogs
    <2>4. d[First.file].src = docs[First.file].src /\ d[First.file] # NoRow
      BY <1>0, <2>2, <2>3 DEF Row, NoRow, Modes, Catalogs
    <2>5. Own(d) /\ \A f \in Files : HasRow(docs, f) => HasRow(d, f)
      BY <1>0, <2>1, <2>2, <2>4 DEF Own, HasRow, Catalogs
    <2>6. \A f \in Files : HasRow(saved, f) => HasRow(d, f)
      BY <1>0, <2>5 DEF RowInv, RowsStay
    <2>7. QED
      BY <1>0, <2>1, <2>5, <2>6, ReleaseKeeps
  <1>14. ASSUME WriteFails PROVE RowInv' /\ WalkInv'
    <2>1. pc = "chunks" /\ embedded # <<>> /\ ReleaseAs(mark)
      BY <1>14 DEF WriteFails, DeletionInv, TypeOK, BatchOK
    <2>2. QED
      BY <1>0, <2>1, ReleaseKeeps DEF RowInv, RowsStay
  <1>15. ASSUME CommitBatch PROVE RowInv' /\ WalkInv'
    <2>1. /\ pc = "write" /\ pc' = (IF inline THEN "walk" ELSE "close") /\ CommitAs(docs)
          /\ pending' = <<>> /\ inline' = FALSE /\ UNCHANGED <<mark, walk, hand, embedded>>
      BY <1>15 DEF CommitBatch
    <2>2. RowInv'
      BY <1>0, <2>1, CommitKeeps
    <2>3. Len(pending') = 0
      BY <2>1
    <2>4. OwnHand'
      BY <1>0, <2>1, <2>3 DEF WalkInv, OwnHand, Seen, walk, hand
    <2>5. Covered' /\ Drained'
      BY <1>0, <2>1 DEF WalkInv, Covered, Drained, walk
    <2>6. QED
      BY <2>2, <2>4, <2>5 DEF WalkInv
  <1>16. ASSUME Reconcile PROVE RowInv' /\ WalkInv'
    <2> DEFINE left == [f \in Files |-> IF f \in DocumentsOf(src) \ Seen THEN NoRow ELSE docs[f]]
    <2>1. /\ pc = "close" /\ pc' = "report" /\ CommitAs(left) /\ UNCHANGED <<mark, walk, hand, batch>>
      BY <1>16 DEF Reconcile, DeleteUnseen
    <2>2. Own(left)
      BY <1>0 DEF Own, HasRow
    <2>3. RowInv'
      BY <1>0, <2>1, <2>2, CommitKeeps
    <2>4. OwnHand' /\ Covered' /\ Drained'
      BY <1>0, <2>1 DEF WalkInv, OwnHand, Seen, Covered, Drained, walk, hand, batch
    <2>5. QED
      BY <2>3, <2>4 DEF WalkInv
  <1>17. ASSUME ReportIncomplete PROVE RowInv' /\ WalkInv'
    BY <1>0, <1>17, ForgetKeeps, CommitKeeps DEF ReportIncomplete
  <1>18. ASSUME ReportComplete \/ ReportFindsSourceGone PROVE RowInv' /\ WalkInv'
    <2>1. ForgetScan /\ UNCHANGED <<docs, saved, txn>> /\ pc # "chunks"
      BY <1>18 DEF ReportComplete, ReportFindsSourceGone
    <2>2. RowInv'
      BY <1>0, <2>1, ForgetKeeps DEF RowInv, RowsStay, NothingOpen, OwnRows, Own, HasRow
    <2>3. QED
      BY <2>1, <2>2, ForgetKeeps
  <1>19. QED
    BY <1>1, <1>2, <1>3, <1>4, <1>5, <1>6, <1>7, <1>8, <1>9, <1>10, <1>11, <1>12, <1>13,
       <1>14, <1>15, <1>16, <1>17, <1>18 DEF ScanStep

(***************************************************************************)
(* The other steps.                                                        *)
(***************************************************************************)
LEMMA BeginKeeps ==
  ASSUME DeletionInv, NEW x \in Sources, Begin(x)
  PROVE  RowInv' /\ WalkInv'
  <1>1. /\ pc = "idle" /\ pc' = "walk" /\ src' = x /\ CommitAs(docs) /\ yielded' = yielded
        /\ due' = {f \in Under[x] : disk[f].there} /\ gone' = {f \in Files : ~disk[f].there}
        /\ UNCHANGED <<mark, hand, batch>>
    BY DEF Begin
  <1>2. RowInv'
    BY <1>1, CommitKeeps DEF DeletionInv, RowInv, OwnRows
  <1>3. yielded = {} /\ Seen = {} /\ Seen' = {}
    BY <1>1 DEF DeletionInv, WalkInv, OwnHand, Seen
  <1>4. OwnHand'
    BY <1>1, <1>3 DEF DeletionInv, WalkInv, OwnHand, hand, batch
  <1>5. Under[x] \subseteq Files
    BY ScanAssumption DEF ScanAssumption
  <1>6. Covered' /\ Drained'
    BY <1>1, <1>5 DEF Covered, Drained
  <1>7. QED
    BY <1>2, <1>4, <1>6 DEF WalkInv

LEMMA MissEntriesKeeps ==
  ASSUME DeletionInv, MissEntries
  PROVE  RowInv' /\ WalkInv'
  <1>1. /\ pc = "walk" /\ pc' = "walk" /\ complete' = FALSE /\ UNCHANGED rows
        /\ UNCHANGED <<src, yielded, hand, batch>>
    BY DEF MissEntries
  <1>2. RowInv'
    BY <1>1, RowsSame DEF DeletionInv
  <1>3. OwnHand' /\ Covered' /\ Drained'
    BY <1>1 DEF DeletionInv, WalkInv, OwnHand, Seen, Covered, Drained, hand, batch
  <1>4. QED
    BY <1>2, <1>3 DEF WalkInv

LEMMA ScanSame ==
  ASSUME DeletionInv, UNCHANGED scan, stopping' = stopping \/ pc = "idle" \/ stopping'
  PROVE  WalkInv'
  BY DEF DeletionInv, WalkInv, OwnHand, Seen, Covered, Drained, scan, walk, hand, batch

LEMMA FileStepKeeps ==
  ASSUME DeletionInv, FileStep
  PROVE  RowInv' /\ WalkInv'
  <1>1. UNCHANGED <<stopping, rows>>
    BY DEF FileStep
  <1>2. ASSUME UNCHANGED scan PROVE RowInv' /\ WalkInv'
    <2>1. pc' = pc
      BY <1>2 DEF scan
    <2>2. RowInv'
      BY <1>1, <2>1 DEF DeletionInv, RowInv, RowsStay, NothingOpen, OwnRows, Own, HasRow, rows
    <2>3. QED
      BY <1>1, <1>2, <2>2, ScanSame
  <1>3. ASSUME NEW f \in Files, RemoveFile(f) PROVE RowInv' /\ WalkInv'
    <2>1. /\ due' = due \ {f} /\ gone' = gone \union {f}
          /\ UNCHANGED <<pc, src, yielded, complete, cut, hand, batch>>
      BY <1>3 DEF RemoveFile
    <2>2. RowInv'
      BY <1>1, <2>1 DEF DeletionInv, RowInv, RowsStay, NothingOpen, OwnRows, Own, HasRow, rows
    <2>3. OwnHand'
      BY <2>1 DEF DeletionInv, WalkInv, OwnHand, Seen, hand, batch
    <2>4. Covered' /\ Drained'
      BY <1>1, <2>1 DEF DeletionInv, WalkInv, Covered, Drained, batch
    <2>5. QED
      BY <2>2, <2>3, <2>4 DEF WalkInv
  <1>4. QED
    BY <1>2, <1>3 DEF FileStep, WriteFile, RestoreFile, LoseVolume, MountVolume

LEMMA WithoutOwn ==
  ASSUME NEW d, Own(d), NEW x
  PROVE  Own(Without(d, x))
  BY DEF Own, Without, HasRow

LEMMA UserStepKeeps ==
  ASSUME DeletionInv, UserStep
  PROVE  RowInv' /\ WalkInv'
  <1>1. ASSUME UNCHANGED <<rows, scan>>, stopping' = stopping \/ pc = "idle" \/ stopping'
        PROVE  RowInv' /\ WalkInv'
    <2>1. pc' = pc
      BY <1>1 DEF scan
    <2>2. RowInv'
      BY <1>1, <2>1 DEF DeletionInv, RowInv, RowsStay, NothingOpen, OwnRows, Own, HasRow, rows
    <2>3. QED
      BY <1>1, <2>2, ScanSame
  <1>2. ASSUME NEW x \in Sources, RemoveSource(x) PROVE RowInv' /\ WalkInv'
    <2>1. /\ ~txn /\ pc # "chunks" /\ UNCHANGED <<stopping, txn, mark, scan>>
          /\ docs' = Without(docs, x) /\ saved' = Without(saved, x)
      BY <1>2 DEF RemoveSource, WriteLocked
    <2>2. docs = saved /\ pc' = pc
      BY <2>1 DEF DeletionInv, RowInv, NothingOpen, scan
    <2>3. RowsStay' /\ NothingOpen'
      BY <2>1, <2>2 DEF RowsStay, NothingOpen, HasRow
    <2>4. OwnRows'
      BY <2>1, WithoutOwn DEF DeletionInv, RowInv, OwnRows
    <2>5. QED
      BY <2>1, <2>3, <2>4, ScanSame DEF RowInv
  <1>3. ASSUME NEW x \in Sources, Reindex(x) PROVE RowInv' /\ WalkInv'
    <2>1. /\ pc = "idle" /\ UNCHANGED <<stopping, mark, scan>>
          /\ docs' = Without(docs, x) /\ saved' = docs'
      BY <1>3 DEF Reindex
    <2>2. pc' = "idle"
      BY <2>1 DEF scan
    <2>3. RowsStay' /\ NothingOpen'
      BY <2>1, <2>2 DEF RowsStay, NothingOpen, HasRow
    <2>4. OwnRows'
      BY <2>1, WithoutOwn DEF DeletionInv, RowInv, OwnRows
    <2>5. QED
      BY <2>1, <2>3, <2>4, ScanSame DEF RowInv
  <1>4. QED
    BY <1>1, <1>2, <1>3 DEF UserStep, SetEnabled, RequestStop, Restart

-----------------------------------------------------------------------------

LEMMA DeletionInvariant == Spec => []DeletionInv
  <1>1. Init => RowInv /\ WalkInv
    <2> SUFFICES ASSUME Init PROVE RowInv /\ WalkInv
      OBVIOUS
    <2>1. /\ pc = "idle" /\ yielded = {} /\ inline = FALSE /\ old = NoOld
          /\ pending = <<>> /\ embedded = <<>> /\ saved = docs /\ mark = docs
          /\ docs = [f \in Files |-> NoRow]
      BY DEF Init
    <2>2. RowInv
      BY <2>1 DEF RowInv, RowsStay, NothingOpen, OwnRows, Own, HasRow
    <2>3. OwnHand /\ Covered /\ Drained
      BY <2>1 DEF OwnHand, Covered, Drained
    <2>4. QED
      BY <2>2, <2>3 DEF WalkInv
  <1>2. TypeOK' /\ DeletionInv /\ [Next]_vars => DeletionInv'
    <2> SUFFICES ASSUME TypeOK', DeletionInv, [Next]_vars PROVE RowInv' /\ WalkInv'
      BY DEF DeletionInv
    <2>1. CASE UNCHANGED vars
      <3>1. RowInv'
        BY <2>1 DEF vars, scan, rows, DeletionInv, RowInv, RowsStay, NothingOpen, OwnRows,
                    Own, HasRow
      <3>2. QED
        BY <2>1, <3>1, ScanSame DEF vars
    <2>2. CASE Crash
      BY <2>2, RollbackKeeps DEF Crash
    <2>3. QED
      BY <2>1, <2>2, BeginKeeps, ScanStepKeeps, MissEntriesKeeps, FileStepKeeps, UserStepKeeps
         DEF Next
  <1>3. QED
    BY <1>1, <1>2, TypeCorrect, PTL DEF Spec, DeletionInv

(***************************************************************************)
(* Only the reconciliation takes a committed row away during a scan.       *)
(***************************************************************************)
LEMMA FailFileLosesNothing ==
  ASSUME DeletionInv, NEW n \in Nat, FailFile(n), NEW f \in Files, HasRow(saved, f),
         cur \in Files, old # NoOld => old.file \in Files
  PROVE  HasRow(saved', f)
  <1>1. HasRow(docs, f) /\ docs \in Catalogs
    BY DEF DeletionInv, TypeOK, RowsOK, RowInv, RowsStay
  <1>3. CASE DropFile(n)
    BY <1>3 DEF DropFile, HasRow
  <1>4. CASE PreserveOldRow(n)
    <2> DEFINE row == [FailedRow EXCEPT !.digest = docs[old.file].digest]
    <2>1. old.file \in Files
      BY <1>4 DEF PreserveOldRow
    <2>2. row.mode = "metadata"
      BY DEF FailedRow
    <2>3. row # NoRow
      BY <2>2 DEF NoRow
    <2>4. HasRow([docs EXCEPT ![old.file] = row], f)
      BY <1>1, <2>1, <2>3 DEF HasRow, Catalogs
    <2>5. QED
      BY <1>1, <1>4, <2>4 DEF PreserveOldRow, CommitAs
  <1>5. CASE PreserveNewRow(n)
    <2>1. FailedRow # NoRow
      <3>1. FailedRow.mode = "metadata"
        BY DEF FailedRow
      <3>2. QED
        BY <3>1 DEF NoRow
    <2>2. HasRow([docs EXCEPT ![cur] = FailedRow], f)
      BY <1>1, <2>1 DEF HasRow, Catalogs
    <2>3. QED
      BY <1>5, <2>2 DEF PreserveNewRow, CommitAs
  <1>6. CASE PreserveRaises
    BY <1>6 DEF PreserveRaises, GiveUp, Rollback, CommitAs
  <1>7. QED
    BY <1>3, <1>4, <1>5, <1>6 DEF FailFile

LEMMA ScanStepLosesOnlyGone ==
  ASSUME DeletionInv, ScanStep, pc # "idle", NEW f \in Files, HasRow(saved, f),
         ~HasRow(saved', f)
  PROVE  f \in gone
  <1>0. /\ HasRow(docs, f) /\ docs \in Catalogs /\ Own(docs)
        /\ (pc = "chunks" => HasRow(mark, f))
    BY DEF DeletionInv, TypeOK, RowsOK, RowInv, RowsStay, OwnRows
  <1>1. ASSUME NEW n \in Nat, FailFile(n), pc \in {"stat", "hash", "extract"} \/ inline PROVE FALSE
    <2>1. cur \in Files /\ (old # NoOld => old.file \in Files)
      BY <1>1 DEF DeletionInv, TypeOK, HandOK
    <2>2. QED
      BY <1>1, <2>1, FailFileLosesNothing
  <1>2. ASSUME StatFails \/ HashFails \/ ExtractFails \/ BackendFails PROVE FALSE
    <2>1. CASE BackendFails
      BY <1>1, <2>1, BackendFailsCases DEF DeletionInv, GiveUp, Rollback, CommitAs
    <2>2. QED
      BY <1>1, <1>2, <2>1 DEF StatFails, HashFails, ExtractFails
  <1>3. ASSUME FindOffline \/ NextEntryFindsSourceGone PROVE FALSE
    BY <1>3 DEF FindOffline, NextEntryFindsSourceGone, GiveUp, Rollback, CommitAs
  <1>4. ASSUME \/ NextEntryStops \/ EndOfStream \/ StatFile \/ HashFile \/ TouchRow
               \/ Extract \/ EmbedBatch \/ WriteRow \/ ReportComplete
               \/ ReportFindsSourceGone \/ \E g \in Files : NextEntry(g)
        PROVE  FALSE
    <2>1. saved' = saved
      BY <1>4 DEF NextEntryStops, EndOfStream, LeaveWalk, StatFile, HashFile, TouchRow, Extract,
                  EmbedBatch, WriteRow, ReportComplete, ReportFindsSourceGone, NextEntry, rows
    <2>2. QED
      BY <2>1 DEF HasRow
  <1>5. ASSUME RowRefused \/ CommitBatch \/ ReportIncomplete PROVE FALSE
    BY <1>0, <1>5 DEF RowRefused, CommitBatch, ReportIncomplete, ReleaseAs, CommitAs, HasRow
  <1>6. ASSUME WriteFails PROVE FALSE
    BY <1>0, <1>6 DEF WriteFails, ReleaseAs, HasRow
  <1>7. ASSUME WriteChunks PROVE FALSE
    <2>1. First \in Prepared /\ HasRow(docs, First.file)
      BY <1>7 DEF WriteChunks, First, DeletionInv, TypeOK, BatchOK
    <2>2. First.file \in Files
      BY <2>1 DEF Prepared
    <2>3. docs[First.file] \in Row
      BY <1>0, <2>1, <2>2 DEF HasRow, Catalogs
    <2>4. [docs[First.file] EXCEPT !.text = First.text] # NoRow
      BY <2>3 DEF Row, NoRow, Modes
    <2>5. HasRow([docs EXCEPT ![First.file].text = First.text], f)
      BY <1>0, <2>2, <2>4 DEF HasRow, Catalogs
    <2>6. QED
      BY <1>7, <2>5 DEF WriteChunks, ReleaseAs
  <1>8. ASSUME Reconcile PROVE f \in gone
    <2>1. complete /\ ~stopping /\ ~cut /\ pc = "close"
      BY <1>8 DEF Reconcile, ScanComplete, DeleteUnseen
    <2>2. f \in DocumentsOf(src) \ Seen
      BY <1>0, <1>8 DEF Reconcile, DeleteUnseen, CommitAs, HasRow
    <2>3. f \in Under[src] /\ Kind[f] # "ignored"
      BY <1>0, <2>2 DEF Own, DocumentsOf
    <2>4. f \notin yielded /\ due = {}
      BY <2>1, <2>2, <2>3 DEF Seen, DeletionInv, WalkInv, Drained
    <2>5. QED
      BY <2>1, <2>3, <2>4 DEF DeletionInv, WalkInv, Covered
  <1>9. QED
    BY <1>2, <1>3, <1>4, <1>5, <1>6, <1>7, <1>8 DEF ScanStep

\* Deletion safety: while a scan runs, a committed document disappears only when
\* its file was missing at some moment of that scan, or its source is removed.
THEOREM OnlyGoneFilesAreDeleted == Spec => KeepWhatWasThere
  <1>1. DeletionInv /\ [Next]_vars =>
          \A f \in Files : pc # "idle" /\ HasRow(saved, f) /\ ~HasRow(saved', f)
                             => f \in gone \/ saved[f].src \notin known'
    <2> SUFFICES ASSUME DeletionInv, [Next]_vars, NEW f \in Files, pc # "idle",
                        HasRow(saved, f), ~HasRow(saved', f)
                 PROVE  f \in gone \/ saved[f].src \notin known'
      OBVIOUS
    <2>1. ASSUME saved' = saved PROVE FALSE
      BY <2>1 DEF HasRow
    <2>2. CASE UNCHANGED vars \/ MissEntries \/ FileStep \/ Crash
      BY <2>1, <2>2 DEF vars, rows, MissEntries, FileStep, Crash, Rollback, CommitAs
    <2>3. CASE ScanStep
      BY <2>3, ScanStepLosesOnlyGone
    <2>4. CASE \E x \in Sources : Begin(x)
      BY <2>4 DEF Begin
    <2>5. ASSUME NEW x \in Sources, RemoveSource(x) PROVE saved[f].src \notin known'
      BY <2>5 DEF RemoveSource, Without, HasRow
    <2>6. CASE UserStep
      BY <2>1, <2>5, <2>6 DEF UserStep, SetEnabled, Reindex, RequestStop, Restart, rows
    <2>7. QED
      BY <2>2, <2>3, <2>4, <2>6 DEF Next
  <1>2. QED
    BY <1>1, DeletionInvariant, PTL DEF Spec, KeepWhatWasThere

-----------------------------------------------------------------------------
(***************************************************************************)
(* The counters.  The handler of a file whose flush met a backend failure  *)
(* counts the file as completed and leaves it in the batch, with what was  *)
(* isolated before; a later flush counts them again.  Surplus is what was  *)
(* counted too often.  No other step changes it, and leaving the scan      *)
(* clears it.                                                              *)
(***************************************************************************)
InHand == IF pc \in {"stat", "hash", "extract"} THEN 1 ELSE 0
InBatch == IF pc \in {"write", "chunks"} THEN Len(embedded) ELSE Len(pending)
Surplus == tally.completed + InHand + InBatch - tally.seen

\* Every file seen has exactly one outcome so far.
Balanced == tally.seen = tally.accepted + tally.ignored + tally.failed

CountInv ==
  /\ Balanced
  /\ Surplus \in Nat
  /\ "backend" \notin FaultKinds => Surplus = 0

SameCounts == Balanced' /\ Surplus' = Surplus
ClearedCounts == Balanced' /\ Surplus' = 0

\* Files counted as failed are completed and no longer accepted.
LEMMA SomeFailures ==
  ASSUME TallyOK, Balanced, NEW n \in Nat, CountFailures(n)
  PROVE  Balanced' /\ tally'.completed = tally.completed + n /\ tally'.seen = tally.seen
  <1>1. /\ tally'.seen = tally.seen /\ tally'.completed = tally.completed + n
        /\ tally'.accepted = tally.accepted - n /\ tally'.failed = tally.failed + n
        /\ tally'.ignored = tally.ignored
    BY DEF TallyOK, CountFailures
  <1>2. QED
    BY <1>1 DEF Balanced, TallyOK

LEMMA ForgetCounts ==
  ASSUME ForgetScan
  PROVE  ClearedCounts
  <1>1. pc' = "idle" /\ Len(pending') = 0 /\ tally' = NoTally
    BY DEF ForgetScan
  <1>2. QED
    BY <1>1 DEF ClearedCounts, Balanced, Surplus, InHand, InBatch, NoTally

\* A failure moves the file in hand to the completed ones; a failure of the
\* backend counts documents that stay in the batch.
LEMMA FailFileCounts ==
  ASSUME TypeOK, Balanced, NEW n \in Nat, FailFile(n),
         (pc \in {"stat", "hash", "extract"} /\ n = 1) \/ pc = "embed"
  PROVE  \/ SameCounts /\ pc # "embed"
         \/ Balanced' /\ Surplus' = Surplus + n /\ pc = "embed"
         \/ ClearedCounts
  <1>1. CASE RecordFailure(n)
    <2>1. pc' = "walk" /\ pending' = pending /\ CountFailures(n)
      BY <1>1 DEF RecordFailure, batch
    <2>2. Balanced' /\ tally'.completed = tally.completed + n /\ tally'.seen = tally.seen
      BY <2>1, SomeFailures DEF TypeOK
    <2>3. /\ Len(pending) \in Int /\ tally.completed \in Int /\ tally.seen \in Int
      BY DEF TypeOK, BatchOK, TallyOK
    <2>4. Surplus' = tally.completed + n + 0 + Len(pending) - tally.seen
      BY <2>1, <2>2 DEF Surplus, InHand, InBatch
    <2>5. Surplus = tally.completed + (IF pc = "embed" THEN 0 ELSE 1) + Len(pending) - tally.seen
      BY DEF Surplus, InHand, InBatch
    <2>6. QED
      BY <2>2, <2>3, <2>4, <2>5 DEF SameCounts
  <1>2. CASE PreserveRaises
    BY <1>2, ForgetCounts DEF PreserveRaises, GiveUp
  <1>3. QED
    BY <1>1, <1>2 DEF FailFile, DropFile, PreserveOldRow, PreserveNewRow

LEMMA PrepareCounts ==
  ASSUME TypeOK, Balanced, pc \in {"stat", "extract"}, NEW doc, Prepare(doc),
         UNCHANGED tally
  PROVE  SameCounts
  <1>1. pending' = Append(pending, doc) /\ pc' \in {"embed", "walk"}
    BY DEF Prepare
  <1>2. Len(pending') = Len(pending) + 1 /\ Len(pending) \in Int
    BY <1>1 DEF TypeOK, BatchOK
  <1>3. tally.completed \in Int /\ tally.seen \in Int
    BY DEF TypeOK, TallyOK
  <1>4. InHand = 1 /\ InHand' = 0 /\ InBatch = Len(pending) /\ InBatch' = Len(pending) + 1
    BY <1>1, <1>2 DEF InHand, InBatch
  <1>5. Surplus' = Surplus
    BY <1>2, <1>3, <1>4 DEF Surplus
  <1>6. QED
    BY <1>5 DEF SameCounts, Balanced

\* A document leaves the batch: it is completed, and failed or not.
LEMMA ReleaseCounts ==
  ASSUME TypeOK, Balanced, pc \in {"write", "chunks"}, embedded # <<>>,
         NEW d, ReleaseAs(d),
         CountFailures(1) \/ tally' = [tally EXCEPT !.completed = @ + 1]
  PROVE  SameCounts
  <1>1. pc' = "write" /\ embedded' = Tail(embedded)
    BY DEF ReleaseAs
  <1>2. Len(embedded') = Len(embedded) - 1 /\ Len(embedded) \in Int
    BY <1>1 DEF TypeOK, BatchOK
  <1>3. CASE CountFailures(1)
    <2>1. Balanced' /\ tally'.completed = tally.completed + 1 /\ tally'.seen = tally.seen
      BY <1>3, SomeFailures DEF TypeOK
    <2>2. tally.completed \in Int /\ tally.seen \in Int
      BY DEF TypeOK, TallyOK
    <2>3. QED
      BY <1>1, <1>2, <2>1, <2>2 DEF SameCounts, Surplus, InHand, InBatch
  <1>4. CASE tally' = [tally EXCEPT !.completed = @ + 1]
    BY SMTT(20), <1>1, <1>2, <1>4 DEF SameCounts, Balanced, Surplus, InHand, InBatch, TypeOK, TallyOK
  <1>5. QED
    BY <1>3, <1>4

LEMMA ScanStepCounts ==
  ASSUME TypeOK, Balanced, ScanStep
  PROVE  \/ SameCounts
         \/ ClearedCounts
         \/ Balanced' /\ Fault("backend") /\ \E n \in Nat : Surplus' = Surplus + n
  <1>0. /\ Len(pending) \in Int /\ Len(embedded) \in Int
        /\ tally \in [seen : Int, accepted : Int, ignored : Int, failed : Int, completed : Int]
    BY DEF TypeOK, BatchOK, TallyOK
  <1>1. ASSUME ForgetScan PROVE ClearedCounts
    BY <1>1, ForgetCounts
  <1>2. CASE FindOffline \/ NextEntryFindsSourceGone
    BY <1>1, <1>2 DEF FindOffline, NextEntryFindsSourceGone, GiveUp
  <1>3. CASE NextEntryStops \/ EndOfStream
    <2>1. pc = "walk" /\ pc' \in {"close", "embed"} /\ UNCHANGED <<tally, pending>>
      BY <1>3 DEF NextEntryStops, EndOfStream, LeaveWalk
    <2>2. QED
      BY <2>1 DEF SameCounts, Balanced, Surplus, InHand, InBatch
  <1>4. ASSUME NEW f \in Files, NextEntry(f) PROVE SameCounts
    <2>1. pc = "walk" /\ pending' = pending
      BY <1>4 DEF NextEntry, batch
    <2>2. CASE Kind[f] = "ignored"
      <3>1. /\ tally' = [tally EXCEPT !.seen = @ + 1, !.ignored = @ + 1, !.completed = @ + 1]
            /\ pc' = "walk"
        BY <1>4, <2>1, <2>2 DEF NextEntry
      <3>2. QED
        BY <1>0, <2>1, <3>1 DEF SameCounts, Balanced, Surplus, InHand, InBatch
    <2>3. CASE Kind[f] # "ignored"
      <3>1. tally' = [tally EXCEPT !.seen = @ + 1, !.accepted = @ + 1] /\ pc' = "stat"
        BY <1>4, <2>3 DEF NextEntry
      <3>2. QED
        BY <1>0, <2>1, <3>1 DEF SameCounts, Balanced, Surplus, InHand, InBatch
    <2>4. QED
      BY <2>2, <2>3
  <1>5. ASSUME StatFails \/ HashFails \/ ExtractFails PROVE SameCounts \/ ClearedCounts
    BY <1>5, FailFileCounts DEF StatFails, HashFails, ExtractFails
  <1>6. CASE StatFile
    <2>1. pc = "stat"
      BY <1>6 DEF StatFile
    <2>2. CASE Unchanged(cur)
      <3>1. pc' = "walk" /\ tally' = [tally EXCEPT !.completed = @ + 1] /\ pending' = pending
        BY <1>6, <2>2 DEF StatFile, batch
      <3>2. QED
        BY <1>0, <2>1, <3>1 DEF SameCounts, Balanced, Surplus, InHand, InBatch
    <2>3. CASE ~Unchanged(cur) /\ Mode(cur) = "content"
      <3>1. pc' = "hash" /\ UNCHANGED <<tally, pending>>
        BY <1>6, <2>3 DEF StatFile, batch
      <3>2. QED
        BY <2>1, <3>1 DEF SameCounts, Balanced, Surplus, InHand, InBatch
    <2>4. CASE ~Unchanged(cur) /\ Mode(cur) # "content"
      BY <1>6, <2>1, <2>4, PrepareCounts DEF StatFile
    <2>5. QED
      BY <2>2, <2>3, <2>4
  <1>7. CASE HashFile
    BY <1>7 DEF HashFile, SameCounts, Balanced, Surplus, InHand, InBatch, batch
  <1>8. CASE TouchRow
    <2>1. pc = "hash" /\ pc' = "walk" /\ tally' = [tally EXCEPT !.completed = @ + 1]
          /\ pending' = pending
      BY <1>8 DEF TouchRow, batch
    <2>2. QED
      BY <1>0, <2>1 DEF SameCounts, Balanced, Surplus, InHand, InBatch
  <1>9. CASE Extract
    BY <1>9, PrepareCounts DEF Extract
  <1>10. CASE EmbedBatch
    <2>1. PICK n \in 0..Len(pending) : \E pick \in [1..n -> 1..Len(pending)] :
            embedded' = [i \in 1..n |-> pending[pick[i]]] /\ CountFailures(Len(pending) - n)
      BY <1>10 DEF EmbedBatch
    <2>2. Len(embedded') = n /\ n \in Int
      BY <1>0, <2>1
    <2>3. pc = "embed" /\ pc' = "write"
      BY <1>10 DEF EmbedBatch
    <2>4. tally' = [tally EXCEPT !.accepted = @ - (Len(pending) - n),
                                 !.failed = @ + (Len(pending) - n),
                                 !.completed = @ + (Len(pending) - n)]
      BY <2>1 DEF CountFailures
    <2>5. QED
      BY SMTT(20), <1>0, <2>2, <2>3, <2>4 DEF SameCounts, Balanced, Surplus, InHand, InBatch
  <1>11. CASE BackendFails
    <2>1. CASE GiveUp("error")
      BY <1>1, <2>1 DEF GiveUp
    <2>2. ASSUME NEW n \in Nat, FailFile(n), pc = "embed", Fault("backend")
          PROVE  \/ ClearedCounts
                 \/ Balanced' /\ Fault("backend") /\ \E m \in Nat : Surplus' = Surplus + m
      BY <2>2, FailFileCounts
    <2>3. QED
      BY <1>11, <2>1, <2>2, BackendFailsCases
  <1>12. CASE WriteRow
    BY <1>12 DEF WriteRow, RowAt, SameCounts, Balanced, Surplus, InHand, InBatch, batch
  <1>13. CASE RowRefused
    BY <1>13, ReleaseCounts DEF RowRefused
  <1>14. CASE WriteChunks \/ WriteFails
    <2>1. pc = "chunks" /\ embedded # <<>>
      BY <1>14 DEF WriteChunks, WriteFails, TypeOK, BatchOK
    <2>2. QED
      BY <1>14, <2>1, ReleaseCounts DEF WriteChunks, WriteFails
  <1>15. CASE CommitBatch
    <2>1. /\ pc = "write" /\ pc' \in {"walk", "close"} /\ UNCHANGED tally
          /\ Len(embedded) = 0 /\ Len(pending') = 0
      BY <1>15 DEF CommitBatch
    <2>2. QED
      BY <2>1 DEF SameCounts, Balanced, Surplus, InHand, InBatch
  <1>16. CASE Reconcile
    BY <1>16 DEF Reconcile, DeleteUnseen, SameCounts, Balanced, Surplus, InHand, InBatch, batch
  <1>17. CASE ReportIncomplete \/ ReportComplete \/ ReportFindsSourceGone
    BY <1>1, <1>17 DEF ReportIncomplete, ReportComplete, ReportFindsSourceGone
  <1>18. QED
    BY <1>2, <1>3, <1>4, <1>5, <1>6, <1>7, <1>8, <1>9, <1>10, <1>11, <1>12, <1>13, <1>14,
       <1>15, <1>16, <1>17 DEF ScanStep

LEMMA StepCounts ==
  ASSUME TypeOK, CountInv, [Next]_vars
  PROVE  CountInv'
  <1>0. Balanced /\ Surplus \in Nat
    BY DEF CountInv
  <1>1. ASSUME SameCounts PROVE CountInv'
    BY <1>0, <1>1 DEF SameCounts, CountInv
  <1>2. ASSUME ClearedCounts PROVE CountInv'
    BY <1>0, <1>2 DEF ClearedCounts, CountInv
  <1>3. ASSUME UNCHANGED <<pc, batch, tally>> PROVE CountInv'
    <2>1. SameCounts
      BY <1>0, <1>3 DEF SameCounts, Balanced, Surplus, InHand, InBatch, batch
    <2>2. QED
      BY <1>1, <2>1
  <1>4. CASE ScanStep
    <2>1. ASSUME Balanced', NEW n \in Nat, Surplus' = Surplus + n, Fault("backend")
          PROVE  CountInv'
      BY <1>0, <2>1 DEF CountInv, Fault
    <2>2. QED
      BY <1>0, <1>1, <1>2, <1>4, <2>1, ScanStepCounts
  <1>5. CASE Crash
    BY <1>2, <1>5, ForgetCounts DEF Crash
  <1>6. CASE \E x \in Sources : Begin(x)
    <2>1. SameCounts
      BY <1>0, <1>6 DEF Begin, SameCounts, Balanced, Surplus, InHand, InBatch, batch
    <2>2. QED
      BY <1>1, <2>1
  <1>7. CASE MissEntries
    BY <1>3, <1>7 DEF MissEntries
  <1>8. CASE FileStep
    BY <1>3, <1>8 DEF FileStep, WriteFile, RemoveFile, RestoreFile, LoseVolume, MountVolume, scan
  <1>9. CASE UserStep
    BY <1>3, <1>9 DEF UserStep, SetEnabled, RemoveSource, Reindex, RequestStop, Restart, scan
  <1>10. CASE UNCHANGED vars
    BY <1>3, <1>10 DEF vars, scan
  <1>11. QED
    BY <1>4, <1>5, <1>6, <1>7, <1>8, <1>9, <1>10 DEF Next

\* Whatever fails, each file a scan has seen is accepted, ignored or failed, and
\* none is missing from the completed ones, the file in hand and the batch; only a
\* failure of the whole backend makes these more than what was seen.
THEOREM NoFileIsLostFromTheCount == Spec => []CountInv
  <1>1. Init => CountInv
    <2> SUFFICES ASSUME Init PROVE CountInv
      OBVIOUS
    <2>1. pc = "idle" /\ Len(pending) = 0 /\ tally = NoTally
      BY DEF Init
    <2>2. Balanced /\ Surplus = 0
      BY <2>1 DEF Balanced, Surplus, InHand, InBatch, NoTally
    <2>3. QED
      BY <2>1, <2>2 DEF CountInv
  <1>2. TypeOK /\ CountInv /\ [Next]_vars => CountInv'
    BY StepCounts
  <1>3. QED
    BY <1>1, <1>2, TypeCorrect, PTL DEF Spec

\* The counters of the result of scan_source add up at every moment of a scan
\* in which the embedding backend does not fail as a whole.
THEOREM CountersAddUp ==
  ASSUME "backend" \notin FaultKinds
  PROVE  Spec => []EveryFileCountedOnce
  <1>1. TypeOK /\ CountInv => EveryFileCountedOnce
    <2> SUFFICES ASSUME TypeOK, CountInv PROVE EveryFileCountedOnce
      OBVIOUS
    <2>1. /\ InHand \in Int /\ InBatch \in Int
          /\ tally.completed \in Int /\ tally.seen \in Int
      BY DEF InHand, InBatch, TypeOK, BatchOK, TallyOK
    <2>2. Surplus = 0 /\ Balanced
      BY DEF CountInv
    <2>3. tally.seen = tally.completed + InHand + InBatch
      <3>1. \A a, b, c, d \in Int : a + b + c - d = 0 => d = a + b + c
        OBVIOUS
      <3>2. tally.completed + InHand + InBatch - tally.seen = 0
        BY <2>2 DEF Surplus
      <3>3. QED
        BY ZenonT(40), <2>1, <3>1, <3>2
    <2>4. QED
      BY <2>2, <2>3 DEF Balanced, EveryFileCountedOnce, InHand, InBatch
  <1>2. QED
    BY <1>1, NoFileIsLostFromTheCount, TypeCorrect, PTL

-----------------------------------------------------------------------------
(***************************************************************************)
(* The reach of a scan.  Outside the files below its root the connection's *)
(* view, and its savepoint, never part from what is committed: what a scan *)
(* has not committed yet is about its own files only.                      *)
(***************************************************************************)
Foreign(f) == f \in Files /\ f \notin Under[src]

Local ==
  pc # "idle" => \A f : Foreign(f) => /\ docs[f] = saved[f]
                                      /\ pc = "chunks" => mark[f] = saved[f]

LocalInv == DeletionInv /\ Local

LEMMA FailFileStaysLocal ==
  ASSUME LocalInv, NEW n \in Nat, FailFile(n), NEW f, Foreign(f),
         pc \in {"stat", "hash", "extract"} \/ (pc = "embed" /\ inline)
  PROVE  docs'[f] = saved[f] /\ saved'[f] = saved[f]
  <1>0. /\ cur \in Seen /\ pc # "idle" /\ (old # NoOld => old.file \in Seen)
        /\ docs \in Catalogs /\ docs[f] = saved[f] /\ f \in Files
    BY DEF LocalInv, Local, Foreign, DeletionInv, TypeOK, RowsOK, WalkInv, OwnHand
  <1>1. CASE DropFile(n)
    BY <1>0, <1>1 DEF DropFile
  <1>2. CASE PreserveOldRow(n)
    <2>1. old.file # f
      BY <1>0, <1>2, SeenBelow DEF PreserveOldRow, LocalInv, Foreign
    <2>2. QED
      BY <1>0, <1>2, <2>1 DEF PreserveOldRow, CommitAs, Catalogs
  <1>3. CASE PreserveNewRow(n)
    <2>1. cur # f
      BY <1>0, SeenBelow DEF LocalInv, Foreign
    <2>2. QED
      BY <1>0, <1>3, <2>1 DEF PreserveNewRow, CommitAs, Catalogs
  <1>4. CASE PreserveRaises
    BY <1>4 DEF PreserveRaises, GiveUp, Rollback, CommitAs
  <1>5. QED
    BY <1>1, <1>2, <1>3, <1>4 DEF FailFile

LEMMA FirstIsOwn ==
  ASSUME DeletionInv, pc \in {"write", "chunks"}, embedded # <<>>
  PROVE  First.file \in Files /\ First.file \in Under[src]
  <1>1. embedded \in Seq(Prepared) /\ First = embedded[1] /\ 1 \in 1..Len(embedded)
    BY DEF First, DeletionInv, TypeOK, BatchOK
  <1>2. QED
    BY <1>1, SeenBelow DEF DeletionInv, WalkInv, OwnHand

\* A step of a scan commits nothing about a foreign file and leaves the three
\* views of it equal.
LEMMA ScanStepStaysLocal ==
  ASSUME LocalInv, ScanStep, pc # "idle", NEW f, Foreign(f)
  PROVE  /\ docs'[f] = saved[f] /\ saved'[f] = saved[f]
         /\ pc' = "chunks" => mark'[f] = saved[f]
  <1>0. /\ f \in Files /\ f \notin Under[src] /\ docs[f] = saved[f]
        /\ pc = "chunks" => mark[f] = saved[f]
        /\ docs \in Catalogs /\ DeletionInv /\ Own(docs)
    BY DEF LocalInv, Local, Foreign, DeletionInv, TypeOK, RowsOK, RowInv, OwnRows
  <1>1. CASE FindOffline \/ NextEntryFindsSourceGone
    BY <1>0, <1>1 DEF FindOffline, NextEntryFindsSourceGone, GiveUp, Rollback, CommitAs, ForgetScan
  <1>2. CASE \/ NextEntryStops \/ EndOfStream \/ StatFile \/ HashFile \/ Extract \/ EmbedBatch
             \/ \E g \in Files : NextEntry(g)
    <2>1. UNCHANGED rows /\ pc' # "chunks"
      BY <1>2 DEF NextEntryStops, EndOfStream, LeaveWalk, StatFile, HashFile, Extract, EmbedBatch,
                  NextEntry, Prepare
    <2>2. QED
      BY <1>0, <2>1 DEF rows
  <1>3. ASSUME NEW n \in Nat, FailFile(n),
               pc \in {"stat", "hash", "extract"} \/ (pc = "embed" /\ inline)
        PROVE  docs'[f] = saved[f] /\ saved'[f] = saved[f] /\ pc' # "chunks"
    <2>1. pc' # "chunks"
      BY <1>3 DEF FailFile, DropFile, PreserveOldRow, PreserveNewRow, PreserveRaises,
                  RecordFailure, GiveUp, ForgetScan
    <2>2. QED
      BY <1>3, <2>1, FailFileStaysLocal
  <1>4. CASE StatFails \/ HashFails \/ ExtractFails
    BY <1>3, <1>4 DEF StatFails, HashFails, ExtractFails
  <1>5. CASE BackendFails
    <2>1. \/ pc = "embed" /\ inline /\ \E n \in Nat : FailFile(n)
          \/ GiveUp("error")
      BY <1>0, <1>5, BackendFailsCases DEF DeletionInv
    <2>2. QED
      BY <1>0, <1>3, <2>1 DEF GiveUp, Rollback, CommitAs, ForgetScan
  <1>6. CASE TouchRow
    <2>1. cur # f
      BY <1>0, <1>6, SeenBelow DEF TouchRow, DeletionInv, WalkInv, OwnHand
    <2>2. docs'[f] = docs[f]
      <3>1. CASE HasRow(docs, cur)
        <4>1. docs' = [docs EXCEPT ![cur] = [docs[cur] EXCEPT !.src = src, !.path = cur,
                                                              !.stamp = stat]]
          BY <1>0, <1>6, <3>1 DEF TouchRow, Catalogs
        <4>2. QED
          BY <1>0, <2>1, <4>1 DEF Catalogs
      <3>2. QED
        BY <1>6, <3>1 DEF TouchRow
    <2>3. QED
      BY <1>0, <1>6, <2>2 DEF TouchRow
  <1>7. CASE WriteRow
    <2>1. First.file # f
      BY <1>0, <1>7, FirstIsOwn DEF WriteRow, RowAt
    <2>2. QED
      BY <1>0, <1>7, <2>1 DEF WriteRow, RowAt, Catalogs
  <1>8. CASE RowRefused
    BY <1>0, <1>8 DEF RowRefused, ReleaseAs
  <1>9. CASE WriteChunks
    <2>1. First.file # f
      BY <1>0, <1>9, FirstIsOwn DEF WriteChunks, DeletionInv, TypeOK, BatchOK
    <2>2. QED
      BY <1>0, <1>9, <2>1 DEF WriteChunks, ReleaseAs, Catalogs
  <1>10. CASE WriteFails
    BY <1>0, <1>10 DEF WriteFails, ReleaseAs
  <1>11. CASE CommitBatch \/ ReportIncomplete
    BY <1>0, <1>11 DEF CommitBatch, ReportIncomplete, CommitAs, ForgetScan
  <1>12. CASE Reconcile
    <2>1. f \notin DocumentsOf(src)
      BY <1>0 DEF DocumentsOf, Own
    <2>2. QED
      BY <1>0, <1>12, <2>1 DEF Reconcile, DeleteUnseen, CommitAs
  <1>13. CASE ReportComplete \/ ReportFindsSourceGone
    BY <1>0, <1>13 DEF ReportComplete, ReportFindsSourceGone, ForgetScan
  <1>14. QED
    BY <1>1, <1>2, <1>4, <1>5, <1>6, <1>7, <1>8, <1>9, <1>10, <1>11, <1>12, <1>13 DEF ScanStep

LEMMA LocalInvariant == Spec => []LocalInv
  <1>1. Init => Local
    BY DEF Init, Local
  <1>2. DeletionInv' /\ LocalInv /\ [Next]_vars => LocalInv'
    <2> SUFFICES ASSUME LocalInv, [Next]_vars PROVE Local'
      BY DEF LocalInv
    <2>1. ASSUME UNCHANGED <<rows, pc, src>> PROVE Local'
      BY <2>1 DEF LocalInv, Local, Foreign, rows
    <2>2. CASE ScanStep
      <3>1. pc # "idle" /\ (pc' # "idle" => src' = src)
        BY <2>2 DEF ScanStep, FindOffline, NextEntryStops, NextEntryFindsSourceGone, NextEntry,
                    EndOfStream, StatFails, StatFile, HashFile, TouchRow, HashFails, Extract,
                    ExtractFails, EmbedBatch, BackendFails, WriteRow, RowAt, RowRefused, WriteChunks,
                    WriteFails, CommitBatch, Reconcile, DeleteUnseen, ReportIncomplete, ReportComplete,
                    ReportFindsSourceGone, LeaveWalk, FailFile, DropFile, PreserveOldRow,
                    PreserveNewRow, PreserveRaises, RecordFailure, GiveUp, ForgetScan, ReleaseAs, walk
      <3>2. QED
        BY <2>2, <3>1, ScanStepStaysLocal DEF Local, Foreign
    <2>3. CASE Crash
      BY <2>3 DEF Crash, ForgetScan, Local
    <2>4. CASE \E x \in Sources : Begin(x)
      BY <2>4 DEF Begin, CommitAs, Local
    <2>5. CASE MissEntries
      BY <2>1, <2>5 DEF MissEntries
    <2>6. CASE FileStep
      BY <2>1, <2>6 DEF FileStep, WriteFile, RemoveFile, RestoreFile, LoseVolume, MountVolume,
                        scan, walk
    <2>7. ASSUME NEW x \in Sources, RemoveSource(x) PROVE Local'
      BY <2>7 DEF RemoveSource, WriteLocked, Without, HasRow, LocalInv, Local, Foreign, scan, walk
    <2>8. ASSUME NEW x \in Sources, Reindex(x) PROVE Local'
      BY <2>8 DEF Reindex, Local, scan
    <2>9. CASE UserStep
      BY <2>1, <2>7, <2>8, <2>9 DEF UserStep, SetEnabled, RequestStop, Restart, scan, walk
    <2>10. CASE UNCHANGED vars
      BY <2>1, <2>10 DEF vars, scan, walk
    <2>11. QED
      BY <2>2, <2>3, <2>4, <2>5, <2>6, <2>9, <2>10 DEF Next
  <1>3. QED
    BY <1>1, <1>2, DeletionInvariant, PTL DEF Spec, LocalInv

\* A scan of one source leaves alone every committed document of a file that is
\* not below its root, however sources nest; only a removed source takes one.
THEOREM ScanStaysBelowItsRoot == Spec => ScanTouchesOwnFiles
  <1>1. LocalInv /\ [Next]_vars =>
          \A f \in Files : pc # "idle" /\ f \notin Under[src] /\ saved'[f] # saved[f]
                             => saved[f].src \notin known'
    <2> SUFFICES ASSUME LocalInv, [Next]_vars, NEW f \in Files, pc # "idle",
                        f \notin Under[src], saved'[f] # saved[f]
                 PROVE  saved[f].src \notin known'
      OBVIOUS
    <2>1. CASE UNCHANGED vars \/ MissEntries \/ FileStep \/ Crash
      BY <2>1 DEF vars, rows, MissEntries, FileStep, Crash, Rollback, CommitAs
    <2>2. CASE ScanStep
      BY <2>2, ScanStepStaysLocal DEF Foreign
    <2>3. CASE \E x \in Sources : Begin(x)
      BY <2>3 DEF Begin
    <2>4. ASSUME NEW x \in Sources, RemoveSource(x) PROVE saved[f].src \notin known'
      BY <2>4 DEF RemoveSource, Without, LocalInv, DeletionInv, TypeOK, RowsOK, Catalogs
    <2>5. CASE UserStep
      BY <2>4, <2>5 DEF UserStep, SetEnabled, Reindex, RequestStop, Restart, rows
    <2>6. QED
      BY <2>1, <2>2, <2>3, <2>5 DEF Next
  <1>2. QED
    BY <1>1, LocalInvariant, PTL DEF Spec, ScanTouchesOwnFiles

-----------------------------------------------------------------------------
(***************************************************************************)
(* Where the rows come from.  `fit` gives the rows that are in order for   *)
(* each file; FitInv says that the catalog, its savepoint and the batch    *)
(* hold only such rows, but for the row a write has not finished, and      *)
(* Supplies that what the scan is about to write is one.  Two theorems     *)
(* take it with a `fit` of their own.                                      *)
(***************************************************************************)
RowOf(x, doc, text) == [src |-> x, path |-> doc.file, stamp |-> doc.stamp,
                        digest |-> doc.digest, mode |-> doc.mode, text |-> text]

Fits(fit, doc) == \A x \in Sources : RowOf(x, doc, doc.text) \in fit[doc.file]
QueueFits(fit, queue) == \A i \in 1..Len(queue) : Fits(fit, queue[i])
RowsFit(fit, d) == \A f \in Files : HasRow(d, f) => d[f] \in fit[f]

DocsFit(fit) ==
  /\ \A f \in Files : HasRow(docs, f) /\ (pc = "chunks" => f # First.file) => docs[f] \in fit[f]
  /\ pc = "chunks" => docs[First.file] = RowOf(src, First, 0)

FitInv(fit) ==
  /\ RowsFit(fit, saved) /\ RowsFit(fit, mark) /\ DocsFit(fit)
  /\ QueueFits(fit, pending) /\ QueueFits(fit, embedded)

Supplies(fit) ==
  /\ pc # "idle" /\ cur \in Files /\ Kind[cur] = "office" =>
       \A f \in Files, n \in Nat : [FailedRow EXCEPT !.digest = n] \in fit[f]
  /\ pc = "hash" /\ SameDigest /\ HasRow(docs, cur) =>
       [docs[cur] EXCEPT !.src = src, !.path = cur, !.stamp = stat] \in fit[cur]
  /\ pc = "extract" => \A new : Fits(fit, [file |-> cur, stamp |-> stat, digest |-> digest,
                                  mode |-> "content", text |-> disk[cur].content, new |-> new])
  /\ pc = "stat" /\ Mode(cur) # "content" =>
       \A new : Fits(fit, [file |-> cur, stamp |-> disk[cur].stamp, digest |-> 0,
                           mode |-> "metadata", text |-> disk[cur].stamp, new |-> new])

LEMMA CommitFits ==
  ASSUME NEW fit, NEW d, RowsFit(fit, d), CommitAs(d), pc' # "chunks"
  PROVE  RowsFit(fit, saved)' /\ DocsFit(fit)'
  BY DEF CommitAs, RowsFit, DocsFit, HasRow

LEMMA ForgetFits ==
  ASSUME NEW fit, ForgetScan
  PROVE  /\ RowsFit(fit, mark)' /\ QueueFits(fit, pending)' /\ QueueFits(fit, embedded)'
         /\ pc' = "idle"
  <1>1. Len(pending') = 0 /\ Len(embedded') = 0 /\ mark' = [f \in Files |-> NoRow] /\ pc' = "idle"
    BY DEF ForgetScan
  <1>2. QED
    BY <1>1 DEF RowsFit, QueueFits, HasRow

LEMMA RollbackFits ==
  ASSUME NEW fit, FitInv(fit), Rollback, ForgetScan
  PROVE  FitInv(fit)'
  BY CommitFits, ForgetFits DEF FitInv, Rollback

\* Outside a write every row of the connection's view is in order.
LEMMA DocsInOrder ==
  ASSUME NEW fit, FitInv(fit), pc # "chunks"
  PROVE  RowsFit(fit, docs)
  BY DEF FitInv, DocsFit, RowsFit

LEMMA RowsAndBatchSame ==
  ASSUME NEW fit, FitInv(fit), UNCHANGED rows, UNCHANGED <<pending, embedded>>,
         pc # "chunks", pc' # "chunks"
  PROVE  FitInv(fit)'
  BY DEF FitInv, RowsFit, DocsFit, QueueFits, Fits, HasRow, rows

LEMMA FailFileFits ==
  ASSUME TypeOK, NEW fit, FitInv(fit), Supplies(fit), NEW n \in Nat, FailFile(n), cur \in Files,
         pc \notin {"idle", "chunks"}
  PROVE  FitInv(fit)'
  <1>0. docs \in Catalogs /\ RowsFit(fit, docs)
    BY DocsInOrder DEF TypeOK, RowsOK
  <1>1. ASSUME RecordFailure(n), NEW d, RowsFit(fit, d), CommitAs(d) PROVE FitInv(fit)'
    <2>1. UNCHANGED <<mark, pending, embedded>> /\ pc' = "walk"
      BY <1>1 DEF RecordFailure, batch
    <2>2. QED
      BY <1>1, <2>1, CommitFits DEF FitInv, RowsFit, QueueFits, Fits, HasRow
  <1>2. CASE DropFile(n)
    <2>1. UNCHANGED <<docs, saved, mark, pending, embedded>> /\ pc' = "walk"
      BY <1>2 DEF DropFile, RecordFailure, batch
    <2>2. QED
      BY <1>0, <2>1 DEF FitInv, RowsFit, DocsFit, QueueFits, Fits, HasRow
  <1>3. CASE PreserveOldRow(n)
    <2>1. RecordFailure(n) /\ Kind[cur] = "office" /\ old # NoOld
      BY <1>3 DEF PreserveOldRow
    <2>2. CASE HasRow(docs, old.file)
      <3> DEFINE row == [FailedRow EXCEPT !.digest = docs[old.file].digest]
      <3>1. old.file \in Files
        BY <2>1 DEF TypeOK, HandOK
      <3>2. docs[old.file] \in Row
        BY <1>0, <2>2, <3>1 DEF HasRow, Catalogs
      <3>3. docs[old.file].digest \in Nat
        BY <3>2 DEF Row
      <3>4. row \in fit[old.file]
        BY <2>1, <3>1, <3>3 DEF Supplies
      <3>5. RowsFit(fit, [docs EXCEPT ![old.file] = row])
        BY <1>0, <3>1, <3>4 DEF RowsFit, HasRow, Catalogs
      <3>6. QED
        BY <1>1, <1>3, <2>1, <2>2, <3>5 DEF PreserveOldRow
    <2>3. CASE ~HasRow(docs, old.file)
      BY <1>0, <1>1, <1>3, <2>1, <2>3 DEF PreserveOldRow
    <2>4. QED
      BY <2>2, <2>3
  <1>4. CASE PreserveNewRow(n)
    <2>1. RecordFailure(n) /\ Kind[cur] = "office"
      BY <1>4 DEF PreserveNewRow
    <2>2. [FailedRow EXCEPT !.digest = 0] \in fit[cur]
      BY <2>1 DEF Supplies
    <2>3. FailedRow = [FailedRow EXCEPT !.digest = 0]
      BY DEF FailedRow
    <2>4. RowsFit(fit, [docs EXCEPT ![cur] = FailedRow])
      BY <1>0, <2>2, <2>3 DEF RowsFit, HasRow, Catalogs
    <2>5. QED
      BY <1>1, <1>4, <2>1, <2>4 DEF PreserveNewRow
  <1>5. CASE PreserveRaises
    BY <1>5, RollbackFits DEF PreserveRaises, GiveUp
  <1>6. QED
    BY <1>2, <1>3, <1>4, <1>5 DEF FailFile

LEMMA PrepareFits ==
  ASSUME TypeOK, NEW fit, FitInv(fit), pc \in {"stat", "extract"}, NEW doc, Fits(fit, doc),
         Prepare(doc), UNCHANGED rows
  PROVE  FitInv(fit)'
  <1>1. /\ pending \in Seq(Prepared) /\ pending' = Append(pending, doc)
        /\ embedded' = embedded /\ pc' # "chunks"
    BY DEF Prepare, TypeOK, BatchOK
  <1>2. QueueFits(fit, pending')
    <2>1. /\ Len(pending') = Len(pending) + 1 /\ pending'[Len(pending) + 1] = doc
          /\ \A i \in 1..Len(pending) : pending'[i] = pending[i]
      BY <1>1
    <2>2. QED
      BY <1>1, <2>1 DEF FitInv, QueueFits
  <1>3. QueueFits(fit, pending)'
    BY <1>2 DEF QueueFits, Fits
  <1>4. QED
    BY <1>1, <1>3 DEF FitInv, RowsFit, DocsFit, QueueFits, Fits, HasRow, rows

LEMMA ReleaseFits ==
  ASSUME TypeOK, NEW fit, FitInv(fit), NEW d, RowsFit(fit, d), ReleaseAs(d), embedded # <<>>
  PROVE  FitInv(fit)'
  <1>1. /\ docs' = d /\ saved' = (IF txn THEN saved ELSE d) /\ pc' = "write"
        /\ UNCHANGED <<mark, pending>> /\ embedded' = Tail(embedded)
    BY DEF ReleaseAs
  <1>2. QueueFits(fit, embedded')
    <2>1. embedded \in Seq(Prepared)
      BY DEF TypeOK, BatchOK
    <2>2. Len(embedded') = Len(embedded) - 1
      BY <1>1, <2>1
    <2>3. \A i \in 1..Len(embedded') : embedded'[i] = embedded[i + 1] /\ i + 1 \in 1..Len(embedded)
      BY <1>1, <2>1, <2>2
    <2>4. QED
      BY <2>3 DEF FitInv, QueueFits
  <1>3. QueueFits(fit, embedded)'
    BY <1>2 DEF QueueFits, Fits
  <1>4. RowsFit(fit, saved') /\ RowsFit(fit, docs')
    BY <1>1 DEF FitInv
  <1>5. QED
    BY <1>1, <1>3, <1>4 DEF FitInv, RowsFit, DocsFit, QueueFits, Fits, HasRow

LEMMA FirstFits ==
  ASSUME TypeOK, NEW fit, FitInv(fit), embedded # <<>>
  PROVE  First \in Prepared /\ Fits(fit, First)
  <1>1. embedded \in Seq(Prepared) /\ First = embedded[1] /\ 1 \in 1..Len(embedded)
    BY DEF First, TypeOK, BatchOK
  <1>2. QED
    BY <1>1 DEF FitInv, QueueFits

LEMMA ScanStepFits ==
  ASSUME TypeOK, NEW fit, FitInv(fit), Supplies(fit), ScanStep
  PROVE  FitInv(fit)'
  <1>0. docs \in Catalogs
    BY DEF TypeOK, RowsOK
  <1>1. CASE FindOffline \/ NextEntryFindsSourceGone
    BY <1>1, RollbackFits DEF FindOffline, NextEntryFindsSourceGone, GiveUp
  <1>2. CASE \/ NextEntryStops \/ EndOfStream \/ HashFile \/ \E g \in Files : NextEntry(g)
    <2>1. UNCHANGED rows /\ UNCHANGED <<pending, embedded>> /\ pc # "chunks" /\ pc' # "chunks"
      BY <1>2 DEF NextEntryStops, EndOfStream, LeaveWalk, HashFile, NextEntry, batch
    <2>2. QED
      BY <2>1, RowsAndBatchSame
  <1>3. CASE StatFails \/ HashFails \/ ExtractFails
    <2>1. FailFile(1) /\ pc \notin {"idle", "chunks"} /\ cur \in Files
      BY <1>3 DEF StatFails, HashFails, ExtractFails, TypeOK, HandOK
    <2>2. QED
      BY <2>1, FailFileFits
  <1>4. CASE BackendFails
    <2>1. CASE inline
      <3>1. (\E n \in Nat : FailFile(n)) /\ pc \notin {"idle", "chunks"} /\ cur \in Files
        BY <1>4, <2>1, BackendFailsCases DEF TypeOK, HandOK
      <3>2. QED
        BY <3>1, FailFileFits
    <2>2. CASE ~inline
      BY <1>4, <2>2, RollbackFits DEF BackendFails, GiveUp
    <2>3. QED
      BY <2>1, <2>2
  <1>5. CASE StatFile
    <2>1. pc = "stat" /\ UNCHANGED rows /\ stat' = disk[cur].stamp
      BY <1>5 DEF StatFile
    <2>2. CASE pc' \in {"walk", "hash"} /\ UNCHANGED batch
      BY <2>1, <2>2, RowsAndBatchSame DEF batch
    <2>3. CASE ~Unchanged(cur) /\ Mode(cur) # "content"
      BY <1>5, <2>1, <2>3, PrepareFits DEF StatFile, Supplies
    <2>4. QED
      BY <1>5, <2>2, <2>3 DEF StatFile
  <1>6. CASE TouchRow
    <2>1. /\ pc = "hash" /\ SameDigest /\ pc' = "walk"
          /\ UNCHANGED <<saved, mark, pending, embedded>> /\ cur \in Files
      BY <1>6 DEF TouchRow, batch, TypeOK, HandOK
    <2>2. RowsFit(fit, docs')
      <3>1. CASE HasRow(docs, cur)
        <4>1. docs' = [docs EXCEPT ![cur] = [docs[cur] EXCEPT !.src = src, !.path = cur,
                                                              !.stamp = stat]]
          BY <1>0, <1>6, <2>1, <3>1 DEF TouchRow, Catalogs
        <4>2. [docs[cur] EXCEPT !.src = src, !.path = cur, !.stamp = stat] \in fit[cur]
          BY <2>1, <3>1 DEF Supplies
        <4>3. QED
          BY <1>0, <2>1, <4>1, <4>2, DocsInOrder DEF RowsFit, HasRow, Catalogs
      <3>2. CASE ~HasRow(docs, cur)
        BY <1>6, <2>1, <3>2, DocsInOrder DEF TouchRow
      <3>3. QED
        BY <3>1, <3>2
    <2>3. QED
      BY <2>1, <2>2 DEF FitInv, RowsFit, DocsFit, QueueFits, Fits, HasRow
  <1>7. CASE Extract
    BY <1>7, PrepareFits DEF Extract, Supplies
  <1>8. CASE EmbedBatch
    <2>1. PICK n \in 0..Len(pending) : \E pick \in [1..n -> 1..Len(pending)] :
            embedded' = [i \in 1..n |-> pending[pick[i]]]
      BY <1>8 DEF EmbedBatch
    <2>2. PICK pick \in [1..n -> 1..Len(pending)] : embedded' = [i \in 1..n |-> pending[pick[i]]]
      BY <2>1
    <2>3. /\ UNCHANGED <<rows, pending>> /\ pc # "chunks" /\ pc' # "chunks"
          /\ Len(pending) \in Nat /\ n \in Nat
      BY <1>8 DEF EmbedBatch, TypeOK, BatchOK
    <2>4. QueueFits(fit, embedded')
      BY <2>2, <2>3 DEF FitInv, QueueFits
    <2>5. QED
      BY <2>3, <2>4 DEF FitInv, RowsFit, DocsFit, QueueFits, Fits, HasRow, rows
  <1>9. CASE WriteRow
    <2>1. /\ pc = "write" /\ pc' = "chunks" /\ mark' = docs /\ embedded # <<>>
          /\ docs' = [docs EXCEPT ![First.file] = RowOf(src, First, 0)]
          /\ UNCHANGED <<saved, src, pending, embedded>>
      BY <1>9 DEF WriteRow, RowAt, RowOf, walk, batch
    <2>2. First' = First /\ First.file \in Files
      BY <2>1, FirstFits DEF First, Prepared
    <2>3. RowsFit(fit, docs)
      BY <2>1, DocsInOrder
    <2>4. DocsFit(fit)'
      <3>1. \A f \in Files : f # First.file => docs'[f] = docs[f]
        BY <1>0, <2>1 DEF Catalogs
      <3>2. docs'[First.file] = RowOf(src, First, 0)
        BY <1>0, <2>1, <2>2 DEF Catalogs
      <3>3. RowOf(src, First, 0)' = RowOf(src, First, 0)
        BY <2>1, <2>2 DEF RowOf
      <3>4. QED
        BY <2>1, <2>2, <2>3, <3>1, <3>2, <3>3 DEF DocsFit, RowsFit, HasRow
    <2>5. QED
      BY <2>1, <2>3, <2>4 DEF FitInv, RowsFit, QueueFits, Fits, HasRow
  <1>10. CASE RowRefused
    BY <1>10, DocsInOrder, ReleaseFits DEF RowRefused
  <1>11. CASE WriteChunks
    <2> DEFINE d == [docs EXCEPT ![First.file].text = First.text]
    <2>1. pc = "chunks" /\ embedded # <<>> /\ ReleaseAs(d) /\ src \in Sources
      BY <1>11 DEF WriteChunks, TypeOK, BatchOK, WalkOK
    <2>2. First.file \in Files /\ RowOf(src, First, First.text) \in fit[First.file]
      BY <2>1, FirstFits DEF Prepared, Fits
    <2>3. docs[First.file] = RowOf(src, First, 0)
      BY <2>1 DEF FitInv, DocsFit
    <2>4. d[First.file] = RowOf(src, First, First.text)
      BY <1>0, <2>2, <2>3 DEF RowOf, Catalogs
    <2>5. RowsFit(fit, d)
      BY <1>0, <2>1, <2>2, <2>4 DEF RowsFit, FitInv, DocsFit, HasRow, Catalogs
    <2>6. QED
      BY <2>1, <2>5, ReleaseFits
  <1>12. CASE WriteFails
    <2>1. embedded # <<>> /\ ReleaseAs(mark)
      BY <1>12 DEF WriteFails, TypeOK, BatchOK
    <2>2. QED
      BY <2>1, ReleaseFits DEF FitInv
  <1>13. CASE CommitBatch
    <2>1. /\ pc = "write" /\ pc' \in {"walk", "close"} /\ CommitAs(docs) /\ Len(pending') = 0
          /\ UNCHANGED <<mark, embedded>>
      BY <1>13 DEF CommitBatch
    <2>2. RowsFit(fit, saved)' /\ DocsFit(fit)'
      BY <2>1, CommitFits, DocsInOrder
    <2>3. QED
      BY <2>1, <2>2 DEF FitInv, RowsFit, QueueFits, Fits, HasRow
  <1>14. CASE Reconcile
    <2> DEFINE left == [f \in Files |-> IF f \in DocumentsOf(src) \ Seen THEN NoRow ELSE docs[f]]
    <2>1. pc = "close" /\ pc' = "report" /\ CommitAs(left) /\ UNCHANGED <<mark, pending, embedded>>
      BY <1>14 DEF Reconcile, DeleteUnseen, batch
    <2>2. RowsFit(fit, left)
      BY <2>1, DocsInOrder DEF RowsFit, HasRow
    <2>3. RowsFit(fit, saved)' /\ DocsFit(fit)'
      BY <2>1, <2>2, CommitFits
    <2>4. QED
      BY <2>1, <2>3 DEF FitInv, RowsFit, QueueFits, Fits, HasRow
  <1>15. CASE ReportIncomplete
    <2>1. CommitAs(docs) /\ ForgetScan /\ pc # "chunks"
      BY <1>15 DEF ReportIncomplete
    <2>2. QED
      BY <2>1, CommitFits, DocsInOrder, ForgetFits DEF FitInv
  <1>16. CASE ReportComplete \/ ReportFindsSourceGone
    <2>1. ForgetScan /\ UNCHANGED <<docs, saved>> /\ pc # "chunks"
      BY <1>16 DEF ReportComplete, ReportFindsSourceGone
    <2>2. QED
      BY <2>1, DocsInOrder, ForgetFits DEF FitInv, RowsFit, DocsFit, HasRow
  <1>17. QED
    BY <1>1, <1>2, <1>3, <1>4, <1>5, <1>6, <1>7, <1>8, <1>9, <1>10, <1>11, <1>12, <1>13,
       <1>14, <1>15, <1>16 DEF ScanStep

LEMMA WithoutFits ==
  ASSUME NEW fit, NEW d, RowsFit(fit, d), NEW x
  PROVE  RowsFit(fit, Without(d, x))
  BY DEF RowsFit, Without, HasRow

\* Every step: a crash, an edit or another process writes no row of its own.
LEMMA StepFits ==
  ASSUME TypeOK, NEW fit, FitInv(fit), Supplies(fit), [Next]_vars
  PROVE  FitInv(fit)'
  <1>1. ASSUME UNCHANGED <<rows, pc, src, pending, embedded>> PROVE FitInv(fit)'
    BY <1>1 DEF FitInv, RowsFit, DocsFit, QueueFits, Fits, First, HasRow, rows, RowOf
  <1>2. CASE Crash
    BY <1>2, RollbackFits DEF Crash
  <1>3. ASSUME NEW x \in Sources, Begin(x) PROVE FitInv(fit)'
    <2>1. /\ pc = "idle" /\ pc' = "walk" /\ CommitAs(docs) /\ UNCHANGED <<mark, pending, embedded>>
      BY <1>3 DEF Begin, batch
    <2>2. RowsFit(fit, saved)' /\ DocsFit(fit)'
      BY <2>1, CommitFits, DocsInOrder
    <2>3. QED
      BY <2>1, <2>2 DEF FitInv, RowsFit, QueueFits, Fits, HasRow
  <1>4. CASE MissEntries
    BY <1>1, <1>4 DEF MissEntries, batch
  <1>5. CASE FileStep
    BY <1>1, <1>5 DEF FileStep, WriteFile, RemoveFile, RestoreFile, LoseVolume, MountVolume,
                      scan, walk, batch
  <1>6. ASSUME NEW x \in Sources, RemoveSource(x) \/ Reindex(x) PROVE FitInv(fit)'
    <2>1. /\ pc # "chunks" /\ pc' = pc /\ UNCHANGED <<mark, pending, embedded>>
          /\ docs' = Without(docs, x) /\ saved' \in {Without(saved, x), docs'}
      BY <1>6 DEF RemoveSource, Reindex, WriteLocked, scan, batch
    <2>2. RowsFit(fit, docs') /\ RowsFit(fit, saved')
      BY <2>1, DocsInOrder, WithoutFits DEF FitInv
    <2>3. QED
      BY <2>1, <2>2 DEF FitInv, RowsFit, DocsFit, QueueFits, Fits, HasRow
  <1>7. CASE UserStep
    BY <1>1, <1>6, <1>7 DEF UserStep, SetEnabled, RequestStop, Restart, scan, walk, batch
  <1>8. CASE UNCHANGED vars
    BY <1>1, <1>8 DEF vars, scan, walk, batch
  <1>9. QED
    BY <1>2, <1>3, <1>4, <1>5, <1>7, <1>8, ScanStepFits DEF Next

-----------------------------------------------------------------------------
(***************************************************************************)
(* Whole documents: `fit` is every content row with a text.                *)
(***************************************************************************)
DiskInv == \A f \in Files : 1 <= disk[f].content /\ disk[f].content <= disk[f].stamp

WholeRows == [f \in Files |-> {r \in Row : r.mode = "content" => r.text # 0}]

WholeInv == TypeOK /\ DiskInv /\ FitInv(WholeRows)

\* What a step may do to the files; only an old content brought back makes the
\* number of the content smaller.
LEMMA DiskSteps ==
  ASSUME TypeOK, DiskInv, [Next]_vars
  PROVE  /\ DiskInv'
         /\ \A f \in Files :
              \/ disk'[f].stamp = disk[f].stamp /\ disk'[f].content = disk[f].content
              \/ /\ disk'[f].stamp = disk[f].stamp + 1
                 /\ "revert" \notin EditKinds => disk'[f].content >= disk[f].content
  <1>0. disk \in [Files -> [there : BOOLEAN, stamp : Nat, content : Nat]]
    BY DEF TypeOK, WorldOK
  <1>1. ASSUME UNCHANGED disk
        PROVE  DiskInv' /\ \A f \in Files : disk'[f].stamp = disk[f].stamp
                                            /\ disk'[f].content = disk[f].content
    BY <1>1 DEF DiskInv
  <1>2. ASSUME NEW f \in Files, WriteFile(f)
        PROVE  DiskInv' /\ \A g \in Files :
                 \/ disk'[g].stamp = disk[g].stamp /\ disk'[g].content = disk[g].content
                 \/ /\ disk'[g].stamp = disk[g].stamp + 1
                    /\ "revert" \notin EditKinds => disk'[g].content >= disk[g].content
    <2>1. PICK content \in 1 .. (disk[f].stamp + 1) :
            /\ content >= disk[f].content \/ "revert" \in EditKinds
            /\ disk' = [disk EXCEPT ![f].stamp = @ + 1, ![f].content = content]
      <3>1. PICK content \in 1 .. (disk[f].stamp + 1) :
              /\ \/ content = disk[f].stamp + 1 /\ Edit("write")
                 \/ content = disk[f].content /\ Edit("touch")
                 \/ content < disk[f].content /\ Edit("revert")
              /\ disk' = [disk EXCEPT ![f].stamp = @ + 1, ![f].content = content]
        BY <1>2 DEF WriteFile
      <3>2. content >= disk[f].content \/ "revert" \in EditKinds
        BY <1>0, <3>1 DEF DiskInv, Edit
      <3>3. QED
        BY <3>1, <3>2
    <2>2. /\ disk'[f].stamp = disk[f].stamp + 1 /\ disk'[f].content = content
          /\ \A g \in Files \ {f} : disk'[g] = disk[g]
      BY <1>0, <2>1
    <2>3. QED
      BY <1>0, <2>1, <2>2 DEF DiskInv
  <1>3. ASSUME NEW f \in Files, RemoveFile(f) \/ RestoreFile(f)
        PROVE  DiskInv' /\ \A g \in Files : disk'[g].stamp = disk[g].stamp
                                            /\ disk'[g].content = disk[g].content
    <2>1. \E v \in BOOLEAN : disk' = [disk EXCEPT ![f].there = v]
      BY <1>3 DEF RemoveFile, RestoreFile
    <2>2. \A g \in Files : disk'[g].stamp = disk[g].stamp /\ disk'[g].content = disk[g].content
      BY <1>0, <2>1
    <2>3. QED
      BY <2>2 DEF DiskInv
  <1>4. CASE FileStep
    BY <1>1, <1>2, <1>3, <1>4 DEF FileStep, LoseVolume, MountVolume
  <1>5. CASE ScanStep \/ MissEntries \/ Crash \/ UserStep \/ UNCHANGED vars
             \/ \E x \in Sources : Begin(x)
    BY <1>1, <1>5 DEF ScanStep, MissEntries, Crash, UserStep, Begin, vars
  <1>6. QED
    BY <1>4, <1>5 DEF Next

LEMMA InitFits ==
  ASSUME Init, NEW fit
  PROVE  FitInv(fit)
  <1>1. /\ docs = [f \in Files |-> NoRow] /\ saved = docs /\ mark = docs /\ pc = "idle"
        /\ Len(pending) = 0 /\ Len(embedded) = 0
    BY DEF Init
  <1>2. QED
    BY <1>1 DEF FitInv, RowsFit, DocsFit, QueueFits, HasRow

LEMMA WholeSupplies ==
  ASSUME WholeInv
  PROVE  Supplies(WholeRows)
  <1> USE DEF WholeInv
  <1>1. ASSUME pc # "idle", cur \in Files, NEW f \in Files, NEW n \in Nat
        PROVE  [FailedRow EXCEPT !.digest = n] \in WholeRows[f]
    <2>1. [FailedRow EXCEPT !.digest = n] \in Row
      BY <1>1 DEF TypeOK, HandOK, WalkOK, FailedRow, Row, Modes
    <2>2. QED
      BY <2>1 DEF WholeRows, FailedRow
  <1>2. ASSUME pc = "hash", HasRow(docs, cur)
        PROVE  [docs[cur] EXCEPT !.src = src, !.path = cur, !.stamp = stat] \in WholeRows[cur]
    <2>1. cur \in Files /\ src \in Sources /\ stat \in Nat
      BY <1>2 DEF TypeOK, HandOK, WalkOK
    <2>2. docs[cur] \in WholeRows[cur]
      BY <1>2, <2>1 DEF FitInv, DocsFit
    <2>3. QED
      BY <2>1, <2>2 DEF WholeRows, Row
  <1>3. ASSUME pc = "extract", NEW new
        PROVE  Fits(WholeRows, [file |-> cur, stamp |-> stat, digest |-> digest,
                        mode |-> "content", text |-> disk[cur].content, new |-> new])
    <2>1. cur \in Files /\ stat \in Nat /\ digest \in Nat
          /\ disk[cur].content \in Nat /\ disk[cur].content # 0
      BY <1>3 DEF TypeOK, HandOK, WorldOK, DiskInv
    <2>2. QED
      BY <2>1 DEF Fits, RowOf, WholeRows, Row, Modes
  <1>4. ASSUME pc = "stat", NEW new
        PROVE  Fits(WholeRows, [file |-> cur, stamp |-> disk[cur].stamp, digest |-> 0,
                        mode |-> "metadata", text |-> disk[cur].stamp, new |-> new])
    <2>1. cur \in Files /\ disk[cur].stamp \in Nat
      BY <1>4 DEF TypeOK, HandOK, WorldOK
    <2>2. QED
      BY <2>1 DEF Fits, RowOf, WholeRows, Row, Modes
  <1>5. QED
    BY <1>1, <1>2, <1>3, <1>4 DEF Supplies

\* Whatever fails or dies in between, no content document is committed without
\* the chunks of the version it was prepared from.
THEOREM ContentIsCommittedWhole == Spec => []CommittedWhole
  <1>1. Init => DiskInv /\ FitInv(WholeRows)
    <2>1. Init => DiskInv
      BY DEF Init, DiskInv
    <2>2. Init => FitInv(WholeRows)
      BY InitFits
    <2>3. QED
      BY <2>1, <2>2
  <1>2. TypeOK' /\ WholeInv /\ [Next]_vars => WholeInv'
    <2> SUFFICES ASSUME TypeOK', WholeInv, [Next]_vars PROVE DiskInv' /\ FitInv(WholeRows)'
      BY DEF WholeInv
    <2>1. DiskInv'
      BY DiskSteps DEF WholeInv
    <2>2. FitInv(WholeRows)'
      BY WholeSupplies, StepFits DEF WholeInv
    <2>3. QED
      BY <2>1, <2>2
  <1>3. WholeInv => CommittedWhole
    BY DEF WholeInv, FitInv, RowsFit, WholeRows, CommittedWhole
  <1>4. QED
    BY <1>1, <1>2, <1>3, TypeCorrect, PTL DEF Spec, WholeInv

-----------------------------------------------------------------------------
(***************************************************************************)
(* Current rows: `fit` follows the disk.  The stamp of a row is read       *)
(* before its digest and its digest before its text, and the numbers only  *)
(* grow; so a row whose stamp is still the one of the file was cut from    *)
(* what the file holds, and a digest that is still the one of the file     *)
(* belongs to a text that is.  Both need that no old content comes back.   *)
(* A failed Office file may write over the row of an earlier file of the   *)
(* walk; that row is then a metadata row, which shows in a content file    *)
(* and not in a metadata-only one.                                         *)
(***************************************************************************)
Trusted == {f \in Files : Mode(f) = "content" \/ \A g \in Files : Kind[g] # "office"}

\* A row of the file that a scan might take for unchanged.
Current(f, row) ==
  /\ row.path = f
  /\ IF Mode(f) = "content"
       THEN /\ row.stamp <= disk[f].stamp
            /\ row.digest <= row.text /\ row.text <= disk[f].content
            /\ row.stamp = disk[f].stamp => row.text = disk[f].content
       ELSE row.text = row.stamp

CurrentRows ==
  [f \in Files |-> {r \in Row : f \in Trusted /\ r.mode = Mode(f) => Current(f, r)}]

HandInv ==
  /\ pc \in {"hash", "extract"} => Mode(cur) = "content" /\ stat <= disk[cur].stamp
  /\ pc = "hash" /\ HasRow(docs, cur) => old = RowFor(cur)
  /\ pc = "extract" => digest <= disk[cur].content

CurrentInv == TypeOK /\ DiskInv /\ HandInv /\ FitInv(CurrentRows)

LEMMA CurrentSupplies ==
  ASSUME CurrentInv
  PROVE  Supplies(CurrentRows)
  <1> USE DEF CurrentInv
  <1>1. ASSUME pc # "idle", cur \in Files, Kind[cur] = "office", NEW f \in Files, NEW n \in Nat
        PROVE  [FailedRow EXCEPT !.digest = n] \in CurrentRows[f]
    <2>1. [FailedRow EXCEPT !.digest = n] \in Row
      BY <1>1 DEF TypeOK, HandOK, WalkOK, FailedRow, Row, Modes
    <2>2. f \in Trusted => Mode(f) # "metadata"
      BY <1>1 DEF Trusted
    <2>3. QED
      BY <2>1, <2>2 DEF CurrentRows, FailedRow
  <1>2. ASSUME pc = "hash", SameDigest, HasRow(docs, cur)
        PROVE  [docs[cur] EXCEPT !.src = src, !.path = cur, !.stamp = stat] \in CurrentRows[cur]
    <2> DEFINE row == [docs[cur] EXCEPT !.src = src, !.path = cur, !.stamp = stat]
    <2>1. /\ cur \in Files /\ src \in Sources /\ stat \in Nat
          /\ Mode(cur) = "content" /\ stat <= disk[cur].stamp
      BY <1>2 DEF TypeOK, HandOK, WalkOK, HandInv
    <2>2. docs[cur] \in CurrentRows[cur] /\ docs[cur] \in Row
      BY <1>2, <2>1 DEF FitInv, DocsFit, CurrentRows
    <2>3. docs[cur].mode = "content" /\ docs[cur].digest = disk[cur].content
      BY <1>2 DEF HandInv, RowFor, SameDigest
    <2>4. Current(cur, docs[cur])
      BY <2>1, <2>2, <2>3 DEF CurrentRows, Trusted
    <2>5. docs[cur].text = disk[cur].content
      <3>1. docs[cur].text \in Nat /\ disk[cur].content \in Nat
        BY <2>1, <2>2 DEF Row, TypeOK, WorldOK
      <3>2. QED
        BY <2>1, <2>3, <2>4, <3>1 DEF Current
    <2>6. /\ row \in Row /\ row.path = cur /\ row.stamp = stat
          /\ row.digest = docs[cur].digest /\ row.text = docs[cur].text
      BY <2>1, <2>2 DEF Row
    <2>7. Current(cur, row)
      BY <2>1, <2>4, <2>5, <2>6 DEF Current
    <2>8. QED
      BY <2>1, <2>6, <2>7 DEF CurrentRows
  <1>3. ASSUME pc = "extract", NEW new
        PROVE  Fits(CurrentRows, [file |-> cur, stamp |-> stat, digest |-> digest,
                        mode |-> "content", text |-> disk[cur].content, new |-> new])
    <2>1. /\ cur \in Files /\ stat \in Nat /\ digest \in Nat /\ disk[cur].content \in Nat
          /\ Mode(cur) = "content" /\ stat <= disk[cur].stamp /\ digest <= disk[cur].content
      BY <1>3 DEF TypeOK, HandOK, WorldOK, HandInv
    <2>2. QED
      BY <2>1 DEF Fits, RowOf, CurrentRows, Current, Row, Modes
  <1>4. ASSUME pc = "stat", Mode(cur) # "content", NEW new
        PROVE  Fits(CurrentRows, [file |-> cur, stamp |-> disk[cur].stamp, digest |-> 0,
                        mode |-> "metadata", text |-> disk[cur].stamp, new |-> new])
    <2>1. cur \in Files /\ disk[cur].stamp \in Nat
      BY <1>4 DEF TypeOK, HandOK, WorldOK
    <2>2. QED
      BY <1>4, <2>1 DEF Fits, RowOf, CurrentRows, Current, Row, Modes
  <1>5. QED
    BY <1>1, <1>2, <1>3, <1>4 DEF Supplies

\* A row in order stays so while its file gets newer.
LEMMA CurrentRowsStay ==
  ASSUME TypeOK, TypeOK', DiskInv, [Next]_vars, "revert" \notin EditKinds, NEW f \in Files
  PROVE  CurrentRows[f] \subseteq CurrentRows'[f]
  <1> SUFFICES ASSUME NEW r \in CurrentRows[f], f \in Trusted, r.mode = Mode(f)
               PROVE  Current(f, r)'
    BY DEF CurrentRows, Trusted, Mode
  <1>1. r \in Row /\ Current(f, r)
    BY DEF CurrentRows
  <1>2. /\ r.stamp \in Nat /\ r.digest \in Nat /\ r.text \in Nat
        /\ disk[f].stamp \in Nat /\ disk[f].content \in Nat
        /\ disk'[f].stamp \in Nat /\ disk'[f].content \in Nat
    BY <1>1 DEF Row, TypeOK, WorldOK
  <1>3. \/ disk'[f].stamp = disk[f].stamp /\ disk'[f].content = disk[f].content
        \/ disk'[f].stamp = disk[f].stamp + 1 /\ disk'[f].content >= disk[f].content
    BY DiskSteps
  <1>4. QED
    BY <1>1, <1>2, <1>3 DEF Current

LEMMA MoreFits ==
  ASSUME TypeOK', NEW fit, FitInv(fit)', NEW more, \A f \in Files : fit[f] \subseteq more[f]
  PROVE  FitInv(more)'
  <1>1. pending' \in Seq(Prepared) /\ embedded' \in Seq(Prepared)
    BY DEF TypeOK, BatchOK
  <1>2. ASSUME NEW q \in Seq(Prepared), QueueFits(fit, q) PROVE QueueFits(more, q)
    <2> SUFFICES ASSUME NEW i \in 1..Len(q) PROVE Fits(more, q[i])
      BY DEF QueueFits
    <2>1. q[i] \in Prepared /\ Fits(fit, q[i])
      BY <1>2 DEF QueueFits
    <2>2. q[i].file \in Files
      BY <2>1 DEF Prepared
    <2>3. QED
      BY <2>1, <2>2 DEF Fits
  <1>3. QueueFits(fit, pending') /\ QueueFits(fit, embedded')
    BY DEF FitInv, QueueFits, Fits
  <1>4. QueueFits(more, pending') /\ QueueFits(more, embedded')
    BY <1>1, <1>2, <1>3
  <1>5. QueueFits(more, pending)' /\ QueueFits(more, embedded)'
    BY <1>4 DEF QueueFits, Fits
  <1>6. RowsFit(more, saved)' /\ RowsFit(more, mark)' /\ DocsFit(more)'
    BY DEF FitInv, RowsFit, DocsFit, HasRow
  <1>7. QED
    BY <1>5, <1>6 DEF FitInv

LEMMA HandStays ==
  ASSUME CurrentInv, TypeOK', [Next]_vars, "revert" \notin EditKinds
  PROVE  HandInv'
  <1> USE DEF CurrentInv
  <1>1. ASSUME pc' \notin {"hash", "extract"} PROVE HandInv'
    BY <1>1 DEF HandInv
  <1>2. CASE StatFile /\ UNCHANGED disk
    <2>1. /\ pc = "stat" /\ cur' = cur /\ cur \in Files /\ stat' = disk[cur].stamp
          /\ old' = RowFor(cur) /\ UNCHANGED docs /\ disk[cur].stamp \in Nat
      BY <1>2 DEF StatFile, rows, TypeOK, HandOK, WorldOK
    <2>2. CASE pc' = "hash"
      <3>1. Mode(cur) = "content"
        BY <1>2, <2>2 DEF StatFile, Prepare
      <3>2. QED
        BY <1>2, <2>1, <2>2, <3>1 DEF HandInv, RowFor, HasRow, Mode
    <2>3. CASE pc' # "hash"
      BY <1>1, <1>2, <2>3 DEF StatFile, Prepare
    <2>4. QED
      BY <2>2, <2>3
  <1>3. CASE HashFile /\ UNCHANGED disk
    <2>1. /\ pc = "hash" /\ pc' = "extract" /\ UNCHANGED <<cur, stat>> /\ cur \in Files
          /\ digest' = disk[cur].content /\ disk[cur].content \in Nat
      BY <1>3 DEF HashFile, TypeOK, HandOK, WorldOK
    <2>2. QED
      BY <1>3, <2>1 DEF HandInv, Mode
  <1>4. CASE ScanStep
    <2>1. ASSUME ~StatFile, ~HashFile PROVE pc' \notin {"hash", "extract"}
      BY <1>4, <2>1 DEF ScanStep, FindOffline, NextEntryStops, NextEntryFindsSourceGone, NextEntry,
              EndOfStream, StatFails, TouchRow, HashFails, Extract, Prepare,
              ExtractFails, EmbedBatch, BackendFails, WriteRow, RowAt, RowRefused, WriteChunks,
              WriteFails, CommitBatch, Reconcile, DeleteUnseen, ReportIncomplete, ReportComplete,
              ReportFindsSourceGone, LeaveWalk, FailFile, DropFile, PreserveOldRow,
              PreserveNewRow, PreserveRaises, RecordFailure, GiveUp, ForgetScan, ReleaseAs
    <2>2. QED
      BY <1>1, <1>2, <1>3, <1>4, <2>1 DEF ScanStep
  <1>5. ASSUME UNCHANGED <<pc, cur, stat, old, digest>>,
               pc = "hash" /\ HasRow(docs', cur) => docs'[cur] = docs[cur]
        PROVE  HandInv'
    <2>1. CASE pc \in {"hash", "extract"}
      <3>1. /\ cur \in Files /\ stat \in Nat /\ digest \in Nat
            /\ disk[cur].stamp \in Nat /\ disk[cur].content \in Nat
        BY <2>1 DEF TypeOK, HandOK, WorldOK
      <3>2. stat <= disk[cur].stamp /\ (pc = "extract" => digest <= disk[cur].content)
        BY <2>1 DEF HandInv
      <3>3. \/ disk'[cur].stamp = disk[cur].stamp /\ disk'[cur].content = disk[cur].content
            \/ disk'[cur].stamp = disk[cur].stamp + 1 /\ disk'[cur].content >= disk[cur].content
        BY <3>1, DiskSteps
      <3>4. disk'[cur].content \in Nat
        BY <3>1 DEF TypeOK, WorldOK
      <3>5. stat <= disk'[cur].stamp
        BY <3>1, <3>2, <3>3
      <3>6. pc = "extract" => digest <= disk'[cur].content
        BY <3>1, <3>2, <3>3, <3>4
      <3>7. pc = "hash" /\ HasRow(docs', cur) => old = RowFor(cur)'
        BY <1>5 DEF HandInv, RowFor, HasRow
      <3>8. QED
        BY <1>5, <2>1, <3>5, <3>6, <3>7 DEF HandInv, HasRow, Mode
    <2>2. QED
      BY <1>1, <1>5, <2>1
  <1>6. CASE FileStep
    BY <1>5, <1>6 DEF FileStep, WriteFile, RemoveFile, RestoreFile, LoseVolume, MountVolume,
                      scan, hand, rows
  <1>7. CASE UserStep
    BY <1>5, <1>7 DEF UserStep, SetEnabled, RemoveSource, Reindex, RequestStop, Restart,
                      scan, hand, rows, Without, HasRow, TypeOK, HandOK
  <1>8. CASE Crash \/ MissEntries \/ \E x \in Sources : Begin(x)
    BY <1>1, <1>8 DEF Crash, ForgetScan, MissEntries, Begin
  <1>9. CASE UNCHANGED vars
    BY <1>5, <1>9 DEF vars, scan, hand, rows
  <1>10. QED
    BY <1>4, <1>6, <1>7, <1>8, <1>9 DEF Next

LEMMA CurrentInvariant ==
  ASSUME "revert" \notin EditKinds
  PROVE  Spec => []CurrentInv
  <1>1. Init => DiskInv /\ HandInv /\ FitInv(CurrentRows)
    <2> SUFFICES ASSUME Init PROVE DiskInv /\ HandInv /\ FitInv(CurrentRows)
      OBVIOUS
    <2>1. DiskInv /\ HandInv
      BY DEF Init, DiskInv, HandInv
    <2>2. FitInv(CurrentRows)
      BY InitFits
    <2>3. QED
      BY <2>1, <2>2
  <1>2. TypeOK' /\ CurrentInv /\ [Next]_vars => CurrentInv'
    <2> SUFFICES ASSUME TypeOK', CurrentInv, [Next]_vars
                 PROVE  DiskInv' /\ HandInv' /\ FitInv(CurrentRows)'
      BY DEF CurrentInv
    <2>1. DiskInv' /\ HandInv'
      BY DiskSteps, HandStays DEF CurrentInv
    <2>2. PICK fit, more : fit = CurrentRows /\ more = CurrentRows'
      OBVIOUS
    <2>3. FitInv(fit) /\ Supplies(fit)
      BY <2>2, CurrentSupplies DEF CurrentInv
    <2>4. FitInv(fit)'
      BY <2>3, StepFits DEF CurrentInv
    <2>5. \A f \in Files : fit[f] \subseteq more[f]
      BY <2>2, CurrentRowsStay DEF CurrentInv
    <2>6. FitInv(more)'
      BY <2>4, <2>5, MoreFits
    <2>7. FitInv(CurrentRows)'
      BY <2>2, <2>6 DEF FitInv, RowsFit, DocsFit, QueueFits, Fits
    <2>8. QED
      BY <2>1, <2>7
  <1>3. QED
    BY <1>1, <1>2, TypeCorrect, PTL DEF Spec, CurrentInv

\* What a scan may skip of file f is not stale.
CurrentWhenUnchanged(f) ==
  HasRow(saved, f) /\ saved[f].stamp = disk[f].stamp /\ saved[f].mode = Mode(f)
    => saved[f].text = Text(f) /\ saved[f].path = f

\* A text or Office file whose committed row has the size and mtime of the file
\* is indexed with the text it holds, if users bring no old content back.
THEOREM ContentRowsAreCurrent ==
  ASSUME "revert" \notin EditKinds
  PROVE  Spec => [](\A f \in Files : Mode(f) = "content" => CurrentWhenUnchanged(f))
  <1>1. CurrentInv => \A f \in Trusted : CurrentWhenUnchanged(f)
    BY DEF CurrentInv, FitInv, RowsFit, CurrentRows, Current, Trusted, CurrentWhenUnchanged, Text
  <1>2. CurrentInv => \A f \in Files : Mode(f) = "content" => CurrentWhenUnchanged(f)
    BY <1>1 DEF Trusted
  <1>3. QED
    BY <1>2, CurrentInvariant, PTL

\* Nothing a scan skips is stale, if users bring no old content back and no
\* source mixes metadata-only files, whose rows a failed Office file may take.
THEOREM SkippedRowsAreCurrent ==
  ASSUME "revert" \notin EditKinds,
         (\A f \in Files : Kind[f] # "office") \/ (\A f \in Files : Kind[f] # "metadata")
  PROVE  Spec => []UnchangedMeansCurrent
  <1>1. CurrentInv /\ DeletionInv => UnchangedMeansCurrent
    <2> SUFFICES ASSUME CurrentInv, DeletionInv, NEW f \in Files, HasRow(saved, f),
                        saved[f].stamp = disk[f].stamp, saved[f].mode = Mode(f)
                 PROVE  saved[f].text = Text(f) /\ saved[f].path = f
      BY DEF UnchangedMeansCurrent
    <2>1. Kind[f] # "ignored"
      BY DEF DeletionInv, RowInv, OwnRows, Own
    <2>2. f \in Trusted
      BY <2>1, ScanAssumption DEF Trusted, Mode, ScanAssumption
    <2>3. saved[f] \in CurrentRows[f]
      BY DEF CurrentInv, FitInv, RowsFit
    <2>4. Current(f, saved[f])
      BY <2>2, <2>3 DEF CurrentRows
    <2>5. QED
      BY <2>4 DEF Current, Text
  <1>2. QED
    BY <1>1, CurrentInvariant, DeletionInvariant, PTL

-----------------------------------------------------------------------------
(***************************************************************************)
(* Isolation.  The handler of a file writes to the row that `old` names,   *)
(* and once stat() has succeeded that is the row of the file in hand.      *)
(***************************************************************************)
OldIsOwn == pc \in {"hash", "extract"} => old = NoOld \/ old.file = cur

IsolationInv == TypeOK /\ OldIsOwn /\ tally.failed >= 0

LEMMA OldStaysOwn ==
  ASSUME TypeOK, OldIsOwn, [Next]_vars
  PROVE  OldIsOwn'
  <1>1. CASE StatFile
    BY <1>1 DEF StatFile, RowFor, OldIsOwn
  <1>2. CASE HashFile
    BY <1>2 DEF HashFile, OldIsOwn
  <1>3. ASSUME pc' \notin {"hash", "extract"} PROVE OldIsOwn'
    BY <1>3 DEF OldIsOwn
  <1>4. CASE ScanStep
    <2>1. ASSUME ~StatFile, ~HashFile PROVE pc' \notin {"hash", "extract"}
      BY <1>4, <2>1 DEF ScanStep, FindOffline, NextEntryStops, NextEntryFindsSourceGone, NextEntry,
              EndOfStream, StatFails, TouchRow, HashFails, Extract, Prepare,
              ExtractFails, EmbedBatch, BackendFails, WriteRow, RowAt, RowRefused, WriteChunks,
              WriteFails, CommitBatch, Reconcile, DeleteUnseen, ReportIncomplete, ReportComplete,
              ReportFindsSourceGone, LeaveWalk, FailFile, DropFile, PreserveOldRow,
              PreserveNewRow, PreserveRaises, RecordFailure, GiveUp, ForgetScan, ReleaseAs
    <2>2. QED
      BY <1>1, <1>2, <1>3, <2>1
  <1>5. ASSUME UNCHANGED <<pc, cur, old>> PROVE OldIsOwn'
    BY <1>5 DEF OldIsOwn
  <1>6. CASE FileStep \/ UserStep \/ UNCHANGED vars
    BY <1>5, <1>6 DEF FileStep, WriteFile, RemoveFile, RestoreFile, LoseVolume, MountVolume,
                      UserStep, SetEnabled, RemoveSource, Reindex, RequestStop, Restart, vars, scan, hand
  <1>7. CASE Crash \/ MissEntries \/ \E x \in Sources : Begin(x)
    BY <1>3, <1>7 DEF Crash, ForgetScan, MissEntries, Begin
  <1>8. QED
    BY <1>4, <1>6, <1>7 DEF Next

\* No failure is added; the end of a scan clears their number.
FailuresKept == tally'.failed = tally.failed \/ tally'.failed = 0

LEMMA FailFileFailures ==
  ASSUME TypeOK, NEW n \in Nat, FailFile(n)
  PROVE  \/ RecordFailure(n) /\ tally'.failed = tally.failed + n
         \/ tally'.failed = 0
  <1>1. tally \in [seen : Int, accepted : Int, ignored : Int, failed : Int, completed : Int]
    BY DEF TypeOK, TallyOK
  <1>2. CASE RecordFailure(n)
    BY <1>1, <1>2 DEF RecordFailure, CountFailures
  <1>3. CASE PreserveRaises
    BY <1>3 DEF PreserveRaises, GiveUp, ForgetScan, NoTally
  <1>4. QED
    BY <1>2, <1>3 DEF FailFile, DropFile, PreserveOldRow, PreserveNewRow

LEMMA ScanStepFailures ==
  ASSUME TypeOK, ScanStep
  PROVE  \/ FailuresKept
         \/ (StatFails \/ HashFails \/ ExtractFails) /\ tally'.failed = tally.failed + 1
         \/ pc \notin {"stat", "hash", "extract"} /\ \E n \in Nat : tally'.failed = tally.failed + n
  <1>1. /\ tally \in [seen : Int, accepted : Int, ignored : Int, failed : Int, completed : Int]
        /\ Len(pending) \in Nat
    BY DEF TypeOK, TallyOK, BatchOK
  <1>2. CASE StatFails \/ HashFails \/ ExtractFails
    BY <1>2, FailFileFailures DEF FailuresKept, StatFails, HashFails, ExtractFails
  <1>3. CASE BackendFails
    <2>1. CASE GiveUp("error")
      BY <2>1 DEF GiveUp, ForgetScan, NoTally, FailuresKept
    <2>2. ASSUME NEW n \in Nat, FailFile(n)
          PROVE  tally'.failed = tally.failed + n \/ FailuresKept
      BY <2>2, FailFileFailures DEF FailuresKept
    <2>3. QED
      BY <1>3, <2>1, <2>2, BackendFailsCases
  <1>4. CASE EmbedBatch
    <2>1. PICK n \in 0..Len(pending) : CountFailures(Len(pending) - n)
      BY <1>4 DEF EmbedBatch
    <2>2. Len(pending) - n \in Nat
      BY <1>1
    <2>3. tally'.failed = tally.failed + (Len(pending) - n)
      BY <1>1, <2>1 DEF CountFailures
    <2>4. QED
      BY <1>4, <2>2, <2>3 DEF EmbedBatch
  <1>5. CASE RowRefused \/ WriteFails
    <2>1. pc \in {"write", "chunks"} /\ tally'.failed = tally.failed + 1
      BY <1>1, <1>5 DEF RowRefused, WriteFails, CountFailures
    <2>2. QED
      BY <2>1
  <1>6. CASE FindOffline \/ NextEntryFindsSourceGone \/ ReportIncomplete \/ ReportComplete
             \/ ReportFindsSourceGone
    BY <1>6 DEF FindOffline, NextEntryFindsSourceGone, ReportIncomplete, ReportComplete,
                ReportFindsSourceGone, GiveUp, ForgetScan, NoTally, FailuresKept
  <1>7. CASE \E f \in Files : NextEntry(f)
    BY <1>1, <1>7 DEF NextEntry, FailuresKept
  <1>8. CASE StatFile \/ TouchRow \/ WriteChunks
    BY <1>1, <1>8 DEF StatFile, TouchRow, WriteChunks, FailuresKept
  <1>9. CASE NextEntryStops \/ EndOfStream \/ HashFile \/ Extract \/ WriteRow \/ CommitBatch
             \/ Reconcile
    BY <1>9 DEF NextEntryStops, EndOfStream, LeaveWalk, HashFile, Extract, WriteRow, RowAt,
                CommitBatch, Reconcile, DeleteUnseen, FailuresKept
  <1>10. QED
    BY <1>2, <1>3, <1>4, <1>5, <1>6, <1>7, <1>8, <1>9 DEF ScanStep

\* Which steps add failures while a file is in hand.
LEMMA HandFailures ==
  ASSUME IsolationInv, [Next]_vars
  PROVE  /\ tally'.failed >= 0
         /\ pc \in {"stat", "hash", "extract"} /\ tally'.failed > tally.failed
              => StatFails \/ HashFails \/ ExtractFails
  <1>1. tally.failed \in Int /\ tally.failed >= 0
    BY DEF IsolationInv, TypeOK, TallyOK
  <1>2. ASSUME FailuresKept
        PROVE  tally'.failed >= 0 /\ ~(tally'.failed > tally.failed)
    BY <1>1, <1>2 DEF FailuresKept
  <1>3. CASE ScanStep
    <2>1. \/ FailuresKept
          \/ (StatFails \/ HashFails \/ ExtractFails) /\ tally'.failed = tally.failed + 1
          \/ pc \notin {"stat", "hash", "extract"} /\ \E n \in Nat : tally'.failed = tally.failed + n
      BY <1>3, ScanStepFailures DEF IsolationInv
    <2>2. CASE FailuresKept
      BY <1>2, <2>2
    <2>3. CASE (StatFails \/ HashFails \/ ExtractFails) /\ tally'.failed = tally.failed + 1
      BY <1>1, <2>3
    <2>4. CASE pc \notin {"stat", "hash", "extract"} /\ \E n \in Nat : tally'.failed = tally.failed + n
      BY <1>1, <2>4
    <2>5. QED
      BY <2>1, <2>2, <2>3, <2>4
  <1>4. CASE Crash
    <2>1. FailuresKept
      BY <1>4 DEF Crash, ForgetScan, NoTally, FailuresKept
    <2>2. QED
      BY <1>2, <2>1
  <1>5. CASE MissEntries \/ FileStep \/ UserStep \/ UNCHANGED vars \/ \E x \in Sources : Begin(x)
    <2>1. FailuresKept
      BY <1>5 DEF MissEntries, FileStep, WriteFile, RemoveFile, RestoreFile, LoseVolume, MountVolume,
                  UserStep, SetEnabled, RemoveSource, Reindex, RequestStop, Restart, Begin, vars,
                  scan, FailuresKept
    <2>2. QED
      BY <1>2, <2>1
  <1>6. QED
    BY <1>3, <1>4, <1>5 DEF Next

LEMMA IsolationInvariant == Spec => []IsolationInv
  <1>1. Init => OldIsOwn /\ tally.failed >= 0
    BY DEF Init, OldIsOwn, NoTally
  <1>2. TypeOK' /\ IsolationInv /\ [Next]_vars => IsolationInv'
    BY OldStaysOwn, HandFailures DEF IsolationInv
  <1>3. QED
    BY <1>1, <1>2, TypeCorrect, PTL DEF Spec, IsolationInv

\* The handler writes the row of `old`, or the one of the file in hand.
LEMMA FailFileWrites ==
  ASSUME TypeOK, NEW n \in Nat, FailFile(n), tally'.failed # 0, NEW f \in Files \ {cur}
  PROVE  \/ docs'[f] = docs[f]
         \/ Kind[cur] = "office" /\ old # NoOld /\ f = old.file
  <1>1. docs \in Catalogs
    BY DEF TypeOK, RowsOK
  <1>2. CASE DropFile(n)
    BY <1>2 DEF DropFile
  <1>3. CASE PreserveOldRow(n)
    BY <1>1, <1>3 DEF PreserveOldRow, CommitAs, Catalogs
  <1>4. CASE PreserveNewRow(n)
    BY <1>1, <1>4 DEF PreserveNewRow, CommitAs, Catalogs
  <1>5. ~PreserveRaises
    BY DEF PreserveRaises, GiveUp, ForgetScan, NoTally
  <1>6. QED
    BY <1>2, <1>3, <1>4, <1>5 DEF FailFile

\* A failure while a file is hashed or extracted leaves the documents of all
\* others alone, whatever their kinds: only a failing stat() can break the
\* isolation per document that the repository's README states.
THEOREM FailuresAfterStatAreIsolated ==
  Spec => [][\A f \in Files \ {cur} :
               pc \in {"hash", "extract"} /\ tally'.failed > tally.failed
                 => docs'[f] = docs[f]]_vars
  <1>1. IsolationInv /\ [Next]_vars =>
          \A f \in Files \ {cur} :
            pc \in {"hash", "extract"} /\ tally'.failed > tally.failed => docs'[f] = docs[f]
    <2> SUFFICES ASSUME IsolationInv, [Next]_vars, NEW f \in Files \ {cur},
                        pc \in {"hash", "extract"}, tally'.failed > tally.failed
                 PROVE  docs'[f] = docs[f]
      OBVIOUS
    <2>1. FailFile(1)
      BY HandFailures DEF StatFails, HashFails, ExtractFails
    <2>2. tally'.failed # 0
      BY DEF IsolationInv, TypeOK, TallyOK
    <2>3. old = NoOld \/ old.file = cur
      BY DEF IsolationInv, OldIsOwn
    <2>4. QED
      BY <2>1, <2>2, <2>3, FailFileWrites DEF IsolationInv
  <1>2. QED
    BY <1>1, IsolationInvariant, PTL DEF Spec

\* Without Office files every failure of the loop body is isolated.
THEOREM OtherKindsAreIsolated ==
  ASSUME \A f \in Files : Kind[f] # "office"
  PROVE  Spec => FailureIsIsolated
  <1>1. IsolationInv /\ [Next]_vars =>
          \A f \in Files \ {cur} :
            pc \in {"stat", "hash", "extract"} /\ tally'.failed > tally.failed
              => docs'[f] = docs[f]
    <2> SUFFICES ASSUME IsolationInv, [Next]_vars, NEW f \in Files \ {cur},
                        pc \in {"stat", "hash", "extract"}, tally'.failed > tally.failed
                 PROVE  docs'[f] = docs[f]
      OBVIOUS
    <2>1. FailFile(1)
      BY HandFailures DEF StatFails, HashFails, ExtractFails
    <2>2. tally'.failed # 0
      BY DEF IsolationInv, TypeOK, TallyOK
    <2>3. cur \in Files
      BY DEF IsolationInv, TypeOK, HandOK
    <2>4. QED
      BY <2>1, <2>2, <2>3, FailFileWrites DEF IsolationInv
  <1>2. QED
    BY <1>1, IsolationInvariant, PTL DEF Spec, FailureIsIsolated

=============================================================================
