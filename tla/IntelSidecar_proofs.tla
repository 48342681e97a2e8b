------------------------ MODULE IntelSidecar_proofs ------------------------
(***************************************************************************)
(* Proofs about IntelSidecar: for any number of backends, sidecars, jobs   *)
(* and acts of other threads, the variables keep their types, a sidecar is *)
(* left running only by a job that ends on a replaced backend or after the *)
(* end of the client has begun, and no cancel is forgotten.                *)
(***************************************************************************)
EXTENDS IntelSidecar, TLAPS

(***************************************************************************)
(* Types.                                                                  *)
(***************************************************************************)
LEMMA FirstBackend == 1 \in Backends
  BY SidecarAssumption DEF SidecarAssumption, Backends

LEMMA ActTyped ==
  ASSUME TypeOK, Act
  PROVE  requests' \in 0..MaxRequests /\ acts' \in 0..MaxActs
  BY SidecarAssumption DEF SidecarAssumption, TypeOK, Act

\* What the native job does next is one of its labels.
LEMMA GoTyped ==
  ASSUME w \in Job, NEW label \in Labels, Go(label)
  PROVE  w' \in Job
  BY DEF Go, Job

LEMMA OverTyped ==
  ASSUME Over
  PROVE  w' \in Job
  BY FirstBackend DEF Over, NoJob, Job, Labels

LEMMA RaiseTyped ==
  ASSUME w \in Job, NEW error, Raise(error)
  PROVE  w' \in Job
  <1>1. "recover" \in Labels
    BY DEF Labels
  <1>2. QED
    BY <1>1, GoTyped, OverTyped DEF Raise

LEMMA SetTyped ==
  ASSUME TypeOK, NEW b \in Backends, NEW fields \in Backend
  PROVE  [be EXCEPT ![b] = fields] \in [Backends -> Backend]
  BY DEF TypeOK

\* The fields that other threads and the log reader write.
LEMMA BackendFields ==
  ASSUME NEW r \in Backend, NEW x \in BOOLEAN, NEW y \in BOOLEAN
  PROVE  /\ [r EXCEPT !.confirmed = TRUE] \in Backend
         /\ [r EXCEPT !.marked = FALSE] \in Backend
         /\ [r EXCEPT !.cancel = TRUE] \in Backend
         /\ [r EXCEPT !.loadCancel = TRUE, !.hit = @ \/ x] \in Backend
         /\ [r EXCEPT !.reader = None, !.open = FALSE,
                      !.state = IF x THEN @ ELSE "unloaded", !.confirmed = y /\ @] \in Backend
         /\ [r EXCEPT !.lost = TRUE, !.marked = TRUE, !.state = "unloaded",
                      !.confirmed = FALSE] \in Backend
  BY DEF Backend

LEMMA SidecarFields ==
  ASSUME NEW r \in Sidecar, NEW b \in Backends
  PROVE  [r EXCEPT !.phase = "starting", !.of = b] \in Sidecar
  BY DEF Sidecar

LEMMA RecoveryFields ==
  ASSUME NEW r \in Job, NEW b \in Backends
  PROVE  /\ [r EXCEPT !.at = "closing", !.then = "ensure", !.back = "job",
                      !.again = TRUE, !.mine = b] \in Job
         /\ [r EXCEPT !.at = "closing", !.then = "idle", !.error = "other"] \in Job
  <1>1. "closing" \in Labels /\ "ensure" \in Labels /\ "idle" \in Labels
    BY DEF Labels
  <1>2. [r EXCEPT !.at = "closing", !.then = "ensure", !.back = "job",
                  !.again = TRUE, !.mine = b] \in Job
    BY <1>1 DEF Job
  <1>3. [r EXCEPT !.at = "closing", !.then = "idle", !.error = "other"] \in Job
    BY <1>1 DEF Job, Errors
  <1>4. QED
    BY <1>2, <1>3

LEMMA ClosedTyped ==
  ASSUME TypeOK, NEW c \in Closers, NEW b \in Backends,
         NEW after \in {"unloaded", "lost", "kept"}, Closed(c, b, after)
  PROVE  shut' \in [Closers -> Close]
  <1>1. be[b].proc \in {None} \union Sessions
    BY DEF TypeOK, Backend
  <1>2. [at |-> "taken", of |-> b, proc |-> be[b].proc, after |-> after] \in Close
    BY <1>1 DEF Close
  <1>3. QED
    BY <1>2 DEF Closed, TypeOK

LEMMA WithoutTyped ==
  ASSUME TypeOK, NEW b \in Backends
  PROVE  Without(b) \in [Backends -> Backend]
  <1>1. [be[b] EXCEPT !.proc = None] \in Backend
    BY DEF TypeOK, Backend
  <1>2. QED
    BY <1>1, SetTyped DEF Without

LEMMA CloseMineTyped ==
  ASSUME TypeOK, NEW fields \in Backend, NEW after \in {"unloaded", "lost", "kept"},
         NEW then \in Labels, NEW error \in Errors \union {"none"},
         CloseMine(fields, after, then, error)
  PROVE  shut' \in [Closers -> Close] /\ be' \in [Backends -> Backend] /\ w' \in Job
  <1>1. w.mine \in Backends /\ "worker" \in Closers
    BY DEF TypeOK, Job, Closers
  <1>2. [fields EXCEPT !.proc = None] \in Backend
    BY DEF Backend
  <1>3. shut' \in [Closers -> Close]
    BY <1>1, ClosedTyped DEF CloseMine
  <1>4. be' \in [Backends -> Backend]
    BY <1>1, <1>2, SetTyped DEF CloseMine
  <1>5. "closing" \in Labels
    BY DEF Labels
  <1>6. w' \in Job
    BY <1>5 DEF CloseMine, TypeOK, Job
  <1>7. QED
    BY <1>3, <1>4, <1>6

\* A step of a worker that leaves everything but its own state alone.
LEMMA JobStepTyped ==
  ASSUME TypeOK, UNCHANGED wOnly, be' \in [Backends -> Backend], w' \in Job,
         shut' \in [Closers -> Close]
  PROVE  TypeOK'
  BY DEF TypeOK, wOnly, countVars

\* The steps of the native job, one after another.
LEMMA WorkerTyped ==
  ASSUME TypeOK, Worker
  PROVE  TypeOK'
  <1>0. /\ w.mine \in Backends /\ w \in Job /\ be[w.mine] \in Backend
        /\ be \in [Backends -> Backend] /\ shut \in [Closers -> Close]
        /\ current \in Backends /\ kind \in [Backends -> {"none", "cpu", "pending", "intel"}]
    BY DEF TypeOK, Job
  <1>1. CASE AfterClose
    <2>1. w.then \in Labels /\ UNCHANGED <<be, shut, wOnly>>
      BY <1>0, <1>1 DEF AfterClose, Job
    <2>2. w' \in Job
      BY <1>0, <1>1, <2>1, GoTyped, RaiseTyped DEF AfterClose
    <2>3. QED
      BY <1>0, <2>1, <2>2, JobStepTyped
  <1>2. CASE Qualify
    <2>1. kind' \in [Backends -> {"none", "cpu", "pending", "intel"}]
      BY <1>0, <1>2 DEF Qualify
    <2>2. w' \in Job
      BY <1>0, <1>2, GoTyped, OverTyped DEF Qualify, Labels
    <2>3. QED
      BY <1>2, <2>1, <2>2 DEF Qualify, TypeOK, countVars
  <1>3. CASE TakeBackend
    <2>1. w' \in Job
      <3>1. [w EXCEPT !.at = "ensure", !.mine = current] \in Job
        BY <1>0 DEF Job, Labels
      <3>2. QED
        BY <1>3, <3>1, OverTyped DEF TakeBackend
    <2>2. QED
      BY <1>0, <1>3, <2>1, JobStepTyped DEF TakeBackend
  <1>4. CASE EnsureLoaded \/ EnsureRefused
    <2>1. w' \in Job
      <3>1. w.back # "job" => w.back \in Labels
        BY <1>0 DEF Job, Labels
      <3>2. QED
        BY <1>0, <1>4, <3>1, GoTyped, OverTyped, RaiseTyped DEF EnsureLoaded, EnsureRefused, Labels
    <2>2. QED
      BY <1>0, <1>4, <2>1, JobStepTyped DEF EnsureLoaded, EnsureRefused
  <1>5. CASE EnsureReload
    BY <1>0, <1>5, CloseMineTyped, JobStepTyped DEF EnsureReload, Labels
  <1>6. CASE Prepare
    <2>1. be' \in [Backends -> Backend]
      <3> DEFINE fields == [be[w.mine] EXCEPT !.state = "loading", !.open = TRUE,
                              !.confirmed = FALSE, !.lost = FALSE, !.loadCancel = FALSE, !.hit = FALSE]
      <3>1. fields \in Backend
        BY <1>0 DEF Backend
      <3>2. be' = [be EXCEPT ![w.mine] = fields]
        BY <1>6 DEF Prepare
      <3>3. QED
        BY <1>0, <3>1, <3>2, SetTyped
    <2>2. w' \in Job
      BY <1>0, <1>6, GoTyped DEF Prepare, Labels
    <2>3. canceller' \in [of : {None} \union Backends, stale : BOOLEAN]
      BY <1>6 DEF Prepare, TypeOK
    <2>4. QED
      BY <1>6, <2>1, <2>2, <2>3 DEF Prepare, TypeOK, countVars
  <1>7. CASE Announce
    <2>1. be' \in [Backends -> Backend]
      BY <1>0, <1>7 DEF Announce, Set, Backend
    <2>2. QED
      BY <1>0, <1>7, <2>1, GoTyped, JobStepTyped DEF Announce, Labels
  <1>8. CASE Spawn
    <2>1. PICK s \in Unused :
            /\ ses' = [ses EXCEPT ![s].phase = "starting", ![s].of = w.mine]
            /\ be' = Set("proc", s)
      BY <1>8 DEF Spawn
    <2>2. s \in Sessions
      BY <2>1 DEF Unused
    <2>3. ses' \in [Sessions -> Sidecar]
      <3>1. [ses[s] EXCEPT !.phase = "starting", !.of = w.mine] \in Sidecar
        BY <1>0, <2>2, SidecarFields DEF TypeOK
      <3>2. ses' = [ses EXCEPT ![s] = [ses[s] EXCEPT !.phase = "starting", !.of = w.mine]]
        BY <2>1, <2>2 DEF TypeOK
      <3>3. QED
        BY <2>2, <3>1, <3>2 DEF TypeOK
    <2>4. be' \in [Backends -> Backend]
      BY <1>0, <2>1, <2>2 DEF Set, Backend
    <2>5. w' \in Job
      BY <1>0, <1>8, GoTyped DEF Spawn, Labels
    <2>6. QED
      BY <1>8, <2>3, <2>4, <2>5 DEF Spawn, TypeOK, countVars
  <1>9. CASE Attach
    <2>1. be[w.mine].proc \in Sessions
      BY <1>0, <1>9 DEF Attach, Backend
    <2>2. ses' \in [Sessions -> Sidecar]
      BY <1>9, <2>1 DEF Attach, TypeOK, Sidecar
    <2>3. be' \in [Backends -> Backend]
      BY <1>0, <1>9, <2>1 DEF Attach, Set, Backend
    <2>4. w' \in Job
      BY <1>0, <1>9, GoTyped DEF Attach, Labels
    <2>5. QED
      BY <1>9, <2>2, <2>3, <2>4 DEF Attach, TypeOK, countVars
  <1>10. CASE Ready
    BY <1>0, <1>10, GoTyped, JobStepTyped DEF Ready, Labels
  <1>11. CASE SetLoaded
    <2>1. be' \in [Backends -> Backend]
      BY <1>0, <1>11 DEF SetLoaded, Backend
    <2>2. QED
      BY <1>0, <1>11, <2>1, GoTyped, JobStepTyped DEF SetLoaded, Labels
  <1>12. CASE LoadStops
    <2>1. PICK cancelled \in BOOLEAN : LoadFails(cancelled)
      BY <1>12 DEF LoadStops
    <2> DEFINE fields == [be[w.mine] EXCEPT !.loading = FALSE,
                            !.state = IF cancelled \/ be[w.mine].lost THEN "unloaded" ELSE "failed"]
    <2>2. fields \in Backend
      BY <1>0 DEF Backend
    <2>3. be[w.mine].lost \in BOOLEAN /\ {"idle", "failed"} \subseteq Labels
      BY <1>0 DEF Backend, Labels
    <2>4. CloseMine(fields, IF be[w.mine].lost THEN "lost" ELSE "kept",
                    IF w.back = "job" THEN "idle" ELSE "failed",
                    IF be[w.mine].lost THEN "lost" ELSE "other")
          /\ UNCHANGED wOnly
      BY <2>1 DEF LoadFails
    <2> HIDE DEF fields
    <2>5. shut' \in [Closers -> Close] /\ be' \in [Backends -> Backend] /\ w' \in Job
      BY <2>2, <2>3, <2>4, CloseMineTyped DEF Errors
    <2>6. QED
      BY <2>4, <2>5, JobStepTyped
  <1>13. CASE Start
    <2>1. be' \in [Backends -> Backend]
      BY <1>0, <1>13 DEF Start, Set, Backend
    <2>2. w' \in Job
      BY <1>0, <1>13 DEF Start, Job, Labels
    <2>3. QED
      BY <1>0, <1>13, <2>1, <2>2, JobStepTyped DEF Start
  <1>14. CASE Activate
    <2>1. be' \in [Backends -> Backend]
      BY <1>0, <1>14 DEF Activate, Set, Backend
    <2>2. QED
      BY <1>0, <1>14, <2>1, GoTyped, JobStepTyped DEF Activate, Labels
  <1>15. CASE StreamEnds \/ Verify
    <2>1. w' \in Job
      <3>1. /\ [w EXCEPT !.at = "ensure", !.back = "verify"] \in Job
            /\ [w EXCEPT !.at = "ensure", !.back = "answer"] \in Job
        BY <1>0 DEF Job, Labels
      <3>2. QED
        BY <1>0, <1>15, <3>1, GoTyped DEF StreamEnds, Verify, Labels
    <2>2. QED
      BY <1>0, <1>15, <2>1, JobStepTyped DEF StreamEnds, Verify
  <1>16. CASE StreamCancelled \/ Answer
    <2>1. be' \in [Backends -> Backend]
      <3>1. be' = Set("generating", FALSE)
        BY <1>16 DEF StreamCancelled, Answer
      <3>2. QED
        BY <1>0, <3>1 DEF Set, Backend
    <2>2. QED
      BY <1>0, <1>16, <2>1, OverTyped, JobStepTyped DEF StreamCancelled, Answer
  <1>17. CASE GenerateFails
    <2> DEFINE fields == [be[w.mine] EXCEPT !.generating = FALSE]
    <2>1. fields \in Backend /\ Set("generating", FALSE) \in [Backends -> Backend]
      BY <1>0 DEF Backend, Set
    <2> HIDE DEF fields
    <2>2. CASE \E after \in {"lost", "unloaded"}, error \in Errors : CloseMine(fields, after, "idle", error)
      BY <1>0, <1>17, <2>1, <2>2, CloseMineTyped, JobStepTyped DEF GenerateFails, Labels
    <2>3. CASE be' = Set("generating", FALSE) /\ Raise("other") /\ UNCHANGED shut
      BY <1>0, <1>17, <2>1, <2>3, RaiseTyped, JobStepTyped DEF GenerateFails
    <2>4. QED
      BY <1>17, <2>2, <2>3 DEF GenerateFails, fields, Errors
  <1>18. CASE Recover
    <2>1. CASE Over /\ UNCHANGED <<current, kind, be, shut>>
      BY <1>18, <2>1, OverTyped DEF Recover, TypeOK, countVars
    <2>2. ASSUME NEW b \in Fresh,
                 current' = b, Closed("worker", w.mine, "unloaded"), be' = Without(w.mine),
                 \/ /\ kind' = [kind EXCEPT ![b] = "intel"]
                    /\ w' = [w EXCEPT !.at = "closing", !.then = "ensure", !.back = "job",
                               !.again = TRUE, !.mine = b]
                 \/ /\ kind' = [kind EXCEPT ![b] = "pending"]
                    /\ w' = [w EXCEPT !.at = "closing", !.then = "idle", !.error = "other"]
          PROVE  TypeOK'
      <3>1. b \in Backends /\ "worker" \in Closers
        BY <2>2 DEF Fresh, Closers
      <3>2. w' \in Job
        <4>1. /\ [w EXCEPT !.at = "closing", !.then = "ensure", !.back = "job",
                           !.again = TRUE, !.mine = b] \in Job
              /\ [w EXCEPT !.at = "closing", !.then = "idle", !.error = "other"] \in Job
          BY <1>0, <3>1, RecoveryFields
        <4>2. QED
          BY <2>2, <4>1
      <3>3. kind' \in [Backends -> {"none", "cpu", "pending", "intel"}]
        BY <1>0, <2>2
      <3>4. shut' \in [Closers -> Close] /\ be' \in [Backends -> Backend]
        BY <1>0, <2>2, <3>1, ClosedTyped, WithoutTyped
      <3>5. QED
        BY <1>18, <2>2, <3>1, <3>2, <3>3, <3>4 DEF Recover, TypeOK, countVars
    <2>3. QED
      BY <1>18, <2>1, <2>2 DEF Recover
  <1>19. QED
    BY <1>1, <1>2, <1>3, <1>4, <1>5, <1>6, <1>7, <1>8, <1>9, <1>10, <1>11, <1>12, <1>13, <1>14,
       <1>15, <1>16, <1>17, <1>18 DEF Worker

(***************************************************************************)
(* The other steps keep the types.                                         *)
(***************************************************************************)
LEMMA CloserTyped ==
  ASSUME TypeOK, NEW c \in Closers, Kill(c) \/ Joined(c)
  PROVE  TypeOK'
  <1>0. shut[c] \in Close /\ shut \in [Closers -> Close]
    BY DEF TypeOK
  <1>1. CASE Kill(c)
    <2>1. [shut[c] EXCEPT !.at = "killed"] \in Close
      BY <1>0 DEF Close
    <2>2. shut' \in [Closers -> Close]
      BY <1>0, <1>1, <2>1 DEF Kill
    <2>3. \A s \in Sessions : [ses[s] EXCEPT !.phase = "dead"] \in Sidecar
      BY DEF TypeOK, Sidecar
    <2>4. ses' \in [Sessions -> Sidecar]
      BY <1>1, <2>3 DEF Kill, TypeOK
    <2>5. QED
      BY <1>1, <2>2, <2>4 DEF Kill, TypeOK, countVars
  <1>2. CASE Joined(c)
    <2> DEFINE b == shut[c].of
               fields == [be[b] EXCEPT !.reader = None, !.open = FALSE,
                            !.state = IF shut[c].after = "kept" THEN @ ELSE "unloaded",
                            !.confirmed = shut[c].after # "lost" /\ @]
    <2>1. b \in Backends
      BY <1>0 DEF Close
    <2>2. fields \in Backend
      BY <2>1, BackendFields DEF TypeOK
    <2>3. be' = [be EXCEPT ![b] = fields]
      BY <1>2, <2>1 DEF Joined, TypeOK
    <2>4. be' \in [Backends -> Backend]
      BY <2>1, <2>2, <2>3, SetTyped
    <2>5. [shut[c] EXCEPT !.at = "idle", !.proc = None] \in Close
      BY <1>0 DEF Close
    <2>6. shut' = [shut EXCEPT ![c] = [shut[c] EXCEPT !.at = "idle", !.proc = None]]
      BY <1>0, <1>2 DEF Joined
    <2>7. shut' \in [Closers -> Close]
      BY <1>0, <2>5, <2>6
    <2>8. stop' \in {"no", "closing", "closed"}
      BY <1>2 DEF Joined, TypeOK
    <2>9. QED
      BY <1>2, <2>4, <2>7, <2>8 DEF Joined, TypeOK, countVars
  <1>3. QED
    BY <1>1, <1>2

LEMMA RecordTyped ==
  ASSUME TypeOK, NEW b \in Backends, Record(b)
  PROVE  be' \in [Backends -> Backend] /\ w' \in Job
  <1> DEFINE fields == [be[b] EXCEPT !.lost = TRUE, !.marked = TRUE, !.state = "unloaded",
                          !.confirmed = FALSE]
  <1>1. fields \in Backend
    BY BackendFields DEF TypeOK
  <1>2. be' = [be EXCEPT ![b] = fields]
    BY DEF Record, TypeOK
  <1>3. be' \in [Backends -> Backend]
    BY <1>1, <1>2, SetTyped
  <1>4. w' \in Job
    BY DEF Record, TypeOK, Job
  <1>5. QED
    BY <1>3, <1>4

LEMMA SidecarTyped ==
  ASSUME TypeOK, NEW s \in Sessions,
         Native(s) \/ ReadProof(s) \/ ReadLoss(s) \/ ReadLine(s) \/ ReadEnd(s)
  PROVE  TypeOK'
  <1>0. ses[s] \in Sidecar /\ ses[s].of \in Backends /\ ses \in [Sessions -> Sidecar]
    BY DEF TypeOK, Sidecar
  <1>1. CASE Native(s)
    <2>1. /\ \A p \in {"dead", "ready"} : [ses[s] EXCEPT !.phase = p] \in Sidecar
          /\ [ses[s] EXCEPT !.phase = "offloaded", !.log = {"proof"}] \in Sidecar
          /\ [ses[s] EXCEPT !.phase = "broken", !.log = @ \union {"loss"}] \in Sidecar
      BY <1>0 DEF Sidecar
    <2>2. ses' \in [Sessions -> Sidecar]
      <3>1. \/ ses' = [ses EXCEPT ![s] = [ses[s] EXCEPT !.phase = "offloaded", !.log = {"proof"}]]
            \/ ses' = [ses EXCEPT ![s] = [ses[s] EXCEPT !.phase = "ready"]]
            \/ ses' = [ses EXCEPT ![s] = [ses[s] EXCEPT !.phase = "broken", !.log = @ \union {"loss"}]]
            \/ ses' = [ses EXCEPT ![s] = [ses[s] EXCEPT !.phase = "dead"]]
        BY <1>0, <1>1 DEF Native
      <3>2. QED
        BY <1>0, <2>1, <3>1
    <2>3. QED
      BY <1>1, <2>2 DEF Native, sesOnly, TypeOK, countVars
  <1>2. CASE ReadProof(s)
    <2>1. ses' \in [Sessions -> Sidecar]
      BY <1>0, <1>2 DEF ReadProof, Sidecar
    <2>2. [be[ses[s].of] EXCEPT !.confirmed = TRUE] \in Backend
      BY <1>0, BackendFields DEF TypeOK
    <2>3. be' \in [Backends -> Backend]
      BY <1>0, <1>2, <2>2, SetTyped DEF ReadProof
    <2>4. QED
      BY <1>2, <2>1, <2>3 DEF ReadProof, sesOnly, TypeOK, countVars
  <1>3. CASE ReadLoss(s)
    <2>1. ses' \in [Sessions -> Sidecar]
      BY <1>0, <1>3 DEF ReadLoss, Sidecar
    <2>2. be' \in [Backends -> Backend] /\ w' \in Job
      BY <1>0, <1>3, RecordTyped DEF ReadLoss, TypeOK
    <2>3. QED
      BY <1>3, <2>1, <2>2 DEF ReadLoss, readOnly, TypeOK, countVars
  <1>4. CASE ReadLine(s)
    <2>1. [be[ses[s].of] EXCEPT !.marked = FALSE] \in Backend
      BY <1>0, BackendFields DEF TypeOK
    <2>2. be' \in [Backends -> Backend] /\ w' \in Job
      BY <1>0, <1>4, <2>1, RecordTyped, SetTyped DEF ReadLine, TypeOK
    <2>3. QED
      BY <1>4, <2>2 DEF ReadLine, readOnly, TypeOK, countVars
  <1>5. CASE ReadEnd(s)
    <2>1. ses' \in [Sessions -> Sidecar]
      BY <1>0, <1>5 DEF ReadEnd, Sidecar
    <2>2. QED
      BY <1>5, <2>1 DEF ReadEnd, sesOnly, TypeOK, countVars
  <1>6. QED
    BY <1>1, <1>2, <1>3, <1>4, <1>5

LEMMA OthersTyped ==
  ASSUME TypeOK,
         Begin \/ Retry \/ LookForCancel \/ SetLoadCancel \/ MakeReplacement
           \/ CommitReplacement \/ StopClient
  PROVE  TypeOK'
  <1>0. current \in Backends /\ w \in Job /\ be \in [Backends -> Backend]
    BY DEF TypeOK
  <1>1. CASE Begin
    <2>1. w' \in Job
      BY <1>0, <1>1 DEF Begin, Job, Labels
    <2>2. requests' \in 0..MaxRequests
      BY <1>1, SidecarAssumption DEF SidecarAssumption, Begin, TypeOK
    <2>3. QED
      BY <1>1, <2>1, <2>2 DEF Begin, TypeOK
  <1>2. CASE Retry
    <2>1. shut' \in [Closers -> Close] /\ be' \in [Backends -> Backend]
      BY <1>0, <1>2, ClosedTyped, WithoutTyped DEF Retry, Closers
    <2>2. QED
      BY <1>2, <2>1, ActTyped DEF Retry, TypeOK
  <1>3. CASE LookForCancel
    <2>1. [be[current] EXCEPT !.cancel = TRUE] \in Backend
      BY <1>0 DEF Backend
    <2>2. be' \in [Backends -> Backend]
      <3>1. be' = be \/ be' = [be EXCEPT ![current] = [be[current] EXCEPT !.cancel = TRUE]]
        BY <1>0, <1>3 DEF LookForCancel
      <3>2. QED
        BY <1>0, <2>1, <3>1, SetTyped
    <2>3. canceller' \in [of : {None} \union Backends, stale : BOOLEAN]
      <3>1. canceller' = canceller \/ canceller' = [of |-> current, stale |-> FALSE]
        BY <1>3, Zenon DEF LookForCancel
      <3>2. [of |-> current, stale |-> FALSE] \in [of : {None} \union Backends, stale : BOOLEAN]
        BY <1>0
      <3>3. canceller \in [of : {None} \union Backends, stale : BOOLEAN]
        BY DEF TypeOK
      <3>4. QED
        BY <3>1, <3>2, <3>3
    <2>4. QED
      BY <1>3, <2>2, <2>3, ActTyped DEF LookForCancel, TypeOK
  <1>4. CASE SetLoadCancel
    <2> DEFINE b == canceller.of
               fields == [be[b] EXCEPT !.loadCancel = TRUE,
                            !.hit = @ \/ (be[b].loading /\ ~canceller.stale)]
    <2>1. b \in Backends
      BY <1>4 DEF SetLoadCancel, TypeOK
    <2>2. fields \in Backend
      <3>1. be[b] \in Backend
        BY <1>0, <2>1
      <3>2. (be[b].loading /\ ~canceller.stale) \in BOOLEAN
        OBVIOUS
      <3>3. QED
        BY <3>1, <3>2, BackendFields
    <2>3. be' = [be EXCEPT ![b] = fields]
      BY <1>0, <1>4, <2>1 DEF SetLoadCancel
    <2>4. be' \in [Backends -> Backend]
      BY <2>1, <2>2, <2>3, SetTyped
    <2>5. canceller' \in [of : {None} \union Backends, stale : BOOLEAN]
      BY <1>4 DEF SetLoadCancel
    <2>6. QED
      BY <1>4, <2>4, <2>5 DEF SetLoadCancel, TypeOK, countVars
  <1>5. CASE MakeReplacement
    <2>1. kind' \in [Backends -> {"none", "cpu", "pending", "intel"}] /\ swap' \in Backends
      BY <1>5 DEF MakeReplacement, TypeOK, Made, Fresh
    <2>2. QED
      BY <1>5, <2>1, ActTyped DEF MakeReplacement, TypeOK
  <1>6. CASE CommitReplacement
    <2>1. shut' \in [Closers -> Close] /\ be' \in [Backends -> Backend]
      BY <1>0, <1>6, ClosedTyped, WithoutTyped DEF CommitReplacement, Closers
    <2>2. current' \in Backends /\ swap' \in {None}
      BY <1>6 DEF CommitReplacement, TypeOK
    <2>3. QED
      BY <1>6, <2>1, <2>2 DEF CommitReplacement, TypeOK, countVars
  <1>7. CASE StopClient
    <2>1. shut' \in [Closers -> Close] /\ be' \in [Backends -> Backend]
      BY <1>0, <1>7, ClosedTyped, WithoutTyped DEF StopClient, Closers
    <2>2. QED
      BY <1>7, <2>1, ActTyped DEF StopClient, TypeOK
  <1>8. QED
    BY <1>1, <1>2, <1>3, <1>4, <1>5, <1>6, <1>7

LEMMA InitTyped == Init => TypeOK
  <1> SUFFICES ASSUME Init PROVE TypeOK
    OBVIOUS
  <1>1. kind \in [Backends -> {"none", "cpu", "pending", "intel"}]
    BY DEF Init, Made
  <1>2. be \in [Backends -> Backend]
    BY DEF Init, Backend
  <1>3. ses \in [Sessions -> Sidecar]
    BY FirstBackend DEF Init, Sidecar
  <1>4. w \in Job
    BY FirstBackend DEF Init, NoJob, Job, Labels
  <1>5. shut \in [Closers -> Close]
    <2>1. [at |-> "idle", of |-> 1, proc |-> None, after |-> "kept"] \in Close
      BY FirstBackend DEF Close
    <2>2. QED
      BY <2>1 DEF Init
  <1>6. requests \in 0..MaxRequests /\ acts \in 0..MaxActs
    BY SidecarAssumption DEF Init, SidecarAssumption
  <1>7. /\ current \in Backends /\ swap \in {None} \union Backends /\ stop \in {"no", "closing", "closed"}
        /\ canceller \in [of : {None} \union Backends, stale : BOOLEAN]
    BY FirstBackend DEF Init
  <1>8. QED
    BY <1>1, <1>2, <1>3, <1>4, <1>5, <1>6, <1>7 DEF TypeOK

\* Every variable of the sidecar's runtime keeps its type.
THEOREM TypesHold == Spec => []TypeOK
  <1>1. TypeOK /\ [Next]_vars => TypeOK'
    <2> SUFFICES ASSUME TypeOK, [Next]_vars PROVE TypeOK'
      OBVIOUS
    <2>1. CASE UNCHANGED vars
      BY <2>1 DEF vars, TypeOK
    <2>2. QED
      BY <2>1, WorkerTyped, CloserTyped, SidecarTyped, OthersTyped DEF Next
  <1>2. QED
    BY <1>1, InitTyped, PTL DEF Spec

(***************************************************************************)
(* Ownership.  A close() takes the process out of its backend, so a thread *)
(* must not begin one while it holds a process of an earlier one           *)
(* (ClosesInTurn), and the job must not spawn over a process that its      *)
(* backend still names (Emptied).                                          *)
(***************************************************************************)
ClosesInTurn ==
  /\ w.at # "closing" => shut["worker"].at = "idle"
  /\ swap # None => shut["swap"].at = "idle"
  /\ stop = "no" => shut["stop"].at = "idle"

Spawning == w.at \in {"prepare", "announce", "spawn"} \/ (w.at = "closing" /\ w.then = "prepare")

Emptied ==
  /\ w.then \in {"idle", "prepare", "failed", "ensure"}
  /\ Spawning => be[w.mine].proc = None

\* A sidecar that runs is the process of its backend or has been taken by a close().
NamedOrTaken ==
  \A s \in Sessions : Alive(s) =>
    \/ be[ses[s].of].proc = s
    \/ \E c \in Closers : shut[c].at = "taken" /\ shut[c].proc = s

OwnInv == TypeOK /\ NamedOrTaken /\ ClosesInTurn /\ Emptied

\* The processes as a step leaves them: none is new, none has changed hands.
SameHands ==
  /\ \A b \in Backends : be'[b].proc = be[b].proc
  /\ \A s \in Sessions : Alive(s)' => Alive(s) /\ ses'[s].of = ses[s].of

\* A close() keeps the process it has taken until it has killed it.
TakenStays ==
  \A c \in Closers, s \in Sessions :
    Alive(s)' /\ shut[c].at = "taken" /\ shut[c].proc = s
      => shut'[c].at = "taken" /\ shut'[c].proc = s

\* What every step but a spawn does to the processes: a backend keeps its own or
\* gives it up.
HandsPassed ==
  /\ \A s \in Sessions : Alive(s)' => Alive(s) /\ ses'[s].of = ses[s].of
  /\ \A b \in Backends : be'[b].proc = None \/ be'[b].proc = be[b].proc
  /\ TakenStays

LEMMA HandsOwned ==
  ASSUME TypeOK, NamedOrTaken, SameHands, TakenStays
  PROVE  NamedOrTaken' /\ HandsPassed
  <1>1. HandsPassed
    BY DEF SameHands, HandsPassed
  <1>2. ASSUME NEW s \in Sessions, Alive(s)'
        PROVE  \/ be'[ses'[s].of].proc = s
               \/ \E c \in Closers : shut'[c].at = "taken" /\ shut'[c].proc = s
    <2>1. Alive(s) /\ ses'[s].of = ses[s].of /\ ses[s].of \in Backends
      BY <1>2 DEF SameHands, TypeOK, Sidecar
    <2>2. be'[ses[s].of].proc = be[ses[s].of].proc
      BY <2>1 DEF SameHands
    <2>3. \/ be[ses[s].of].proc = s
          \/ \E c \in Closers : shut[c].at = "taken" /\ shut[c].proc = s
      BY <2>1 DEF NamedOrTaken
    <2>4. QED
      BY <1>2, <2>1, <2>2, <2>3 DEF TakenStays
  <1>3. QED
    BY <1>1, <1>2 DEF NamedOrTaken

\* Assigning a field that is not proc takes no process away.
LEMMA FieldKeepsProc ==
  ASSUME TypeOK, NEW m \in Backends, NEW r, r.proc = be[m].proc, be' = [be EXCEPT ![m] = r]
  PROVE  \A b \in Backends : be'[b].proc = be[b].proc
  BY DEF TypeOK

\* A close() passes the process from the backend to the thread that closes it.
LEMMA CloseOwned ==
  ASSUME TypeOK, NamedOrTaken, NEW c \in Closers, NEW b \in Backends, NEW after,
         Closed(c, b, after), shut[c].at # "taken", UNCHANGED ses,
         NEW fields, fields.proc = None, be' = [be EXCEPT ![b] = fields]
  PROVE  NamedOrTaken' /\ HandsPassed
  <1>1. \A s \in Sessions : Alive(s)' => Alive(s) /\ ses'[s].of = ses[s].of /\ ses[s].of \in Backends
    BY DEF Alive, TypeOK, Sidecar
  <1>2. shut'[c].at = "taken" /\ shut'[c].proc = be[b].proc
    BY DEF Closed, TypeOK
  <1>3. \A d \in Closers \ {c} : shut'[d] = shut[d]
    BY DEF Closed, TypeOK
  <1>4. \A x \in Backends : be'[x].proc = IF x = b THEN None ELSE be[x].proc
    BY DEF TypeOK
  <1>5. TakenStays
    BY <1>3 DEF TakenStays
  <1>6. HandsPassed
    BY <1>1, <1>4, <1>5 DEF HandsPassed
  <1>7. ASSUME NEW s \in Sessions, Alive(s)'
        PROVE  \/ be'[ses'[s].of].proc = s
               \/ \E d \in Closers : shut'[d].at = "taken" /\ shut'[d].proc = s
    <2>1. Alive(s) /\ ses'[s].of = ses[s].of /\ ses[s].of \in Backends
      BY <1>1, <1>7
    <2>2. CASE be[ses[s].of].proc = s
      BY <1>2, <1>4, <2>1, <2>2
    <2>3. CASE \E d \in Closers : shut[d].at = "taken" /\ shut[d].proc = s
      BY <1>5, <1>7, <2>3 DEF TakenStays
    <2>4. QED
      BY <2>1, <2>2, <2>3 DEF NamedOrTaken
  <1>8. QED
    BY <1>6, <1>7 DEF NamedOrTaken

LEMMA GoFields ==
  ASSUME w \in Job, NEW label, Go(label)
  PROVE  w'.at = label /\ w'.mine = w.mine /\ w'.then = w.then
  BY DEF Go, Job

LEMMA OverFields ==
  ASSUME Over
  PROVE  w'.at = "idle" /\ w'.then = "idle"
  BY DEF Over, NoJob

LEMMA RaiseFields ==
  ASSUME w \in Job, NEW error, Raise(error), w.then \in {"idle", "prepare", "failed", "ensure"}
  PROVE  w'.at \in {"recover", "idle"} /\ w'.then \in {"idle", "prepare", "failed", "ensure"}
  BY GoFields, OverFields DEF Raise

\* A step of the job that closes nothing and spawns nothing.
LEMMA JobStepOwned ==
  ASSUME OwnInv, UNCHANGED <<ses, shut, swap, stop>>, w.at # "closing" \/ shut["worker"].at = "idle",
         \A b \in Backends : be'[b].proc = be[b].proc,
         w'.then \in {"idle", "prepare", "failed", "ensure"},
         Spawning' => Spawning /\ w'.mine = w.mine
  PROVE  NamedOrTaken' /\ HandsPassed /\ ClosesInTurn' /\ Emptied'
  <1>1. SameHands
    BY DEF SameHands, Alive
  <1>2. NamedOrTaken' /\ HandsPassed
    BY <1>1, HandsOwned DEF OwnInv, TakenStays
  <1>3. ClosesInTurn'
    BY DEF OwnInv, ClosesInTurn
  <1>4. w.mine \in Backends
    BY DEF OwnInv, TypeOK, Job
  <1>5. Emptied'
    BY <1>4 DEF OwnInv, Emptied
  <1>6. QED
    BY <1>2, <1>3, <1>5

LEMMA CloseMineOwned ==
  ASSUME OwnInv, NEW fields \in Backend, NEW after, NEW then \in {"idle", "prepare", "failed"},
         NEW error, CloseMine(fields, after, then, error), w.at # "closing", UNCHANGED wOnly
  PROVE  NamedOrTaken' /\ HandsPassed /\ ClosesInTurn' /\ Emptied'
  <1> DEFINE emptied == [fields EXCEPT !.proc = None]
  <1>1. w.mine \in Backends /\ "worker" \in Closers /\ shut["worker"].at = "idle"
    BY DEF OwnInv, TypeOK, Job, Closers, ClosesInTurn
  <1>2. emptied.proc = None
    BY DEF Backend
  <1>3. Closed("worker", w.mine, after) /\ be' = [be EXCEPT ![w.mine] = emptied]
        /\ UNCHANGED <<ses, swap, stop>>
    BY DEF CloseMine, wOnly
  <1> HIDE DEF emptied
  <1>4. NamedOrTaken' /\ HandsPassed
    BY <1>1, <1>2, <1>3, CloseOwned DEF OwnInv
  <1>5. w'.at = "closing" /\ w'.then = then /\ w'.mine = w.mine
    BY DEF CloseMine, OwnInv, TypeOK, Job
  <1>6. \A d \in Closers \ {"worker"} : shut'[d] = shut[d]
    BY <1>3 DEF Closed, OwnInv, TypeOK
  <1>7. ClosesInTurn'
    BY <1>3, <1>5, <1>6 DEF OwnInv, ClosesInTurn, Closers
  <1>8. be'[w.mine].proc = None
    BY <1>1, <1>2, <1>3 DEF OwnInv, TypeOK
  <1>9. Emptied'
    BY <1>5, <1>8 DEF Emptied
  <1>10. QED
    BY <1>4, <1>7, <1>9

LEMMA WorkerOwned ==
  ASSUME OwnInv, Worker
  PROVE  NamedOrTaken' /\ (Spawn \/ HandsPassed) /\ ClosesInTurn' /\ Emptied'
  <1>0. /\ TypeOK /\ w \in Job /\ w.mine \in Backends /\ be[w.mine] \in Backend
        /\ be \in [Backends -> Backend]
        /\ w.then \in {"idle", "prepare", "failed", "ensure"}
    BY DEF OwnInv, TypeOK, Job, Emptied
  <1>1. CASE AfterClose
    <2>1. shut["worker"].at = "idle" /\ UNCHANGED <<be, ses, shut, swap, stop>>
      BY <1>1 DEF AfterClose, wOnly
    <2>2. CASE w.then = "idle" /\ Raise(w.error)
      <3>1. w'.at \in {"recover", "idle"} /\ w'.then \in {"idle", "prepare", "failed", "ensure"}
        BY <1>0, <2>2, RaiseFields
      <3>2. QED
        BY <2>1, <3>1, JobStepOwned DEF Spawning
    <2>3. CASE Go(w.then)
      <3>1. w'.at = w.then /\ w'.mine = w.mine /\ w'.then = w.then
        BY <1>0, <2>3, GoFields
      <3>2. Spawning' => Spawning
        BY <1>0, <1>1, <3>1 DEF AfterClose, Spawning
      <3>3. QED
        BY <1>0, <2>1, <3>1, <3>2, JobStepOwned
    <2>4. QED
      BY <1>1, <2>2, <2>3 DEF AfterClose
  <1>2. CASE Qualify \/ TakeBackend \/ EnsureLoaded \/ EnsureRefused \/ Ready \/ StreamEnds \/ Verify
    <2>1. /\ UNCHANGED <<be, ses, shut, swap, stop>>
          /\ w.at \in {"qualify", "take", "ensure", "poll", "stream", "verify"}
      BY <1>2 DEF Qualify, TakeBackend, EnsureLoaded, EnsureRefused, Ready, StreamEnds, Verify, wOnly
    <2>2. w.back # "job" => w.back \in {"verify", "answer"}
      BY <1>0 DEF Job
    <2>3. /\ w'.at \in {"take", "idle", "ensure", "verify", "answer", "start", "recover", "failed",
                        "proven"}
          /\ w'.then \in {"idle", "prepare", "failed", "ensure"}
      <3>1. ASSUME NEW l \in {"take", "verify", "answer", "start", "failed", "proven"}, Go(l)
            PROVE  w'.at = l /\ w'.then = w.then
        BY <1>0, <3>1, GoFields
      <3>2. CASE Qualify \/ Ready
        BY <1>0, <3>1, <3>2, OverFields DEF Qualify, Ready
      <3>3. CASE TakeBackend
        <4>1. [w EXCEPT !.at = "ensure", !.mine = current].at = "ensure"
              /\ [w EXCEPT !.at = "ensure", !.mine = current].then = w.then
          BY <1>0 DEF Job
        <4>2. QED
          BY <1>0, <3>3, <4>1, OverFields DEF TakeBackend
      <3>4. CASE EnsureLoaded \/ EnsureRefused
        BY <1>0, <2>2, <3>1, <3>4, OverFields, RaiseFields DEF EnsureLoaded, EnsureRefused
      <3>5. CASE StreamEnds \/ Verify
        <4>1. \A x \in {"verify", "answer"} : /\ [w EXCEPT !.at = "ensure", !.back = x].at = "ensure"
                                             /\ [w EXCEPT !.at = "ensure", !.back = x].then = w.then
          BY <1>0 DEF Job
        <4>2. QED
          BY <1>0, <3>1, <3>5, <4>1 DEF StreamEnds, Verify
      <3>6. QED
        BY <1>2, <3>2, <3>3, <3>4, <3>5
    <2>4. QED
      BY <2>1, <2>3, JobStepOwned DEF Spawning
  <1>3. CASE Prepare \/ Announce
    <2>1. /\ UNCHANGED <<ses, shut, swap, stop>> /\ w.at \in {"prepare", "announce"}
          /\ \E l \in {"announce", "spawn"} : Go(l)
      BY <1>3 DEF Prepare, Announce, wOnly
    <2>2. w'.at \in {"announce", "spawn"} /\ w'.mine = w.mine /\ w'.then = w.then
      BY <1>0, <2>1, GoFields
    <2>3. \A b \in Backends : be'[b].proc = be[b].proc
      <3> DEFINE r == [be[w.mine] EXCEPT !.state = "loading", !.open = TRUE, !.confirmed = FALSE,
                         !.lost = FALSE, !.loadCancel = FALSE, !.hit = FALSE]
                 q == [be[w.mine] EXCEPT !.loading = TRUE]
      <3>1. r.proc = be[w.mine].proc /\ q.proc = be[w.mine].proc
        BY <1>0 DEF Backend
      <3>2. be' = [be EXCEPT ![w.mine] = r] \/ be' = [be EXCEPT ![w.mine] = q]
        BY <1>0, <1>3 DEF Prepare, Announce, Set
      <3> HIDE DEF r, q
      <3>3. QED
        BY <1>0, <3>1, <3>2, FieldKeepsProc
    <2>4. QED
      BY <1>0, <2>1, <2>2, <2>3, JobStepOwned DEF Spawning
  <1>4. CASE SetLoaded \/ Start \/ Activate \/ StreamCancelled \/ Answer
    <2>1. /\ UNCHANGED <<ses, shut, swap, stop>>
          /\ w.at \in {"proven", "start", "activate", "stream", "answer"}
      BY <1>4 DEF SetLoaded, Start, Activate, StreamCancelled, Answer, wOnly
    <2>2. \A b \in Backends : be'[b].proc = be[b].proc
      <3> DEFINE q1 == [be[w.mine] EXCEPT !.state = "loaded", !.loading = FALSE]
                 q2 == [be[w.mine] EXCEPT !.cancel = FALSE]
                 q3 == [be[w.mine] EXCEPT !.generating = TRUE]
                 q4 == [be[w.mine] EXCEPT !.generating = FALSE]
      <3>1. /\ q1.proc = be[w.mine].proc /\ q2.proc = be[w.mine].proc
            /\ q3.proc = be[w.mine].proc /\ q4.proc = be[w.mine].proc
        BY <1>0 DEF Backend
      <3>2. \E q \in {q1, q2, q3, q4} : be' = [be EXCEPT ![w.mine] = q]
        BY <1>0, <1>4 DEF SetLoaded, Start, Activate, StreamCancelled, Answer, Set
      <3> HIDE DEF q1, q2, q3, q4
      <3>3. QED
        BY <1>0, <3>1, <3>2, FieldKeepsProc
    <2>3. /\ w'.at \in {"ensure", "activate", "stream", "failed", "idle"}
          /\ w'.then \in {"idle", "prepare", "failed", "ensure"}
      <3>1. CASE \E l \in {"ensure", "stream", "failed"} : Go(l)
        BY <1>0, <3>1, GoFields
      <3>2. CASE Start
        BY <1>0, <3>2 DEF Start, Job
      <3>3. CASE Over
        BY <3>3, OverFields
      <3>4. QED
        BY <1>4, <3>1, <3>2, <3>3 DEF SetLoaded, Activate, StreamCancelled, Answer
    <2>4. QED
      BY <2>1, <2>2, <2>3, JobStepOwned DEF Spawning
  <1>5. CASE EnsureReload
    BY <1>0, <1>5, CloseMineOwned DEF EnsureReload
  <1>6. CASE LoadStops
    <2>1. PICK cancelled \in BOOLEAN : LoadFails(cancelled)
      BY <1>6 DEF LoadStops
    <2> DEFINE fields == [be[w.mine] EXCEPT !.loading = FALSE,
                            !.state = IF cancelled \/ be[w.mine].lost THEN "unloaded" ELSE "failed"]
    <2>2. fields \in Backend
      BY <1>0 DEF Backend
    <2>3. CloseMine(fields, IF be[w.mine].lost THEN "lost" ELSE "kept",
                    IF w.back = "job" THEN "idle" ELSE "failed",
                    IF be[w.mine].lost THEN "lost" ELSE "other")
          /\ UNCHANGED wOnly
      BY <2>1 DEF LoadFails
    <2>4. w.at # "closing"
      BY <1>6 DEF LoadStops
    <2> HIDE DEF fields
    <2>5. QED
      BY <2>2, <2>3, <2>4, CloseMineOwned
  <1>7. CASE GenerateFails
    <2> DEFINE fields == [be[w.mine] EXCEPT !.generating = FALSE]
    <2>1. fields \in Backend /\ fields.proc = be[w.mine].proc
      BY <1>0 DEF Backend
    <2>2. w.at = "failed" /\ UNCHANGED wOnly
      BY <1>7 DEF GenerateFails
    <2>3. CASE be' = Set("generating", FALSE) /\ Raise("other") /\ UNCHANGED shut
      <3>1. be' = [be EXCEPT ![w.mine] = fields]
        BY <1>0, <2>3 DEF Set
      <3>2. \A b \in Backends : be'[b].proc = be[b].proc
        BY <1>0, <2>1, <3>1, FieldKeepsProc
      <3>3. w'.at \in {"recover", "idle"} /\ w'.then \in {"idle", "prepare", "failed", "ensure"}
        BY <1>0, <2>3, RaiseFields
      <3>4. QED
        BY <2>2, <2>3, <3>2, <3>3, JobStepOwned DEF Spawning, wOnly
    <2> HIDE DEF fields
    <2>4. CASE \E after \in {"lost", "unloaded"}, error \in Errors : CloseMine(fields, after, "idle", error)
      BY <2>1, <2>2, <2>4, CloseMineOwned
    <2>5. QED
      BY <1>7, <2>3, <2>4 DEF GenerateFails, fields, Errors
  <1>8. CASE Spawn
    <2>1. PICK s \in Unused :
            /\ ses' = [ses EXCEPT ![s].phase = "starting", ![s].of = w.mine]
            /\ be' = Set("proc", s)
      BY <1>8 DEF Spawn
    <2>2. s \in Sessions /\ ~Alive(s)
      BY <2>1 DEF Unused, Alive
    <2>3. /\ w.at = "spawn" /\ be[w.mine].proc = None /\ UNCHANGED <<shut, swap, stop>>
          /\ Go("attach")
      BY <1>8 DEF Spawn, OwnInv, Emptied, Spawning
    <2>4. ses' = [ses EXCEPT ![s] = [ses[s] EXCEPT !.phase = "starting", !.of = w.mine]]
      BY <1>0, <2>1, <2>2 DEF TypeOK
    <2>5. ses'[s].of = w.mine
      BY <1>0, <2>2, <2>4 DEF TypeOK, Sidecar
    <2>6. be' = [be EXCEPT ![w.mine] = [be[w.mine] EXCEPT !.proc = s]]
      BY <1>0, <2>1 DEF Set
    <2>7. be'[w.mine].proc = s
      BY <1>0, <2>6 DEF Backend
    <2>8. NamedOrTaken'
      <3> SUFFICES ASSUME NEW t \in Sessions, Alive(t)'
                   PROVE  \/ be'[ses'[t].of].proc = t
                          \/ \E c \in Closers : shut'[c].at = "taken" /\ shut'[c].proc = t
        BY DEF NamedOrTaken
      <3>1. CASE t = s
        BY <2>5, <2>7, <3>1
      <3>2. CASE t # s
        <4>1. ses'[t] = ses[t]
          BY <2>2, <2>4, <3>2 DEF TypeOK
        <4>2. Alive(t) /\ ses[t].of \in Backends /\ t # None
          BY <1>0, <4>1 DEF Alive, TypeOK, Sidecar
        <4>3. be[ses[t].of].proc = t => be'[ses[t].of] = be[ses[t].of]
          BY <1>0, <2>3, <2>6, <4>2
        <4>4. \/ be[ses[t].of].proc = t
              \/ \E c \in Closers : shut[c].at = "taken" /\ shut[c].proc = t
          BY <4>2 DEF OwnInv, NamedOrTaken
        <4>5. QED
          BY <2>3, <4>1, <4>3, <4>4
      <3>3. QED
        BY <3>1, <3>2
    <2>9. w'.at = "attach" /\ w'.then = w.then
      BY <1>0, <2>3, GoFields
    <2>10. ClosesInTurn' /\ Emptied'
      BY <1>0, <2>3, <2>9 DEF OwnInv, ClosesInTurn, Emptied, Spawning
    <2>11. QED
      BY <1>8, <2>8, <2>10
  <1>9. CASE Attach
    <2> DEFINE p == be[w.mine].proc
    <2>1. p \in Sessions /\ UNCHANGED <<shut, swap, stop>> /\ w.at = "attach"
      BY <1>0, <1>9 DEF Attach, Backend
    <2>2. ses' = [ses EXCEPT ![p] = [ses[p] EXCEPT !.reader = "on"]]
      BY <1>9 DEF Attach
    <2>3. be' = [be EXCEPT ![w.mine] = [be[w.mine] EXCEPT !.reader = p]]
      BY <1>9 DEF Attach, Set
    <2>4. [be[w.mine] EXCEPT !.reader = p].proc = be[w.mine].proc
      BY <1>0 DEF Backend
    <2>5. \A b \in Backends : be'[b].proc = be[b].proc
      BY <1>0, <2>3, <2>4, FieldKeepsProc
    <2> HIDE DEF p
    <2>6. \A s \in Sessions : ses'[s].phase = ses[s].phase /\ ses'[s].of = ses[s].of
      BY <1>0, <2>1, <2>2 DEF TypeOK, Sidecar
    <2>7. SameHands
      BY <2>5, <2>6 DEF SameHands, Alive
    <2>8. NamedOrTaken' /\ HandsPassed
      BY <2>1, <2>7, HandsOwned DEF OwnInv, TakenStays
    <2>9. w'.at = "poll" /\ w'.then = w.then
      BY <1>0, <1>9, GoFields DEF Attach
    <2>10. ClosesInTurn' /\ Emptied'
      BY <1>0, <2>1, <2>9 DEF OwnInv, ClosesInTurn, Emptied, Spawning
    <2>11. QED
      BY <2>8, <2>10
  <1>10. CASE Recover
    <2>1. w.at = "recover" /\ UNCHANGED <<ses, swap, stop>>
      BY <1>10 DEF Recover
    <2>2. CASE Over /\ UNCHANGED <<be, shut>>
      BY <2>1, <2>2, OverFields, JobStepOwned DEF Spawning
    <2>3. ASSUME NEW b \in Fresh, Closed("worker", w.mine, "unloaded"), be' = Without(w.mine),
                 \/ w' = [w EXCEPT !.at = "closing", !.then = "ensure", !.back = "job",
                              !.again = TRUE, !.mine = b]
                 \/ w' = [w EXCEPT !.at = "closing", !.then = "idle", !.error = "other"]
          PROVE  NamedOrTaken' /\ HandsPassed /\ ClosesInTurn' /\ Emptied'
      <3>1. w'.at = "closing" /\ w'.then \in {"ensure", "idle"}
        BY <1>0, <2>3 DEF Job
      <3>2. "worker" \in Closers /\ shut["worker"].at = "idle"
        BY <2>1 DEF Closers, OwnInv, ClosesInTurn
      <3>3. [be[w.mine] EXCEPT !.proc = None].proc = None
        BY <1>0 DEF Backend
      <3>4. NamedOrTaken' /\ HandsPassed
        BY <1>0, <2>1, <2>3, <3>2, <3>3, CloseOwned DEF OwnInv, Without
      <3>5. \A d \in Closers \ {"worker"} : shut'[d] = shut[d]
        BY <2>3 DEF Closed, OwnInv, TypeOK
      <3>6. ClosesInTurn'
        BY <2>1, <3>1, <3>5 DEF OwnInv, ClosesInTurn, Closers
      <3>7. Emptied'
        BY <3>1 DEF Emptied, Spawning
      <3>8. QED
        BY <3>4, <3>6, <3>7
    <2>4. QED
      BY <1>10, <2>2, <2>3 DEF Recover
  <1>11. QED
    BY <1>1, <1>2, <1>3, <1>4, <1>5, <1>6, <1>7, <1>8, <1>9, <1>10 DEF Worker

LEMMA CloserOwned ==
  ASSUME OwnInv, NEW c \in Closers, Kill(c) \/ Joined(c)
  PROVE  NamedOrTaken' /\ HandsPassed /\ ClosesInTurn' /\ Emptied'
  <1>0. /\ TypeOK /\ shut \in [Closers -> Close] /\ shut[c] \in Close
        /\ be \in [Backends -> Backend] /\ w.mine \in Backends
    BY DEF OwnInv, TypeOK, Job
  <1>1. CASE Kill(c)
    <2> DEFINE p == shut[c].proc
    <2>1. /\ shut' = [shut EXCEPT ![c] = [shut[c] EXCEPT !.at = "killed"]] /\ shut[c].at = "taken"
          /\ ses' = [s \in Sessions |-> IF s = p THEN [ses[s] EXCEPT !.phase = "dead"] ELSE ses[s]]
          /\ UNCHANGED <<be, w, swap, stop>>
      BY <1>1 DEF Kill
    <2> HIDE DEF p
    <2>2. /\ \A s \in Sessions \ {p} : ses'[s] = ses[s]
          /\ p \in Sessions => ses'[p] = [ses[p] EXCEPT !.phase = "dead"]
      BY <2>1
    <2>3. \A s \in Sessions : Alive(s)' => s # p /\ Alive(s) /\ ses'[s].of = ses[s].of
      BY <1>0, <2>2 DEF Alive, TypeOK, Sidecar
    <2>4. SameHands
      BY <2>1, <2>3 DEF SameHands
    <2>5. \A d \in Closers \ {c} : shut'[d] = shut[d]
      BY <1>0, <2>1
    <2>6. NamedOrTaken' /\ HandsPassed
      BY <1>0, <2>3, <2>4, <2>5, HandsOwned DEF OwnInv, TakenStays, p
    <2>7. ClosesInTurn'
      BY <1>0, <2>1, <2>5 DEF OwnInv, ClosesInTurn, Closers
    <2>8. Emptied'
      BY <2>1 DEF OwnInv, Emptied, Spawning
    <2>9. QED
      BY <2>6, <2>7, <2>8
  <1>2. CASE Joined(c)
    <2> DEFINE b == shut[c].of
               fields == [be[b] EXCEPT !.reader = None, !.open = FALSE,
                            !.state = IF shut[c].after = "kept" THEN @ ELSE "unloaded",
                            !.confirmed = shut[c].after # "lost" /\ @]
    <2>1. b \in Backends
      BY <1>0 DEF Close
    <2>2. fields.proc = be[b].proc
      BY <1>0, <2>1 DEF Backend
    <2>3. be' = [be EXCEPT ![b] = fields]
      BY <1>0, <1>2, <2>1 DEF Joined
    <2> HIDE DEF b, fields
    <2>4. \A x \in Backends : be'[x].proc = be[x].proc
      BY <1>0, <2>1, <2>2, <2>3, FieldKeepsProc
    <2>5. UNCHANGED <<ses, w, swap>> /\ stop' \in {stop, "closed"} /\ shut[c].at = "killed"
      BY <1>2 DEF Joined
    <2>6. shut' = [shut EXCEPT ![c] = [shut[c] EXCEPT !.at = "idle", !.proc = None]]
      BY <1>0, <1>2 DEF Joined
    <2>7. shut'[c].at = "idle" /\ \A d \in Closers \ {c} : shut'[d] = shut[d]
      BY <1>0, <2>6 DEF Close
    <2>8. SameHands
      BY <2>4, <2>5 DEF SameHands, Alive
    <2>9. NamedOrTaken' /\ HandsPassed
      BY <1>0, <2>5, <2>7, <2>8, HandsOwned DEF OwnInv, TakenStays
    <2>10. ClosesInTurn'
      BY <2>5, <2>7 DEF OwnInv, ClosesInTurn, Closers
    <2>11. Emptied'
      BY <1>0, <2>4, <2>5 DEF OwnInv, Emptied, Spawning
    <2>12. QED
      BY <2>9, <2>10, <2>11
  <1>3. QED
    BY <1>1, <1>2

\* The job's place is not the log reader's to change.
LEMMA RecordLeavesJob ==
  ASSUME TypeOK, NEW b \in Backends, Record(b)
  PROVE  /\ w'.at = w.at /\ w'.then = w.then /\ w'.mine = w.mine
         /\ \A x \in Backends : be'[x].proc = be[x].proc
  <1> DEFINE fields == [be[b] EXCEPT !.lost = TRUE, !.marked = TRUE, !.state = "unloaded",
                          !.confirmed = FALSE]
  <1>1. fields.proc = be[b].proc
    BY DEF TypeOK, Backend
  <1>2. be' = [be EXCEPT ![b] = fields]
    BY DEF Record, TypeOK
  <1> HIDE DEF fields
  <1>3. \A x \in Backends : be'[x].proc = be[x].proc
    BY <1>1, <1>2, FieldKeepsProc
  <1>4. w'.at = w.at /\ w'.then = w.then /\ w'.mine = w.mine
    BY DEF Record, TypeOK, Job
  <1>5. QED
    BY <1>3, <1>4

LEMMA SidecarOwned ==
  ASSUME OwnInv, NEW s \in Sessions,
         Native(s) \/ ReadProof(s) \/ ReadLoss(s) \/ ReadLine(s) \/ ReadEnd(s)
  PROVE  NamedOrTaken' /\ HandsPassed /\ ClosesInTurn' /\ Emptied'
  <1>0. /\ TypeOK /\ ses \in [Sessions -> Sidecar] /\ ses[s] \in Sidecar /\ ses[s].of \in Backends
        /\ be \in [Backends -> Backend] /\ w.mine \in Backends
    BY DEF OwnInv, TypeOK, Sidecar, Job
  <1>1. UNCHANGED <<shut, swap, stop>>
    BY DEF Native, ReadProof, ReadLoss, ReadLine, ReadEnd, sesOnly, readOnly
  <1>2. \A t \in Sessions : Alive(t)' => Alive(t) /\ ses'[t].of = ses[t].of
    <2>1. \A t \in Sessions \ {s} : ses'[t] = ses[t]
      BY <1>0 DEF Native, ReadProof, ReadLoss, ReadLine, ReadEnd
    <2>2. ses'[s].of = ses[s].of /\ (Alive(s) \/ ses'[s].phase = ses[s].phase)
      BY <1>0 DEF Native, ReadProof, ReadLoss, ReadLine, ReadEnd, Sidecar
    <2>3. QED
      BY <2>1, <2>2 DEF Alive
  <1>3. /\ \A b \in Backends : be'[b].proc = be[b].proc
        /\ w'.at = w.at /\ w'.then = w.then /\ w'.mine = w.mine
    <2>1. CASE UNCHANGED <<be, w>>
      BY <2>1
    <2>2. CASE Record(ses[s].of)
      BY <1>0, <2>2, RecordLeavesJob
    <2>3. CASE ReadProof(s)
      <3>1. [be[ses[s].of] EXCEPT !.confirmed = TRUE].proc = be[ses[s].of].proc
        BY <1>0 DEF Backend
      <3>2. be' = [be EXCEPT ![ses[s].of] = [be[ses[s].of] EXCEPT !.confirmed = TRUE]] /\ w' = w
        BY <2>3 DEF ReadProof, sesOnly
      <3>3. QED
        BY <1>0, <3>1, <3>2, FieldKeepsProc
    <2>4. CASE w' = w /\ be' = [be EXCEPT ![ses[s].of].marked = FALSE]
      <3>1. [be[ses[s].of] EXCEPT !.marked = FALSE].proc = be[ses[s].of].proc
        BY <1>0 DEF Backend
      <3>2. QED
        BY <1>0, <2>4, <3>1, FieldKeepsProc
    <2>5. QED
      BY <2>1, <2>2, <2>3, <2>4 DEF Native, ReadLoss, ReadLine, ReadEnd, sesOnly
  <1>4. NamedOrTaken' /\ HandsPassed
    BY <1>0, <1>1, <1>2, <1>3, HandsOwned DEF OwnInv, TakenStays, SameHands
  <1>5. ClosesInTurn' /\ Emptied'
    BY <1>0, <1>1, <1>3 DEF OwnInv, ClosesInTurn, Emptied, Spawning
  <1>6. QED
    BY <1>4, <1>5

LEMMA OthersOwned ==
  ASSUME OwnInv,
         Begin \/ Retry \/ LookForCancel \/ SetLoadCancel \/ MakeReplacement
           \/ CommitReplacement \/ StopClient
  PROVE  NamedOrTaken' /\ HandsPassed /\ ClosesInTurn' /\ Emptied'
  <1>0. /\ TypeOK /\ w \in Job /\ w.mine \in Backends /\ be \in [Backends -> Backend]
        /\ current \in Backends /\ be[current] \in Backend /\ ses' = ses
    BY DEF OwnInv, TypeOK, Job, Begin, Retry, LookForCancel, SetLoadCancel, MakeReplacement,
           CommitReplacement, StopClient
  <1>1. CASE Begin
    <2>1. w'.at = "qualify" /\ w'.then = w.then /\ w.at = "idle" /\ UNCHANGED <<be, shut, swap, stop>>
      BY <1>0, <1>1 DEF Begin, Job
    <2>2. QED
      BY <1>0, <2>1, JobStepOwned DEF Spawning, OwnInv, Emptied
  <1>2. CASE MakeReplacement
    <2>1. UNCHANGED <<be, w, shut, stop>> /\ shut["swap"].at = "idle"
      BY <1>2 DEF MakeReplacement
    <2>2. NamedOrTaken' /\ HandsPassed
      BY <1>0, <2>1, HandsOwned DEF OwnInv, TakenStays, SameHands, Alive
    <2>3. ClosesInTurn' /\ Emptied'
      BY <2>1 DEF OwnInv, ClosesInTurn, Emptied, Spawning
    <2>4. QED
      BY <2>2, <2>3
  <1>3. CASE LookForCancel \/ SetLoadCancel
    <2>1. UNCHANGED <<w, shut, swap, stop>>
      BY <1>3 DEF LookForCancel, SetLoadCancel
    <2>2. \A b \in Backends : be'[b].proc = be[b].proc
      <3>1. CASE LookForCancel
        <4>1. be' = be \/ be' = [be EXCEPT ![current] = [be[current] EXCEPT !.cancel = TRUE]]
          BY <3>1 DEF LookForCancel
        <4>2. [be[current] EXCEPT !.cancel = TRUE].proc = be[current].proc
          BY <1>0 DEF Backend
        <4>3. QED
          BY <1>0, <4>1, <4>2, FieldKeepsProc
      <3>2. CASE SetLoadCancel
        <4> DEFINE b == canceller.of
                   fields == [be[b] EXCEPT !.loadCancel = TRUE,
                                !.hit = @ \/ (be[b].loading /\ ~canceller.stale)]
        <4>1. b \in Backends
          BY <1>0, <3>2 DEF SetLoadCancel, TypeOK
        <4>2. fields.proc = be[b].proc
          BY <1>0, <4>1 DEF Backend
        <4>3. be' = [be EXCEPT ![b] = fields]
          BY <1>0, <3>2, <4>1 DEF SetLoadCancel
        <4> HIDE DEF b, fields
        <4>4. QED
          BY <1>0, <4>1, <4>2, <4>3, FieldKeepsProc
      <3>3. QED
        BY <1>3, <3>1, <3>2
    <2>3. NamedOrTaken' /\ HandsPassed
      BY <1>0, <2>1, <2>2, HandsOwned DEF OwnInv, TakenStays, SameHands, Alive
    <2>4. ClosesInTurn' /\ Emptied'
      BY <1>0, <2>1, <2>2 DEF OwnInv, ClosesInTurn, Emptied, Spawning
    <2>5. QED
      BY <2>3, <2>4
  <1>4. ASSUME NEW c \in Closers \ {"worker"}, Closed(c, current, "unloaded"), shut[c].at = "idle",
               be' = Without(current), w' = w,
               swap' = None \/ (swap' = swap /\ c # "swap"), stop' = stop \/ stop' = "closing",
               c = "stop" => stop' # "no"
        PROVE  NamedOrTaken' /\ HandsPassed /\ ClosesInTurn' /\ Emptied'
    <2>1. [be[current] EXCEPT !.proc = None].proc = None
      BY <1>0 DEF Backend
    <2>2. NamedOrTaken' /\ HandsPassed
      BY <1>0, <1>4, <2>1, CloseOwned DEF OwnInv, Without
    <2>3. \A d \in Closers \ {c} : shut'[d] = shut[d]
      BY <1>4 DEF Closed, OwnInv, TypeOK
    <2>4. ClosesInTurn'
      BY <1>4, <2>3 DEF OwnInv, ClosesInTurn, Closers
    <2>5. be'[w.mine].proc = None \/ be'[w.mine].proc = be[w.mine].proc
      BY <1>0, <1>4, <2>1 DEF Without
    <2>6. Emptied'
      BY <1>4, <2>5 DEF OwnInv, Emptied, Spawning
    <2>7. QED
      BY <2>2, <2>4, <2>6
  <1>5. CASE Retry
    BY <1>4, <1>5 DEF Retry, Closers
  <1>6. CASE CommitReplacement
    BY <1>4, <1>6 DEF CommitReplacement, Closers, OwnInv, ClosesInTurn
  <1>7. CASE StopClient
    BY <1>4, <1>7 DEF StopClient, Closers, OwnInv, ClosesInTurn
  <1>8. QED
    BY <1>1, <1>2, <1>3, <1>5, <1>6, <1>7

LEMMA OwnershipHolds == Spec => []OwnInv
  <1>1. Init => NamedOrTaken /\ ClosesInTurn /\ Emptied
    BY DEF Init, NoJob, NamedOrTaken, Alive, ClosesInTurn, Emptied, Spawning, Closers
  <1>2. TypeOK' /\ OwnInv /\ [Next]_vars => OwnInv'
    <2> SUFFICES ASSUME TypeOK', OwnInv, [Next]_vars
                 PROVE  NamedOrTaken' /\ ClosesInTurn' /\ Emptied'
      BY DEF OwnInv
    <2>1. CASE UNCHANGED vars
      BY <2>1 DEF vars, OwnInv, NamedOrTaken, Alive, ClosesInTurn, Emptied, Spawning
    <2>2. QED
      BY <2>1, WorkerOwned, CloserOwned, SidecarOwned, OthersOwned DEF Next
  <1>3. QED
    BY <1>1, <1>2, TypesHold, PTL DEF Spec, OwnInv

(***************************************************************************)
(* Who leaves a sidecar behind.  A sidecar that nobody has taken is the    *)
(* process of its backend (NamedOrTaken).  It becomes a stray one when the *)
(* manager or the job lets go of that backend; the manager empties the     *)
(* backend in the step in which it lets go of it, and so does a job that   *)
(* recovers: only the end of a job is left.                                *)
(***************************************************************************)
LEMMA WorkerKeepsHold ==
  ASSUME OwnInv, Worker, NEW b \in Backends
  PROVE  /\ Managed(b) => Managed(b)' \/ be'[b].proc = None
         /\ WorkedOn(b) => WorkedOn(b)' \/ be'[b].proc = None \/ w'.at = "idle"
  <1>0. /\ w \in Job /\ w.mine \in Backends /\ be \in [Backends -> Backend]
        /\ w.then \in {"idle", "prepare", "failed", "ensure"}
        /\ w.back \in {"job", "verify", "answer"}
    BY DEF OwnInv, TypeOK, Job, Emptied
  <1>1. be' = Without(w.mine) => be'[w.mine].proc = None
    BY <1>0 DEF Without, Backend
  <1>2. Managed(b) => Managed(b)' \/ be'[b].proc = None
    <2>1. CASE Recover
      BY <1>1, <2>1 DEF Recover, Managed
    <2>2. CASE ~Recover
      BY <2>2 DEF Managed, Worker, AfterClose, Qualify, TakeBackend, EnsureLoaded, EnsureRefused,
         EnsureReload, Prepare, Announce, Spawn, Attach, Ready, SetLoaded, LoadStops, LoadFails,
         Start, Activate, StreamEnds, StreamCancelled, Verify, Answer, GenerateFails, wOnly
    <2>3. QED
      BY <2>1, <2>2
  <1>3. ASSUME WorkedOn(b)
        PROVE  WorkedOn(b)' \/ be'[b].proc = None \/ w'.at = "idle"
    <2>0. w.mine = b /\ w.at \notin {"idle", "qualify", "take"}
      BY <1>3 DEF WorkedOn
    <2>1. ASSUME NEW l \in Labels \ {"idle", "qualify", "take"}, Go(l)
          PROVE  WorkedOn(b)'
      BY <1>0, <2>0, <2>1, GoFields DEF WorkedOn
    <2>2. Over => w'.at = "idle"
      BY OverFields
    <2>3. ASSUME NEW error, Raise(error)
          PROVE  WorkedOn(b)' \/ w'.at = "idle"
      <3>1. "recover" \in Labels \ {"idle", "qualify", "take"}
        BY DEF Labels
      <3>2. QED
        BY <2>1, <2>2, <2>3, <3>1 DEF Raise
    <2>4. ASSUME NEW fields, NEW after, NEW then, NEW error, CloseMine(fields, after, then, error)
          PROVE  WorkedOn(b)'
      <3>1. w' = [w EXCEPT !.at = "closing", !.then = then, !.error = error]
        BY <2>4 DEF CloseMine
      <3>2. w'.at = "closing" /\ w'.mine = w.mine
        BY <1>0, <3>1 DEF Job
      <3>3. QED
        BY <2>0, <3>2 DEF WorkedOn
    <2>5. CASE AfterClose
      <3>1. w.then = "idle" \/ w.then \in Labels \ {"idle", "qualify", "take"}
        BY <1>0 DEF Labels
      <3>2. QED
        BY <2>1, <2>3, <2>5, <3>1 DEF AfterClose
    <2>6. CASE Qualify \/ TakeBackend
      BY <2>0, <2>6 DEF Qualify, TakeBackend
    <2>7. CASE EnsureLoaded \/ EnsureRefused
      <3>1. {"verify", "answer", "start", "failed"} \subseteq Labels \ {"idle", "qualify", "take"}
        BY DEF Labels
      <3>2. QED
        BY <1>0, <2>1, <2>2, <2>3, <2>7, <3>1 DEF EnsureLoaded, EnsureRefused
    <2>8. CASE Prepare \/ Announce \/ Spawn \/ Attach \/ Ready \/ SetLoaded \/ Activate
      <3>1. {"announce", "spawn", "attach", "poll", "proven", "ensure", "stream", "failed"}
              \subseteq Labels \ {"idle", "qualify", "take"}
        BY DEF Labels
      <3>2. \E l \in {"announce", "spawn", "attach", "poll", "proven", "ensure", "stream", "failed"} : Go(l)
        BY <2>8 DEF Prepare, Announce, Spawn, Attach, Ready, SetLoaded, Activate
      <3>3. QED
        BY <2>1, <3>1, <3>2
    <2>9. CASE EnsureReload
      BY <2>4, <2>9 DEF EnsureReload
    <2>10. CASE LoadStops
      BY <2>4, <2>10 DEF LoadStops, LoadFails
    <2>11. CASE Start \/ StreamEnds \/ Verify
      <3>1. \A x \in {"verify", "answer"} : /\ [w EXCEPT !.at = "ensure", !.back = x].at = "ensure"
                                            /\ [w EXCEPT !.at = "ensure", !.back = x].mine = w.mine
        BY <1>0 DEF Job
      <3>2. /\ [w EXCEPT !.at = "activate", !.tainted = FALSE].at = "activate"
            /\ [w EXCEPT !.at = "activate", !.tainted = FALSE].mine = w.mine
        BY <1>0 DEF Job
      <3>3. {"verify", "failed", "answer"} \subseteq Labels \ {"idle", "qualify", "take"}
        BY DEF Labels
      <3>4. \/ \E l \in {"verify", "failed", "answer"} : Go(l)
            \/ w'.at \in {"activate", "ensure"} /\ w'.mine = w.mine
        BY <2>11, <3>1, <3>2 DEF Start, StreamEnds, Verify
      <3>5. QED
        BY <2>0, <2>1, <3>3, <3>4 DEF WorkedOn
    <2>12. CASE StreamCancelled \/ Answer
      BY <2>2, <2>12 DEF StreamCancelled, Answer
    <2>13. CASE GenerateFails
      BY <2>3, <2>4, <2>13 DEF GenerateFails
    <2>14. CASE Recover
      BY <1>1, <2>0, <2>2, <2>14 DEF Recover
    <2>15. QED
      BY <2>5, <2>6, <2>7, <2>8, <2>9, <2>10, <2>11, <2>12, <2>13, <2>14 DEF Worker
  <1>4. QED
    BY <1>2, <1>3

LEMMA OthersKeepHold ==
  ASSUME OwnInv, Next, ~Worker, NEW b \in Backends
  PROVE  /\ Managed(b) => Managed(b)' \/ be'[b].proc = None
         /\ WorkedOn(b) => WorkedOn(b)'
  <1>0. /\ TypeOK /\ be \in [Backends -> Backend] /\ current \in Backends
    BY DEF OwnInv, TypeOK
  <1>1. Managed(b) => Managed(b)' \/ be'[b].proc = None
    <2>1. CASE CommitReplacement \/ StopClient
      <3>1. be'[current].proc = None
        BY <1>0, <2>1 DEF CommitReplacement, StopClient, Without, Backend
      <3>2. QED
        BY <3>1 DEF Managed
    <2>2. ASSUME NEW c \in Closers, Joined(c)
          PROVE  Managed(b) => Managed(b)'
      <3>1. stop = "no" => c # "stop"
        BY <2>2 DEF Joined, OwnInv, ClosesInTurn
      <3>2. QED
        BY <2>2, <3>1 DEF Joined, Managed
    <2>3. CASE UNCHANGED <<current, stop>>
      BY <2>3 DEF Managed
    <2>4. QED
      BY <2>1, <2>2, <2>3 DEF Next, Begin, Retry, Kill, Native, ReadProof, ReadLoss, ReadLine, ReadEnd,
         sesOnly, readOnly, LookForCancel, SetLoadCancel, MakeReplacement
  <1>2. WorkedOn(b) => WorkedOn(b)'
    <2>1. CASE UNCHANGED w
      BY <2>1 DEF WorkedOn
    <2>2. CASE Begin
      BY <2>2 DEF Begin, WorkedOn
    <2>3. ASSUME NEW s \in Sessions, ReadLoss(s) \/ ReadLine(s)
          PROVE  WorkedOn(b) => WorkedOn(b)'
      <3>1. ses[s].of \in Backends
        BY <1>0 DEF TypeOK, Sidecar
      <3>2. UNCHANGED w \/ Record(ses[s].of)
        BY <2>3 DEF ReadLoss, ReadLine
      <3>3. QED
        BY <1>0, <2>1, <3>1, <3>2, RecordLeavesJob DEF WorkedOn
    <2>4. QED
      BY <2>1, <2>2, <2>3 DEF Next, Retry, Kill, Joined, Native, ReadProof, ReadEnd,
         sesOnly, LookForCancel, SetLoadCancel, MakeReplacement, CommitReplacement, StopClient
  <1>3. QED
    BY <1>1, <1>2

LEMMA SpawnLeavesNothing ==
  ASSUME OwnInv, Spawn, NEW t \in Sessions, Stray(t)'
  PROVE  Stray(t)
  <1>0. /\ TypeOK /\ w \in Job /\ w.mine \in Backends /\ be \in [Backends -> Backend]
        /\ ses \in [Sessions -> Sidecar]
    BY DEF OwnInv, TypeOK, Job
  <1>1. PICK s \in Unused :
          /\ ses' = [ses EXCEPT ![s].phase = "starting", ![s].of = w.mine]
          /\ be' = Set("proc", s)
    BY DEF Spawn
  <1>2. /\ w.at = "spawn" /\ be[w.mine].proc = None /\ UNCHANGED <<current, shut, stop>>
        /\ Go("attach") /\ s \in Sessions
    BY <1>1 DEF Spawn, OwnInv, Emptied, Spawning, Unused
  <1>3. w'.at = "attach" /\ w'.mine = w.mine
    BY <1>0, <1>2, GoFields
  <1>4. ses' = [ses EXCEPT ![s] = [ses[s] EXCEPT !.phase = "starting", !.of = w.mine]]
    BY <1>0, <1>1, <1>2
  <1>5. be' = [be EXCEPT ![w.mine] = [be[w.mine] EXCEPT !.proc = s]]
    BY <1>0, <1>1 DEF Set
  <1>6. ses'[s].of = w.mine /\ be'[w.mine].proc = s
    BY <1>0, <1>2, <1>4, <1>5 DEF Sidecar, Backend
  <1>7. t # s
    BY <1>3, <1>6 DEF Stray, WorkedOn
  <1>8. ses'[t] = ses[t] /\ ses[t].of \in Backends
    BY <1>0, <1>2, <1>4, <1>7 DEF Sidecar
  <1>9. be[ses[t].of].proc = t => be'[ses[t].of].proc = t /\ t # None
    <2>1. Sessions \subseteq Nat \ {None}
      BY SidecarAssumption DEF SidecarAssumption, Sessions, None
    <2>2. QED
      BY <1>0, <1>2, <1>5, <1>8, <2>1
  <1>10. Alive(t)
    BY <1>8 DEF Stray, Alive
  <1>11. \A c \in Closers : shut[c].at = "taken" => shut[c].proc # t
    BY <1>2 DEF Stray
  <1>12. be[ses[t].of].proc = t => ~Managed(ses[t].of) /\ ~WorkedOn(ses[t].of)
    BY <1>2, <1>3, <1>8, <1>9 DEF Stray, Managed, WorkedOn
  <1>13. QED
    BY <1>10, <1>11, <1>12 DEF Stray

LEMMA OnlyAnEndLeaves ==
  ASSUME OwnInv, OwnInv', Next, NEW s \in Sessions, Stray(s)', ~Stray(s)
  PROVE  WorkedOn(ses[s].of) /\ be[ses[s].of].proc = s /\ w'.at = "idle"
  <1>1. ~Spawn
    BY SpawnLeavesNothing
  <1>2. HandsPassed
    BY <1>1, WorkerOwned, CloserOwned, SidecarOwned, OthersOwned DEF Next
  <1>3. /\ Alive(s)' /\ Alive(s) /\ ses'[s].of = ses[s].of /\ ses[s].of \in Backends /\ s # None
    BY <1>2 DEF HandsPassed, Stray, OwnInv, TypeOK, Sidecar, Alive
  <1>4. PICK b \in Backends : b = ses[s].of /\ b = ses'[s].of
    BY <1>3
  <1>5. \A c \in Closers : shut'[c].at = "taken" => shut'[c].proc # s
    BY DEF Stray
  <1>6. be'[b].proc = s
    BY <1>3, <1>4, <1>5 DEF OwnInv, NamedOrTaken
  <1>7. ~Managed(b)' /\ ~WorkedOn(b)'
    BY <1>4, <1>6 DEF Stray, Managed, WorkedOn
  <1>8. be[b].proc = s
    BY <1>2, <1>3, <1>6 DEF HandsPassed
  <1>9. \A c \in Closers : shut[c].at = "taken" => shut[c].proc # s
    BY <1>2, <1>3, <1>5 DEF HandsPassed, TakenStays
  <1>10. Managed(b) \/ WorkedOn(b)
    BY <1>3, <1>4, <1>9 DEF Stray
  <1>11. /\ Managed(b) => Managed(b)' \/ be'[b].proc = None
         /\ WorkedOn(b) => WorkedOn(b)' \/ be'[b].proc = None \/ w'.at = "idle"
    BY WorkerKeepsHold, OthersKeepHold
  <1>12. WorkedOn(b) /\ w'.at = "idle"
    BY <1>3, <1>6, <1>7, <1>10, <1>11
  <1>13. QED
    BY <1>4, <1>8, <1>12

\* However many threads close, replace, retry or stop, and whatever the sidecar
\* does: the step that leaves a running sidecar to nobody is the end of a job whose
\* backend was replaced, or whose client had begun to end.
THEOREM OnlyJobsLeaveSidecars == Spec => OnlyAJobLeavesASidecar
  <1>1. ASSUME OwnInv, OwnInv', [Next]_vars
        PROVE  [\A s \in Sessions : Stray(s)' =>
                  \/ Stray(s)
                  \/ WorkedOn(ses[s].of) /\ be[ses[s].of].proc = s /\ w'.at = "idle"]_vars
    BY <1>1, OnlyAnEndLeaves
  <1>2. QED
    BY <1>1, OwnershipHolds, PTL DEF Spec, OnlyAJobLeavesASidecar

(***************************************************************************)
(* Cancels.  A cancel that hits a load sets the event in the same step,    *)
(* and ensure_loaded() clears the event only before it announces a load:   *)
(* with the event it forgets the cancels that hit an earlier one.          *)
(***************************************************************************)
CancelsStay == \A b \in Backends : be[b].hit => be[b].loadCancel

\* The two fields as every step but the two that cancel leaves them.
LEMMA FieldKeepsCancel ==
  ASSUME TypeOK, CancelsStay, NEW m \in Backends, NEW r,
         r.hit = be[m].hit /\ r.loadCancel = be[m].loadCancel, be' = [be EXCEPT ![m] = r]
  PROVE  CancelsStay'
  BY DEF TypeOK, CancelsStay

LEMMA CloseMineKeepsCancel ==
  ASSUME TypeOK, CancelsStay, NEW fields \in Backend, NEW after, NEW then, NEW error,
         fields.hit = be[w.mine].hit, fields.loadCancel = be[w.mine].loadCancel,
         CloseMine(fields, after, then, error)
  PROVE  CancelsStay'
  <1>1. w.mine \in Backends
    BY DEF TypeOK, Job
  <1>2. /\ [fields EXCEPT !.proc = None].hit = be[w.mine].hit
        /\ [fields EXCEPT !.proc = None].loadCancel = be[w.mine].loadCancel
    BY DEF Backend
  <1>3. be' = [be EXCEPT ![w.mine] = [fields EXCEPT !.proc = None]]
    BY DEF CloseMine
  <1>4. QED
    BY <1>1, <1>2, <1>3, FieldKeepsCancel

LEMMA WorkerKeepsCancel ==
  ASSUME TypeOK, CancelsStay, Worker
  PROVE  CancelsStay'
  <1> DEFINE old == be[w.mine]
  <1>0. /\ be \in [Backends -> Backend] /\ w.mine \in Backends /\ old \in Backend
    BY DEF TypeOK, Job
  <1>1. CASE UNCHANGED be
    BY <1>1 DEF CancelsStay
  <1>2. CASE Prepare
    <2> DEFINE r == [old EXCEPT !.state = "loading", !.open = TRUE, !.confirmed = FALSE,
                       !.lost = FALSE, !.loadCancel = FALSE, !.hit = FALSE]
    <2>1. ~r.hit
      BY <1>0 DEF Backend
    <2>2. be' = [be EXCEPT ![w.mine] = r]
      BY <1>0, <1>2 DEF Prepare
    <2> HIDE DEF r
    <2>3. QED
      BY <1>0, <2>1, <2>2 DEF CancelsStay
  <1>3. CASE EnsureReload
    BY <1>0, <1>3, CloseMineKeepsCancel DEF EnsureReload
  <1>4. CASE LoadStops
    <2>1. PICK cancelled \in BOOLEAN : LoadFails(cancelled)
      BY <1>4 DEF LoadStops
    <2> DEFINE fields == [old EXCEPT !.loading = FALSE,
                            !.state = IF cancelled \/ old.lost THEN "unloaded" ELSE "failed"]
    <2>2. fields \in Backend /\ fields.hit = old.hit /\ fields.loadCancel = old.loadCancel
      BY <1>0 DEF Backend
    <2>3. CloseMine(fields, IF old.lost THEN "lost" ELSE "kept",
                    IF w.back = "job" THEN "idle" ELSE "failed",
                    IF old.lost THEN "lost" ELSE "other")
      BY <2>1 DEF LoadFails
    <2> HIDE DEF fields
    <2>4. QED
      BY <2>2, <2>3, CloseMineKeepsCancel
  <1>5. CASE GenerateFails
    <2> DEFINE fields == [old EXCEPT !.generating = FALSE]
    <2>1. fields \in Backend /\ fields.hit = old.hit /\ fields.loadCancel = old.loadCancel
      BY <1>0 DEF Backend
    <2>2. \/ be' = [be EXCEPT ![w.mine] = fields]
          \/ \E after \in {"lost", "unloaded"}, error \in Errors : CloseMine(fields, after, "idle", error)
      BY <1>0, <1>5 DEF GenerateFails, Set, Errors
    <2> HIDE DEF fields
    <2>3. QED
      BY <1>0, <2>1, <2>2, FieldKeepsCancel, CloseMineKeepsCancel
  <1>6. CASE Announce \/ SetLoaded \/ Start \/ Activate \/ StreamCancelled \/ Answer
    <2> DEFINE q1 == [old EXCEPT !.state = "loaded", !.loading = FALSE]
               q2 == [old EXCEPT !.cancel = FALSE]
               q3 == [old EXCEPT !.generating = TRUE]
               q4 == [old EXCEPT !.generating = FALSE]
               q5 == [old EXCEPT !.loading = TRUE]
    <2>1. \A q \in {q1, q2, q3, q4, q5} : q.hit = old.hit /\ q.loadCancel = old.loadCancel
      BY <1>0 DEF Backend
    <2>2. \E q \in {q1, q2, q3, q4, q5} : be' = [be EXCEPT ![w.mine] = q]
      BY <1>0, <1>6 DEF Announce, SetLoaded, Start, Activate, StreamCancelled, Answer, Set
    <2> HIDE DEF q1, q2, q3, q4, q5
    <2>3. QED
      BY <1>0, <2>1, <2>2, FieldKeepsCancel
  <1>7. CASE Spawn \/ Attach \/ (Recover /\ be' = Without(w.mine))
    <2>1. PICK p \in {None} \union Sessions :
            \/ be' = [be EXCEPT ![w.mine] = [old EXCEPT !.proc = p]]
            \/ be' = [be EXCEPT ![w.mine] = [old EXCEPT !.reader = p]]
      <3>1. CASE Spawn
        BY <1>0, <3>1 DEF Spawn, Set, Unused
      <3>2. CASE Attach
        BY <1>0, <3>2 DEF Attach, Set, Backend
      <3>3. CASE be' = Without(w.mine)
        BY <1>0, <3>3 DEF Without
      <3>4. QED
        BY <1>7, <3>1, <3>2, <3>3
    <2>2. /\ [old EXCEPT !.proc = p].hit = old.hit /\ [old EXCEPT !.proc = p].loadCancel = old.loadCancel
          /\ [old EXCEPT !.reader = p].hit = old.hit /\ [old EXCEPT !.reader = p].loadCancel = old.loadCancel
      BY <1>0 DEF Backend
    <2>3. QED
      BY <1>0, <2>1, <2>2, FieldKeepsCancel
  <1>8. QED
    BY <1>1, <1>2, <1>3, <1>4, <1>5, <1>6, <1>7
       DEF Worker, AfterClose, Qualify, TakeBackend, EnsureLoaded, EnsureRefused, Ready, StreamEnds,
           Verify, Recover

LEMMA OthersKeepCancel ==
  ASSUME TypeOK, CancelsStay, [Next]_vars, ~Worker
  PROVE  CancelsStay'
  <1>0. be \in [Backends -> Backend] /\ current \in Backends /\ be[current] \in Backend
    BY DEF TypeOK
  <1>1. CASE UNCHANGED be
    BY <1>1 DEF CancelsStay
  <1>2. ASSUME NEW c \in Closers, Joined(c) PROVE CancelsStay'
    <2> DEFINE b == shut[c].of
               fields == [be[b] EXCEPT !.reader = None, !.open = FALSE,
                            !.state = IF shut[c].after = "kept" THEN @ ELSE "unloaded",
                            !.confirmed = shut[c].after # "lost" /\ @]
    <2>1. b \in Backends
      BY DEF TypeOK, Close
    <2>2. fields.hit = be[b].hit /\ fields.loadCancel = be[b].loadCancel
      BY <1>0, <2>1 DEF Backend
    <2>3. be' = [be EXCEPT ![b] = fields]
      BY <1>0, <1>2, <2>1 DEF Joined
    <2> HIDE DEF b, fields
    <2>4. QED
      BY <2>1, <2>2, <2>3, FieldKeepsCancel
  <1>3. ASSUME NEW s \in Sessions, ReadProof(s) \/ ReadLoss(s) \/ ReadLine(s) PROVE CancelsStay'
    <2> DEFINE b == ses[s].of
               q1 == [be[b] EXCEPT !.confirmed = TRUE]
               q2 == [be[b] EXCEPT !.lost = TRUE, !.marked = TRUE, !.state = "unloaded",
                        !.confirmed = FALSE]
               q3 == [be[b] EXCEPT !.marked = FALSE]
    <2>1. b \in Backends
      BY DEF TypeOK, Sidecar
    <2>2. \A q \in {q1, q2, q3} : q.hit = be[b].hit /\ q.loadCancel = be[b].loadCancel
      BY <1>0, <2>1 DEF Backend
    <2>3. be' = be \/ \E q \in {q1, q2, q3} : be' = [be EXCEPT ![b] = q]
      BY <1>0, <1>3, <2>1 DEF ReadProof, ReadLoss, ReadLine, Record
    <2> HIDE DEF b, q1, q2, q3
    <2>4. QED
      BY <1>1, <2>1, <2>2, <2>3, FieldKeepsCancel
  <1>4. CASE Retry \/ CommitReplacement \/ StopClient
    <2>1. be' = [be EXCEPT ![current] = [be[current] EXCEPT !.proc = None]]
      BY <1>0, <1>4 DEF Retry, CommitReplacement, StopClient, Without
    <2>2. /\ [be[current] EXCEPT !.proc = None].hit = be[current].hit
          /\ [be[current] EXCEPT !.proc = None].loadCancel = be[current].loadCancel
      BY <1>0 DEF Backend
    <2>3. QED
      BY <1>0, <2>1, <2>2, FieldKeepsCancel
  <1>5. CASE LookForCancel
    <2>1. be' = be \/ be' = [be EXCEPT ![current] = [be[current] EXCEPT !.cancel = TRUE]]
      BY <1>5 DEF LookForCancel
    <2>2. /\ [be[current] EXCEPT !.cancel = TRUE].hit = be[current].hit
          /\ [be[current] EXCEPT !.cancel = TRUE].loadCancel = be[current].loadCancel
      BY <1>0 DEF Backend
    <2>3. QED
      BY <1>0, <1>1, <2>1, <2>2, FieldKeepsCancel
  <1>6. CASE SetLoadCancel
    <2> DEFINE b == canceller.of
               fields == [be[b] EXCEPT !.loadCancel = TRUE,
                            !.hit = @ \/ (be[b].loading /\ ~canceller.stale)]
    <2>1. b \in Backends
      BY <1>6 DEF SetLoadCancel, TypeOK
    <2>2. fields.loadCancel
      BY <1>0, <2>1 DEF Backend
    <2>3. be' = [be EXCEPT ![b] = fields]
      BY <1>0, <1>6, <2>1 DEF SetLoadCancel
    <2> HIDE DEF b, fields
    <2>4. QED
      BY <1>0, <2>1, <2>2, <2>3 DEF CancelsStay
  <1>7. QED
    BY <1>1, <1>2, <1>3, <1>4, <1>5, <1>6
       DEF Next, vars, Begin, Kill, Native, ReadEnd, sesOnly, MakeReplacement

\* A cancel that found a load running is not forgotten while that load runs.
THEOREM CancelIsNotSwallowed == Spec => []CancelReachesItsLoad
  <1>1. Init => CancelsStay
    BY DEF Init, CancelsStay
  <1>2. TypeOK /\ CancelsStay /\ [Next]_vars => CancelsStay'
    BY WorkerKeepsCancel, OthersKeepCancel
  <1>3. CancelsStay => CancelReachesItsLoad
    BY DEF CancelsStay, CancelReachesItsLoad
  <1>4. QED
    BY <1>1, <1>2, <1>3, TypesHold, PTL DEF Spec

=============================================================================
