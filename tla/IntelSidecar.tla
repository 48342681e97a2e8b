---------------------------- MODULE IntelSidecar ----------------------------
(***************************************************************************)
(* The Intel GPU runtime of Ask AXP: InferenceRuntimeManager with its one  *)
(* recovery after DEVICE_LOST (runtime_manager.py), IntelSyclBackend that  *)
(* spawns a llama-server sidecar, reads its log for proof of GPU work and  *)
(* for device loss, and talks to it (intel_sycl_backend.py), and the end   *)
(* of the client (ClientRuntime.close, server.py).  Whether the probe      *)
(* finds the device and the files of the runtime and of the model are      *)
(* there is a choice each time they are looked at.                         *)
(*                                                                         *)
(* The lane lets one native job run at a time (RagService): it is the      *)
(* "worker" here, the executor's thread or the thread that loads the model *)
(* at startup.  Other threads call close() beside it: /api/ask/model/retry,*)
(* a replacement of the backend (an activation, or the restore that ends a *)
(* benchmark or a qualification) and the shutdown.  A join of a log reader *)
(* waits five seconds: a reader whose process is dead ends in that time.   *)
(***************************************************************************)
EXTENDS Integers, FiniteSets

CONSTANTS
  MaxBackends,   \* backends made: the first one, replacements, recoveries
  MaxSessions,   \* sidecars spawned
  MaxRequests,   \* loads and generations asked for
  MaxActs        \* what other threads begin: retries, cancels, replacements,
                 \* the shutdown

ASSUME SidecarAssumption ==
  /\ MaxBackends \in Nat \ {0} /\ MaxSessions \in Nat /\ MaxRequests \in Nat
  /\ MaxActs \in Nat

Backends == 1..MaxBackends
Sessions == 1..MaxSessions
None == 0
Closers == {"worker", "retry", "swap", "stop"}

VARIABLES
  current,   \* InferenceRuntimeManager.backend
  kind,      \* what each backend is
  be,        \* the fields of each IntelSyclBackend
  ses,       \* the sidecars: process, unread log, log reader
  w,         \* the native job
  shut,      \* close() as each thread runs it
  swap,      \* the replacement of the backend: the one that was made
  canceller, \* request_load_cancel: the backend it found loading
  stop,      \* ClientRuntime.close
  requests, acts

countVars == <<requests, acts>>
vars == <<current, kind, be, ses, w, shut, swap, canceller, stop,
          requests, acts>>

Labels == {"idle", "qualify", "take", "ensure", "prepare", "announce", "spawn",
           "attach", "poll", "proven", "start", "activate", "stream", "verify",
           "answer", "failed", "closing", "recover"}
Errors == {"lost", "other"}

Backend ==
  [proc : {None} \union Sessions, reader : {None} \union Sessions,
   state : {"unloaded", "loading", "loaded", "failed"}, open : BOOLEAN,
   confirmed : BOOLEAN, lost : BOOLEAN, marked : BOOLEAN, loading : BOOLEAN,
   loadCancel : BOOLEAN, generating : BOOLEAN, cancel : BOOLEAN, hit : BOOLEAN]
Sidecar ==
  [phase : {"none", "starting", "offloaded", "ready", "broken", "dead"},
   of : Backends, log : SUBSET {"proof", "loss"}, reader : {"none", "on", "over"}]
Job ==
  [at : Labels, job : {"load", "generate"}, mine : Backends,
   back : {"job", "verify", "answer"}, again : BOOLEAN, then : Labels,
   error : Errors \union {"none"}, tainted : BOOLEAN]
Close ==
  [at : {"idle", "taken", "killed"}, of : Backends, proc : {None} \union Sessions,
   after : {"unloaded", "lost", "kept"}]

TypeOK ==
  /\ current \in Backends
  /\ kind \in [Backends -> {"none", "cpu", "pending", "intel"}]
  /\ be \in [Backends -> Backend]
  /\ ses \in [Sessions -> Sidecar]
  /\ w \in Job
  /\ shut \in [Closers -> Close]
  /\ swap \in {None} \union Backends
  /\ canceller \in [of : {None} \union Backends, stale : BOOLEAN]
  /\ stop \in {"no", "closing", "closed"}
  /\ requests \in 0..MaxRequests /\ acts \in 0..MaxActs

\* _make_backend: the device asked for and what the last probe found of it.
Made == {"cpu", "pending", "intel"}

NoJob == [at |-> "idle", job |-> "load", mine |-> 1, back |-> "job",
          again |-> FALSE, then |-> "idle", error |-> "none", tainted |-> FALSE]

Init ==
  /\ current = 1
  /\ kind \in {[b \in Backends |-> IF b = 1 THEN k ELSE "none"] : k \in Made}
  /\ be = [b \in Backends |-> [proc |-> None, reader |-> None, state |-> "unloaded",
       open |-> FALSE, confirmed |-> FALSE, lost |-> FALSE, marked |-> FALSE,
       loading |-> FALSE, loadCancel |-> FALSE, generating |-> FALSE, cancel |-> FALSE, hit |-> FALSE]]
  /\ ses = [s \in Sessions |-> [phase |-> "none", of |-> 1, log |-> {}, reader |-> "none"]]
  /\ w = NoJob
  /\ shut = [c \in Closers |-> [at |-> "idle", of |-> 1, proc |-> None, after |-> "kept"]]
  /\ swap = None /\ canceller = [of |-> None, stale |-> FALSE] /\ stop = "no"
  /\ requests = 0 /\ acts = 0

\* Another thread begins something.
Act == acts < MaxActs /\ acts' = acts + 1 /\ UNCHANGED requests

Alive(s) == s # None /\ ses[s].phase \notin {"none", "dead"}
Loaded(b) == Alive(be[b].proc) /\ be[b].state = "loaded"
Fresh == {b \in Backends : kind[b] = "none"}
Unused == {s \in Sessions : ses[s].phase = "none"}

(***************************************************************************)
(* close(): the process is taken out of the backend first; whatever else   *)
(* the backend holds by then goes when the process is gone.  A join ends   *)
(* with the reader, or after its timeout when the reader is another        *)
(* sidecar's that still runs.                                              *)
(***************************************************************************)
Closed(c, b, after) ==
  shut' = [shut EXCEPT ![c] = [at |-> "taken", of |-> b, proc |-> be[b].proc, after |-> after]]
Without(b) == [be EXCEPT ![b].proc = None]

Kill(c) ==
  /\ shut[c].at = "taken"
  /\ shut' = [shut EXCEPT ![c].at = "killed"]
  /\ ses' = [s \in Sessions |-> IF s = shut[c].proc
                                THEN [ses[s] EXCEPT !.phase = "dead"] ELSE ses[s]]
  /\ UNCHANGED <<current, kind, be, w, swap, canceller, stop, countVars>>

Joined(c) ==
  LET b == shut[c].of
      r == be[b].reader IN
  /\ shut[c].at = "killed"
  /\ r # None => (ses[r].reader = "over" \/ Alive(r))
  /\ shut' = [shut EXCEPT ![c].at = "idle", ![c].proc = None]
  /\ be' = [be EXCEPT ![b].reader = None, ![b].open = FALSE,
              ![b].state = IF shut[c].after = "kept" THEN @ ELSE "unloaded",
              ![b].confirmed = shut[c].after # "lost" /\ @]
  /\ stop' = IF c = "stop" THEN "closed" ELSE stop
  /\ UNCHANGED <<current, kind, ses, w, swap, canceller, countVars>>

Retry ==
  /\ Act /\ stop = "no"
  /\ shut["retry"].at = "idle" /\ kind[current] = "intel"
  /\ Closed("retry", current, "unloaded") /\ be' = Without(current)
  /\ UNCHANGED <<current, kind, ses, w, swap, canceller, stop>>

(***************************************************************************)
(* The sidecar and the thread that reads its log.                          *)
(***************************************************************************)
readOnly == <<current, kind, shut, swap, canceller, stop, countVars>>
sesOnly == <<current, kind, w, shut, swap, canceller, stop, countVars>>

Native(s) ==
  /\ Alive(s)
  /\ \/ /\ ses[s].phase = "starting"
        /\ ses' = [ses EXCEPT ![s].phase = "offloaded", ![s].log = {"proof"}]
     \/ ses[s].phase \in {"starting", "offloaded"} /\ ses' = [ses EXCEPT ![s].phase = "ready"]
     \/ /\ ses[s].phase # "broken"
        /\ ses' = [ses EXCEPT ![s].phase = "broken", ![s].log = @ \union {"loss"}]
     \/ ses' = [ses EXCEPT ![s].phase = "dead"]
  /\ UNCHANGED <<be, sesOnly>>

\* _record_native_evidence.
ReadProof(s) ==
  /\ ses[s].reader = "on" /\ "proof" \in ses[s].log
  /\ ses' = [ses EXCEPT ![s].log = @ \ {"proof"}]
  /\ be' = [be EXCEPT ![ses[s].of].confirmed = TRUE]
  /\ UNCHANGED sesOnly

\* Faulty: the result of the session is written where the state of the model is kept.
RecordResult(b) ==
  /\ be' = [be EXCEPT ![b].lost = TRUE, ![b].marked = TRUE, ![b].state = "lost",
              ![b].confirmed = FALSE]
  /\ w' = [w EXCEPT !.tainted = @ \/ (w.at = "stream" /\ w.mine = b)]

\* _record_native_failure: once, until the next load.  It looks at the last
\* twenty lines of the backend, whichever sidecar wrote them.
Record(b) ==
  /\ be' = [be EXCEPT ![b].lost = TRUE, ![b].marked = TRUE, ![b].state = "unloaded",
              ![b].confirmed = FALSE]
  /\ w' = [w EXCEPT !.tainted = @ \/ (w.at = "stream" /\ w.mine = b)]

ReadLoss(s) ==
  LET b == ses[s].of IN
  /\ ses[s].reader = "on" /\ ses[s].log = {"loss"}
  /\ ses' = [ses EXCEPT ![s].log = {}]
  /\ IF be[b].lost THEN UNCHANGED <<be, w>> ELSE Record(b)
  /\ UNCHANGED readOnly

ReadLine(s) ==
  LET b == ses[s].of IN
  /\ ses[s].reader = "on" /\ Alive(s) /\ be[b].marked
  /\ \/ ~be[b].lost /\ Record(b)
     \/ be' = [be EXCEPT ![b].marked = FALSE] /\ UNCHANGED w   \* twenty lines later
  /\ UNCHANGED <<ses, readOnly>>

ReadEnd(s) ==
  /\ ses[s].reader = "on" /\ ses[s].phase = "dead" /\ ses[s].log = {}
  /\ ses' = [ses EXCEPT ![s].reader = "over"]
  /\ UNCHANGED <<be, sesOnly>>

(***************************************************************************)
(* The native job: a load, or a generation.                                *)
(***************************************************************************)
Go(label) == w' = [w EXCEPT !.at = label]
Over == w' = NoJob
\* A job that raises: only the first loss of the device is recovered from.
Raise(error) == IF error = "lost" /\ w.job = "generate" /\ ~w.again THEN Go("recover") ELSE Over
Set(field, value) == [be EXCEPT ![w.mine][field] = value]
wOnly == <<current, kind, ses, swap, canceller, stop, countVars>>

\* close() by the job, and what it does next.
CloseMine(fields, after, then, error) ==
  /\ Closed("worker", w.mine, after)
  /\ be' = [be EXCEPT ![w.mine] = [fields EXCEPT !.proc = None]]
  /\ w' = [w EXCEPT !.at = "closing", !.then = then, !.error = error]

AfterClose ==
  /\ w.at = "closing" /\ shut["worker"].at = "idle"
  /\ IF w.then = "idle" THEN Raise(w.error) ELSE Go(w.then)
  /\ UNCHANGED <<be, shut, wOnly>>

Begin ==
  /\ w.at = "idle" /\ stop = "no" /\ requests < MaxRequests /\ requests' = requests + 1
  /\ \E job \in {"load", "generate"} : w' = [w EXCEPT !.at = "qualify", !.job = job]
  /\ UNCHANGED <<current, kind, be, ses, shut, swap, canceller, stop, acts>>

\* The placeholder has no state: the backend that takes its place takes its number.
Qualify ==
  /\ w.at = "qualify"
  /\ IF kind[current] # "pending" THEN Go("take") /\ UNCHANGED kind
     ELSE \/ kind' = [kind EXCEPT ![current] = "intel"] /\ Go("take")
          \/ Over /\ UNCHANGED kind   \* the probe finds no device
  /\ UNCHANGED <<current, be, ses, shut, swap, canceller, stop, countVars>>

\* A CPU backend does the job (RagService); a placeholder cannot.
TakeBackend ==
  /\ w.at = "take"
  /\ IF kind[current] = "intel" THEN w' = [w EXCEPT !.at = "ensure", !.mine = current] ELSE Over
  /\ UNCHANGED <<be, shut, wOnly>>

\* ensure_loaded, called by the job, by generate() and by each count_tokens().
EnsureLoaded ==
  /\ w.at = "ensure" /\ Loaded(w.mine)
  /\ IF w.back # "job" THEN Go(w.back) ELSE IF w.job = "generate" THEN Go("start") ELSE Over
  /\ UNCHANGED <<be, shut, wOnly>>

\* The model or the executable is missing: raised before anything is touched.
EnsureRefused ==
  /\ w.at = "ensure" /\ ~Loaded(w.mine)
  /\ IF w.back = "job" THEN Raise("other") ELSE Go("failed")
  /\ UNCHANGED <<be, shut, wOnly>>

\* Faulty: a backend that is not loaded is taken to have no process.
ReloadBeside ==
  /\ w.at = "ensure" /\ ~Loaded(w.mine)
  /\ Go("prepare")
  /\ UNCHANGED <<be, shut, wOnly>>

EnsureReload ==
  /\ w.at = "ensure" /\ ~Loaded(w.mine)
  /\ CloseMine(be[w.mine], "unloaded", "prepare", "none")
  /\ UNCHANGED wOnly

Prepare ==
  /\ w.at = "prepare"
  /\ be' = [be EXCEPT ![w.mine] = [@ EXCEPT !.state = "loading", !.open = TRUE,
              !.confirmed = FALSE, !.lost = FALSE, !.loadCancel = FALSE, !.hit = FALSE]]
  /\ canceller' = [canceller EXCEPT !.stale = @ \/ canceller.of = w.mine]
  /\ Go("announce")
  /\ UNCHANGED <<current, kind, ses, shut, swap, stop, countVars>>

Announce ==
  /\ w.at = "announce" /\ be' = Set("loading", TRUE)
  /\ Go("spawn")
  /\ UNCHANGED <<shut, wOnly>>

\* The except of ensure_loaded: the device that was lost explains any error.
LoadFails(cancelled) ==
  LET lost == be[w.mine].lost IN
  /\ CloseMine([be[w.mine] EXCEPT !.loading = FALSE,
                  !.state = IF cancelled \/ lost THEN "unloaded" ELSE "failed"],
               IF lost THEN "lost" ELSE "kept", IF w.back = "job" THEN "idle" ELSE "failed",
               IF lost THEN "lost" ELSE "other")
  /\ UNCHANGED wOnly

\* Faulty: the event is cleared when the process starts.
SpawnClearing ==
  /\ w.at = "spawn"
  /\ \E s \in Unused :
       /\ \A t \in Unused : s <= t
       /\ ses' = [ses EXCEPT ![s].phase = "starting", ![s].of = w.mine]
       /\ be' = [be EXCEPT ![w.mine].proc = s, ![w.mine].loadCancel = FALSE]
  /\ Go("attach")
  /\ UNCHANGED <<current, kind, shut, swap, canceller, stop, countVars>>

Spawn ==
  /\ w.at = "spawn"
  /\ \E s \in Unused :
       /\ \A t \in Unused : s <= t
       /\ ses' = [ses EXCEPT ![s].phase = "starting", ![s].of = w.mine]
       /\ be' = Set("proc", s)
  /\ Go("attach")
  /\ UNCHANGED <<current, kind, shut, swap, canceller, stop, countVars>>

\* The log of the process that the field names by now.
Attach ==
  /\ w.at = "attach" /\ be[w.mine].proc # None
  /\ ses' = [ses EXCEPT ![be[w.mine].proc].reader = "on"]
  /\ be' = Set("reader", be[w.mine].proc)
  /\ Go("poll")
  /\ UNCHANGED <<current, kind, shut, swap, canceller, stop, countVars>>

Ready ==
  /\ w.at = "poll" /\ ~be[w.mine].loadCancel /\ be[w.mine].open
  /\ be[w.mine].proc # None /\ ses[be[w.mine].proc].phase \in {"ready", "broken"}
  /\ be[w.mine].confirmed
  /\ Go("proven")
  /\ UNCHANGED <<be, shut, wOnly>>

SetLoaded ==
  /\ w.at = "proven"
  /\ be' = [be EXCEPT ![w.mine].state = "loaded", ![w.mine].loading = FALSE]
  /\ Go("ensure")
  /\ UNCHANGED <<shut, wOnly>>

\* Faulty: a sidecar that is never ready is waited for.
WaitForReady ==
  \/ w.at = "spawn" /\ LoadFails(FALSE)
  \/ w.at = "poll" /\ ~Alive(be[w.mine].proc) /\ LoadFails(FALSE)
  \/ w.at = "attach" /\ be[w.mine].proc = None /\ LoadFails(FALSE)
  \/ w.at = "poll" /\ be[w.mine].loadCancel /\ LoadFails(TRUE)

\* popen raises; the process was taken away or has exited; the port is gone;
\* no proof when it is ready; the timeout.
LoadStops ==
  \/ w.at \in {"spawn", "poll"} /\ LoadFails(FALSE)
  \/ w.at = "attach" /\ be[w.mine].proc = None /\ LoadFails(FALSE)
  \/ w.at = "poll" /\ be[w.mine].loadCancel /\ LoadFails(TRUE)

Start ==
  /\ w.at = "start" /\ be' = Set("cancel", FALSE)
  /\ w' = [w EXCEPT !.at = "activate", !.tainted = FALSE]
  /\ UNCHANGED <<shut, wOnly>>

Activate ==
  /\ w.at = "activate" /\ be' = Set("generating", TRUE)
  /\ Go(IF Alive(be[w.mine].proc) /\ be[w.mine].open THEN "stream" ELSE "failed")
  /\ UNCHANGED <<shut, wOnly>>

\* The tokens of the raw content are counted before the device is looked at.
StreamEnds ==
  /\ w.at = "stream"
  /\ \/ w' = [w EXCEPT !.at = "ensure", !.back = "verify"]
     \/ Go("verify") \/ Go("failed")
  /\ UNCHANGED <<be, shut, wOnly>>

StreamCancelled ==
  /\ w.at = "stream" /\ be[w.mine].cancel /\ be' = Set("generating", FALSE)
  /\ Over
  /\ UNCHANGED <<shut, wOnly>>

Verify ==
  /\ w.at = "verify"
  /\ IF be[w.mine].lost THEN Go("failed")
     ELSE w' = [w EXCEPT !.at = "ensure", !.back = "answer"] \/ Go("answer")
  /\ UNCHANGED <<be, shut, wOnly>>

Answer ==
  /\ w.at = "answer" /\ be' = Set("generating", FALSE)
  /\ Over
  /\ UNCHANGED <<shut, wOnly>>

\* The except of generate(): a lost device and a lost connection close the sidecar.
GenerateFails ==
  LET fields == [be[w.mine] EXCEPT !.generating = FALSE] IN
  /\ w.at = "failed"
  /\ IF be[w.mine].lost THEN CloseMine(fields, "lost", "idle", "lost")
     ELSE \/ CloseMine(fields, "unloaded", "idle", "other")
          \/ be' = Set("generating", FALSE) /\ Raise("other") /\ UNCHANGED shut
  /\ UNCHANGED wOnly

\* At most one recovery, and only of the backend that is still the current one.
Recover ==
  /\ w.at = "recover"
  /\ IF current # w.mine \/ Fresh = {} THEN Over /\ UNCHANGED <<current, kind, be, shut>>
     ELSE \E b \in Fresh :
            /\ \A c \in Fresh : b <= c
            /\ current' = b
            /\ Closed("worker", w.mine, "unloaded") /\ be' = Without(w.mine)
            /\ \/ /\ kind' = [kind EXCEPT ![b] = "intel"]
                  /\ w' = [w EXCEPT !.at = "closing", !.then = "ensure", !.back = "job",
                             !.again = TRUE, !.mine = b]
               \/ /\ kind' = [kind EXCEPT ![b] = "pending"]   \* it cannot load
                  /\ w' = [w EXCEPT !.at = "closing", !.then = "idle", !.error = "other"]
  /\ UNCHANGED <<ses, swap, canceller, stop, countVars>>

Worker ==
  \/ AfterClose \/ Qualify \/ TakeBackend \/ EnsureLoaded \/ EnsureRefused \/ EnsureReload
  \/ Prepare \/ Announce \/ Spawn \/ Attach \/ Ready \/ SetLoaded \/ LoadStops
  \/ Start \/ Activate \/ StreamEnds \/ StreamCancelled \/ Verify \/ Answer
  \/ GenerateFails \/ Recover

(***************************************************************************)
(* The other threads: a cancel request, the replacement of the backend,    *)
(* the end of the client.                                                  *)
(***************************************************************************)
\* request_load_cancel looks, then sets; without a load it is the generation's.
LookForCancel ==
  /\ canceller.of = None /\ stop = "no" /\ Act
  /\ IF be[current].loading
     THEN canceller' = [of |-> current, stale |-> FALSE] /\ UNCHANGED be
     ELSE /\ be[current].generating
          /\ be' = [be EXCEPT ![current].cancel = TRUE] /\ UNCHANGED canceller
  /\ UNCHANGED <<current, kind, ses, w, shut, swap, stop>>

SetLoadCancel ==
  LET b == canceller.of IN
  /\ b # None /\ canceller' = [of |-> None, stale |-> FALSE]
  /\ be' = [be EXCEPT ![b].loadCancel = TRUE,
              ![b].hit = @ \/ (be[b].loading /\ ~canceller.stale)]
  /\ UNCHANGED <<current, kind, ses, w, shut, swap, stop, countVars>>

MakeReplacement ==
  /\ swap = None /\ shut["swap"].at = "idle" /\ stop = "no" /\ Act
  /\ \E b \in Fresh, k \in Made :
       /\ \A c \in Fresh : b <= c
       /\ kind' = [kind EXCEPT ![b] = k] /\ swap' = b
  /\ UNCHANGED <<current, be, ses, w, shut, canceller, stop>>

CommitReplacement ==
  /\ swap # None /\ current' = swap /\ swap' = None
  /\ Closed("swap", current, "unloaded") /\ be' = Without(current)
  /\ UNCHANGED <<kind, ses, w, canceller, stop, countVars>>

\* The executor's job is waited for, the job of the startup thread is not: a
\* job may or may not run when the backend is closed.
StopClient ==
  /\ stop = "no" /\ Act /\ stop' = "closing"
  /\ Closed("stop", current, "unloaded") /\ be' = Without(current)
  /\ UNCHANGED <<current, kind, ses, w, swap, canceller>>

Next ==
  \/ Begin \/ Worker \/ Retry
  \/ \E c \in Closers : Kill(c) \/ Joined(c)
  \/ \E s \in Sessions : Native(s) \/ ReadProof(s) \/ ReadLoss(s)
                         \/ ReadLine(s) \/ ReadEnd(s)
  \/ LookForCancel \/ SetLoadCancel \/ MakeReplacement \/ CommitReplacement
  \/ StopClient

Spec == Init /\ [][Next]_vars

\* Threads run, timeouts elapse; a sidecar and the people at the screen need not act.
Fairness ==
  /\ WF_vars(Worker)
  /\ \A c \in Closers : WF_vars(Kill(c)) /\ WF_vars(Joined(c))
  /\ \A s \in Sessions : WF_vars(ReadProof(s) \/ ReadLoss(s) \/ ReadEnd(s))
FairSpec == Spec /\ Fairness

(***************************************************************************)
(* Properties                                                              *)
(***************************************************************************)
\* The manager refers to the backend and the client has not begun to end: a retry, a
\* replacement or the shutdown will close it.
Managed(b) == b = current /\ stop = "no"

\* The job has taken the backend and closes it if it fails.
WorkedOn(b) == w.at \notin {"idle", "qualify", "take"} /\ w.mine = b

\* A sidecar that runs and that nobody will close: no close() has taken it, and it
\* is not the process of a backend that somebody still refers to.
Stray(s) ==
  /\ Alive(s)
  /\ \A c \in Closers : shut[c].at = "taken" => shut[c].proc # s
  /\ be[ses[s].of].proc = s => ~Managed(ses[s].of) /\ ~WorkedOn(ses[s].of)

\* A sidecar is left running in one way only: the job that worked on its backend
\* ends after the manager has replaced that backend or the client has begun to
\* end.  That it happens is RetiredStaysClosed, below.  No close(), replacement,
\* recovery or reload loses a process, whatever it meets.
OnlyAJobLeavesASidecar ==
  [][\A s \in Sessions : Stray(s)' =>
       \/ Stray(s)
       \/ WorkedOn(ses[s].of) /\ be[ses[s].of].proc = s /\ w'.at = "idle"]_vars

\* A cancel that found a load running is not forgotten while that load runs
\* (ensure_loaded clears the event before it announces the load).
CancelReachesItsLoad ==
  \A b \in Backends : be[b].hit /\ be[b].loading => be[b].loadCancel

\* A job on the device ends, whatever becomes of the sidecar and whoever closes
\* the backend meanwhile (poll loop, stream, close, one recovery).
JobsEnd == w.at # "idle" ~> w.at = "idle"

\* What the repository says and the code does not keep; TLC finds both statements
\* violated. The README describes each disagreement.

\* An answer is not made on a device that was found lost while it streamed
\* (the comment of _record_native_failure: generate tears everything down).
LostDeviceNeverAnswers == w.at = "answer" => ~w.tainted

\* When no job and no close() runs, a backend that was replaced has no sidecar
\* (test_model_switch_does_not_resurrect_stale_backend).
RetiredStaysClosed ==
  w.at = "idle" /\ (\A c \in Closers : shut[c].at = "idle") =>
    \A s \in Sessions : Alive(s) => ses[s].of = current
=============================================================================
