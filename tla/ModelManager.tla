---------------------------- MODULE ModelManager ----------------------------
(***************************************************************************)
(* Local models of the client: ModelManager (model_manager.py) with the    *)
(* settings file (axp_core/runtime.py), the controller it configures       *)
(* (InferenceRuntimeManager), the benchmark and qualification runners, and *)
(* the two other writers of settings.json: the tray and a failing disk.    *)
(*                                                                         *)
(* A part file is "prefix" (bytes of the right file, perhaps none of       *)
(* them), "whole", "bad", or "tail" (the end of the right file without its *)
(* start).  The lane of RagService is held by at most one transaction or   *)
(* by chat.  An Intel GPU with its runtime is taken to be there.           *)
(***************************************************************************)
EXTENDS Integers, FiniteSets

CONSTANTS
  Models, NoModel,
  Handlers,      \* request threads of the HTTP server
  Nobody,
  Missing,       \* no settings file
  MaxRequests,   \* administration requests
  MaxJobs,       \* downloads started
  MaxTrials,     \* benchmarks and qualifications started
  MaxFaults      \* crashes, failed writes and reads, saves of the tray

ASSUME ManagerAssumption ==
  /\ NoModel \notin Models
  /\ Nobody \notin Handlers /\ Handlers \cap {"chat", "download"} = {}
  /\ Nobody \notin {"chat", "download"}
  /\ {MaxRequests, MaxJobs, MaxTrials, MaxFaults} \subseteq Nat

Devices == {"auto", "cpu"}
Choice == [model : Models \union {NoModel}, device : Devices]
Fresh == [model |-> NoModel, device |-> "auto"]   \* DEFAULT_SETTINGS
ASSUME MissingAssumption == Missing \notin Choice

VARIABLES
  part, gguf, manifest,   \* files per model
  settings, bak,          \* settings.json and settings.json.bak
  running,                \* the controller's settings: what answers
  up,                     \* the client process runs
  txn,                    \* the transaction in the lane
  hand,                   \* a request past its checks, per handler
  job, jobs, cancel,      \* downloads, how many, the shared cancel event
  trial, trials,          \* benchmark and qualification runners
  tray,                   \* the settings the tray read when it started
  outside,                \* ghost: something else than activate or
                          \* set_device changed settings or runtime
  requests, faults

diskVars == <<part, gguf, manifest>>
bounds == <<requests, faults>>
vars == <<part, gguf, manifest, settings, bak, running, up, txn, hand, job, jobs,
          cancel, trial, trials, tray, outside, requests, faults>>

Active == {"queued", "connecting", "downloading", "verifying", "installing",
           "manifest", "activating"}
Borrowed == {"cpu", "intel", "over", "models", "restore"}
Quiet == [by |-> Nobody, op |-> "none", at |-> "none", old |-> Fresh, new |-> Fresh]
NoHand == [op |-> "none", arg |-> Fresh]
NoJob == [at |-> "none", model |-> NoModel, seen |-> "none", activate |-> FALSE]
NoTrial == [at |-> "none", kind |-> "none", cancel |-> FALSE, saw |-> Fresh, left |-> {}]

TypeOK ==
  /\ part \in [Models -> {"none", "prefix", "whole", "bad", "tail"}]
  /\ gguf \in [Models -> {"none", "verified", "unverified"}]
  /\ manifest \in [Models -> BOOLEAN]
  /\ settings \in Choice \union {Missing} /\ bak \in Choice \union {Missing}
  /\ running \in Choice /\ tray \in Choice /\ up \in BOOLEAN
  /\ txn \in [by : Handlers \union {"chat", "download", Nobody},
              op : {"none", "chat", "activate", "device", "benchmark", "qualify"},
              at : {"none", "begin", "bak", "file", "commit", "undo", "undoFile", "revert"},
              old : Choice, new : Choice]
  /\ hand \in [Handlers -> [op : {"none", "activate", "device", "remove", "benchmark",
                                  "qualify", "cancel", "inside"}, arg : Choice]]
  /\ job \in [1..MaxJobs -> [at : Active \union {"none", "unlink", "over"},
                             model : Models \union {NoModel},
                             seen : {"none", "prefix", "whole", "bad"}, activate : BOOLEAN]]
  /\ trial \in [1..MaxTrials -> [at : Borrowed \union {"none", "persist", "stuck", "done"},
                                 kind : {"none", "benchmark", "qualify"}, cancel : BOOLEAN,
                                 saw : Choice, left : SUBSET Models]]
  /\ jobs \in 0..MaxJobs /\ trials \in 0..MaxTrials
  /\ cancel \in BOOLEAN /\ outside \in BOOLEAN
  /\ requests \in 0..MaxRequests /\ faults \in 0..MaxFaults

Init ==
  /\ part = [m \in Models |-> "none"]
  /\ \E have \in SUBSET Models :
       /\ gguf = [m \in Models |-> IF m \in have THEN "verified" ELSE "none"]
       /\ manifest = [m \in Models |-> m \in have]
       /\ settings \in {c \in Choice : c.device = "auto" /\ c.model \in have \union {NoModel}}
  /\ bak = Missing /\ running = settings /\ tray = settings
  /\ up = TRUE /\ txn = Quiet
  /\ hand = [h \in Handlers |-> NoHand]
  /\ job = [j \in 1..MaxJobs |-> NoJob] /\ jobs = 0 /\ cancel = FALSE
  /\ trial = [i \in 1..MaxTrials |-> NoTrial] /\ trials = 0
  /\ outside = FALSE /\ requests = 0 /\ faults = 0

Current(i, kind) == trial[i].kind = kind /\ \A k \in 1..MaxTrials : trial[k].kind = kind => k <= i
QualificationActive == \E i \in 1..MaxTrials :
  Current(i, "qualify") /\ trial[i].at \in {"models", "restore", "persist", "stuck"}
BenchmarkActive == \E i \in 1..MaxTrials :
  Current(i, "benchmark") /\ trial[i].at \in {"cpu", "intel"}
Downloading == \E j \in 1..MaxJobs : job[j].at \in Active
Installed(m) == gguf[m] # "none"

Fault == faults < MaxFaults /\ faults' = faults + 1

(***************************************************************************)
(* load_settings gives c.  A file that cannot be read is moved away and    *)
(* the backup is taken; only a value that differs from what was read is    *)
(* written again, so a recovered backup is not.                            *)
(***************************************************************************)
Load(c) ==
  /\ \/ settings \in Choice /\ c = settings /\ UNCHANGED <<settings, faults>>
     \/ settings = Missing /\ c = Fresh /\ settings' = Fresh /\ UNCHANGED faults
     \/ settings \in Choice /\ Fault
        /\ IF bak \in Choice THEN c = bak /\ settings' = Missing
                             ELSE c = Fresh /\ settings' = Fresh
  /\ outside' = (outside \/ settings' # settings)

Poll ==   \* catalog() and every other reader, the daemon's too
  /\ \E c \in Choice : Load(c)
  /\ UNCHANGED <<diskVars, bak, running, up, txn, hand, job, jobs, cancel, trial, trials,
                 tray, requests>>

(***************************************************************************)
(* Requests: the checks made before the lane is asked for.                 *)
(***************************************************************************)
Accept(h, op, c) ==
  /\ up /\ hand[h].op = "none" /\ requests < MaxRequests /\ requests' = requests + 1
  /\ hand' = [hand EXCEPT ![h] = [op |-> op, arg |-> c]]

Plain == UNCHANGED <<settings, faults, outside>>
Rest == UNCHANGED <<diskVars, bak, running, up, txn, job, jobs, cancel, trial, trials, tray>>

AskActivate(h) == \E m \in Models :
  /\ ~QualificationActive /\ Installed(m) /\ manifest[m]
  /\ Accept(h, "activate", [Fresh EXCEPT !.model = m]) /\ Plain /\ Rest

AskDevice(h) == \E d \in Devices :
  /\ ~QualificationActive
  /\ Accept(h, "device", [Fresh EXCEPT !.device = d]) /\ Plain /\ Rest

AskRemove(h) == \E m \in Models, c \in Choice :
  /\ ~QualificationActive /\ Load(c) /\ c.model # m
  /\ Accept(h, "remove", [Fresh EXCEPT !.model = m]) /\ Rest

AskBenchmark(h) == \E c \in Choice :
  /\ ~QualificationActive /\ Load(c)
  /\ c.model # NoModel /\ Installed(c.model)
  /\ Accept(h, "benchmark", c) /\ Rest

AskQualify(h) == \E c \in Choice :
  /\ ~QualificationActive /\ ~BenchmarkActive /\ ~Downloading
  /\ Load(c) /\ Accept(h, "qualify", c) /\ Rest

\* start_download, under _lock.
AskDownload(h) == \E m \in Models, a \in BOOLEAN :
  /\ up /\ hand[h].op = "none" /\ requests < MaxRequests /\ requests' = requests + 1
  /\ ~QualificationActive /\ ~Downloading /\ jobs < MaxJobs
  /\ jobs' = jobs + 1 /\ cancel' = FALSE
  /\ job' = [job EXCEPT ![jobs + 1] = [at |-> "queued", model |-> m, seen |-> "none", activate |-> a]]
  /\ Plain
  /\ UNCHANGED <<diskVars, bak, running, up, txn, hand, trial, trials, tray>>

\* cancel: the job is looked at, and the event set, without _lock.
AskCancel(h) ==
  /\ Downloading
  /\ Accept(h, "cancel", Fresh) /\ Plain /\ Rest

CancelTrial(h) == \E i \in 1..MaxTrials :
  /\ up /\ hand[h].op = "none" /\ requests < MaxRequests /\ requests' = requests + 1
  /\ Current(i, trial[i].kind)
  /\ trial[i].at \in {"cpu", "intel", "models", "restore", "persist"} /\ ~trial[i].cancel
  /\ trial' = [trial EXCEPT ![i].cancel = TRUE]
  /\ Plain
  /\ UNCHANGED <<diskVars, bak, running, up, txn, hand, job, jobs, cancel, trials, tray>>

(***************************************************************************)
(* Requests: the deed.                                                     *)
(***************************************************************************)
SetCancel(h) ==
  /\ hand[h].op = "cancel" /\ cancel' = TRUE
  /\ hand' = [hand EXCEPT ![h] = NoHand]
  /\ Plain
  /\ UNCHANGED <<diskVars, bak, running, up, txn, job, jobs, trial, trials, tray, requests>>

\* rmtree takes the files in any order and may stop half way (an open file).
Remove(h) ==
  LET m == hand[h].arg.model IN
  /\ hand[h].op = "remove"
  /\ gguf' \in {gguf, [gguf EXCEPT ![m] = "none"]}
  /\ manifest' \in {manifest, [manifest EXCEPT ![m] = FALSE]}
  /\ hand' = [hand EXCEPT ![h] = NoHand]
  /\ Plain
  /\ UNCHANGED <<part, bak, running, up, txn, job, jobs, cancel, trial, trials, tray, requests>>

\* run_when_idle: the lane, or chat_busy.
Enter(h) ==
  /\ hand[h].op \in {"activate", "device", "benchmark", "qualify"}
  /\ \/ /\ txn.by = Nobody
        /\ txn' = [by |-> h, op |-> hand[h].op, at |-> "begin", old |-> Fresh, new |-> hand[h].arg]
        /\ hand' = [hand EXCEPT ![h].op = "inside"]
     \/ /\ txn.by # Nobody /\ hand' = [hand EXCEPT ![h] = NoHand] /\ UNCHANGED txn
  /\ Plain
  /\ UNCHANGED <<diskVars, bak, running, up, job, jobs, cancel, trial, trials, tray, requests>>

Chat ==
  /\ up
  /\ \/ txn.by = Nobody /\ txn' = [Quiet EXCEPT !.by = "chat", !.op = "chat"]
     \/ txn.by = "chat" /\ txn' = Quiet
  /\ Plain
  /\ UNCHANGED <<diskVars, bak, running, up, hand, job, jobs, cancel, trial, trials, tray, requests>>

(***************************************************************************)
(* Transactions in the lane.                                               *)
(***************************************************************************)
Leave(result) ==
  /\ txn' = Quiet
  /\ hand' = [h \in Handlers |-> IF h = txn.by THEN NoHand ELSE hand[h]]
  /\ job' = IF txn.by = "download" THEN [job EXCEPT ![jobs].at = result] ELSE job
Move(at) == txn' = [txn EXCEPT !.at = at] /\ UNCHANGED <<hand, job>>
\* InferenceRuntimeManager.commit_activation
Commit(c) == running' = c
Kept == UNCHANGED <<diskVars, up, jobs, cancel, tray, requests>>

BeginActivate ==
  /\ txn.op = "activate" /\ txn.at = "begin"
  /\ \E c \in Choice : /\ Load(c)
                       /\ txn' = [txn EXCEPT !.old = c, !.new = [c EXCEPT !.model = txn.new.model],
                                             !.at = "bak"]
  /\ UNCHANGED <<bak, running, hand, job, trial, trials>>

BeginDevice ==
  /\ txn.op = "device" /\ txn.at = "begin"
  /\ \E c \in Choice : /\ Load(c)
                       /\ txn' = [txn EXCEPT !.old = c, !.new = [c EXCEPT !.device = txn.new.device],
                                             !.at = "bak"]
  /\ Commit([running EXCEPT !.device = txn.new.device])
  /\ UNCHANGED <<bak, hand, job, trial, trials>>

\* save_settings: the valid previous file becomes the backup first.
SaveBackup ==
  /\ txn.at \in {"bak", "undo"}
  /\ bak' = IF settings \in Choice THEN settings ELSE bak
  /\ Move(IF txn.at = "bak" THEN "file" ELSE "undoFile")
  /\ UNCHANGED <<settings, running, trial, trials, faults, outside>>

SaveFile ==
  /\ txn.at = "file" /\ settings' = txn.new
  /\ IF txn.op = "activate" THEN Move("commit") ELSE Leave("over")
  /\ UNCHANGED <<bak, running, trial, trials, faults, outside>>

UndoFile ==
  /\ txn.at = "undoFile" /\ settings' = txn.old /\ Leave("over")
  /\ UNCHANGED <<bak, running, trial, trials, faults, outside>>

CommitActivation ==
  /\ txn.at = "commit" /\ Commit(txn.new) /\ Leave("over")
  /\ UNCHANGED <<settings, bak, trial, trials, faults, outside>>

\* Preparing the backend or a write of save_settings raises.
TransactionFails ==
  /\ \/ txn.at \in {"bak", "file"} /\ Move(IF txn.op = "activate" THEN "undo" ELSE "revert")
     \/ txn.at \in {"undo", "undoFile"} /\ Leave("over")
  /\ Fault
  /\ UNCHANGED <<settings, bak, running, trial, trials, outside>>

\* Faulty: the file was not written, so nothing is put back.
KeepDevice ==
  /\ txn.at = "revert" /\ Leave("over")
  /\ UNCHANGED <<settings, bak, running, trial, trials, faults, outside>>

RevertDevice ==
  /\ txn.at = "revert" /\ Leave("over")
  /\ Commit([running EXCEPT !.device = txn.old.device])
  /\ UNCHANGED <<settings, bak, trial, trials, faults, outside>>

\* A new runner replaces the current one, which may still be at work.
BeginTrial ==
  /\ txn.op \in {"benchmark", "qualify"} /\ trials < MaxTrials
  /\ trials' = trials + 1
  /\ trial' = [trial EXCEPT ![trials + 1] =
       [at |-> IF txn.op = "benchmark" THEN "cpu" ELSE "models", kind |-> txn.op,
        cancel |-> FALSE, saw |-> txn.new, left |-> IF txn.op = "qualify" THEN Models ELSE {}]]
  /\ Leave("over")
  /\ UNCHANGED <<settings, bak, running, faults, outside>>

Transaction ==
  /\ Kept
  /\ \/ BeginActivate \/ BeginDevice \/ SaveBackup \/ SaveFile \/ UndoFile
     \/ CommitActivation \/ TransactionFails \/ RevertDevice \/ BeginTrial

(***************************************************************************)
(* The download thread.                                                    *)
(***************************************************************************)
Part(j) == part[job[j].model]
SetPart(j, p) == part' = [part EXCEPT ![job[j].model] = p]
Step(j, at) == job' = [job EXCEPT ![j].at = at]
Fails(j) == Step(j, "over") /\ UNCHANGED <<part, gguf, manifest, txn>>

\* The disk has room; what is there already is hashed.
Prepare(j) ==
  /\ job[j].at = "queued"
  /\ \/ /\ job' = [job EXCEPT ![j].at = "connecting",
                              ![j].seen = IF Part(j) = "tail" THEN "bad" ELSE Part(j)]
        /\ UNCHANGED <<part, gguf, manifest, txn>>
     \/ Fails(j)

\* A Range beyond the end is refused (416).  The file is opened for appending
\* when the server resumes, else started anew.
Connect(j) ==
  /\ job[j].at = "connecting"
  /\ \/ /\ job[j].seen \in {"prefix", "bad"} /\ Step(j, "downloading")
        /\ SetPart(j, IF Part(j) = "none" THEN "tail" ELSE Part(j))
     \/ /\ job[j].seen # "whole" /\ SetPart(j, "prefix")
        /\ job' = [job EXCEPT ![j].at = "downloading", ![j].seen = "none"]
  /\ UNCHANGED <<gguf, manifest, txn>>

\* The loop over the response ends: all bytes, fewer, or wrong ones.
Transfer(j) == \E got \in {"whole", "prefix", "bad"} :
  LET seen == IF job[j].seen = "bad" THEN "bad" ELSE got IN
  /\ job[j].at = "downloading"
  /\ job' = [job EXCEPT ![j].at = "verifying", ![j].seen = seen]
  /\ SetPart(j, IF Part(j) \in {"none", "tail"} THEN Part(j) ELSE seen)
  /\ UNCHANGED <<gguf, manifest, txn>>

\* The cancel event, or an error of the network, on the way.
Interrupted(j) ==
  /\ job[j].at \in {"connecting", "downloading"} /\ Fails(j)

\* Faulty: the header of the file is not looked at.
VerifyDigest(j) ==
  /\ job[j].at = "verifying"
  /\ Step(j, IF job[j].seen # "whole" THEN "unlink"
             ELSE IF Part(j) = "none" THEN "over" ELSE "installing")
  /\ UNCHANGED <<part, gguf, manifest, txn>>

\* Size and digest are of the bytes seen, the header is of the file.
Verify(j) ==
  /\ job[j].at = "verifying"
  /\ Step(j, IF job[j].seen # "whole" \/ Part(j) = "tail" THEN "unlink"
             ELSE IF Part(j) = "none" THEN "over" ELSE "installing")
  /\ UNCHANGED <<part, gguf, manifest, txn>>

\* The job has failed and may be followed by another; its part is deleted
\* now, unless the next job has it open (Windows).
Unlink(j) ==
  /\ job[j].at = "unlink" /\ Step(j, "over")
  /\ \/ SetPart(j, "none")
     \/ /\ \E k \in 1..MaxJobs : job[k].at = "downloading" /\ job[k].model = job[j].model
        /\ UNCHANGED part
  /\ UNCHANGED <<gguf, manifest, txn>>

Install(j) ==
  /\ job[j].at = "installing"
  /\ \/ /\ Part(j) # "none" /\ Step(j, "manifest") /\ SetPart(j, "none")
        /\ gguf' = [gguf EXCEPT ![job[j].model] = IF Part(j) = "whole" THEN "verified" ELSE "unverified"]
        /\ UNCHANGED <<manifest, txn>>
     \/ Fails(j)   \* the target is mapped, or the part is gone

WriteManifest(j) ==
  /\ job[j].at = "manifest"
  /\ \/ /\ Step(j, IF job[j].activate THEN "activating" ELSE "over")
        /\ manifest' = [manifest EXCEPT ![job[j].model] = TRUE]
        /\ UNCHANGED <<part, gguf, txn>>
     \/ Fails(j)

\* activate(): refused, or the lane is taken.
ActivateInstalled(j) ==
  /\ job[j].at = "activating" /\ txn.by # "download"
  /\ IF ~QualificationActive /\ Installed(job[j].model) /\ manifest[job[j].model] /\ txn.by = Nobody
     THEN /\ txn' = [by |-> "download", op |-> "activate", at |-> "begin", old |-> Fresh,
                     new |-> [Fresh EXCEPT !.model = job[j].model]]
          /\ UNCHANGED <<job, part, gguf, manifest>>
     ELSE Fails(j)

Download(j) ==
  /\ \/ Prepare(j) \/ Connect(j) \/ Transfer(j) \/ Interrupted(j) \/ Verify(j) \/ Unlink(j)
     \/ Install(j) \/ WriteManifest(j) \/ ActivateInstalled(j)
  /\ UNCHANGED <<settings, bak, running, up, hand, jobs, cancel, trial, trials, tray, outside, bounds>>

(***************************************************************************)
(* Benchmark and qualification threads.                                    *)
(***************************************************************************)
At(i, at) == trial' = [trial EXCEPT ![i].at = at]
Same == UNCHANGED <<running, outside, faults>>

\* A phase ends well, is cancelled, or raises.
Measure(i) ==
  /\ \/ trial[i].at = "cpu" /\ \E at \in {"intel", "over"} : At(i, at)
     \/ trial[i].at = "intel" /\ At(i, "over")
  /\ Same

\* Faulty: it activates what the file says now, without the recovery.
RestoreRaw(i) ==
  /\ trial[i].kind = "benchmark" /\ trial[i].at = "over" /\ At(i, "done")
  /\ running' = settings
  /\ outside' = (outside \/ running' # running) /\ UNCHANGED faults

\* The restore thread polls the state and activates what it saw, outside the
\* lane; a failure to build the backend is logged.
RestoreBenchmark(i) ==
  /\ trial[i].kind = "benchmark" /\ trial[i].at = "over" /\ At(i, "done")
  /\ running' \in {running, trial[i].saw}
  /\ outside' = (outside \/ running' # running) /\ UNCHANGED faults

\* Faulty: a cancellation skips the models and does not end the run.
QualifyOn(i) ==
  /\ trial[i].at = "models"
  /\ \/ \E m \in trial[i].left : /\ ~trial[i].cancel \/ ~Installed(m)
                                 /\ trial' = [trial EXCEPT ![i].left = @ \ {m}]
     \/ At(i, "restore") /\ trial[i].left = {}
  /\ Same

\* One model after the other; a cancellation is seen before each one.
Qualify(i) ==
  /\ trial[i].at = "models"
  /\ \/ \E m \in trial[i].left : /\ ~trial[i].cancel \/ ~Installed(m)
                                 /\ trial' = [trial EXCEPT ![i].left = @ \ {m}]
     \/ At(i, "restore") /\ (trial[i].left = {} \/ trial[i].cancel)
  /\ Same

\* What ran before the qualification comes back, then the report is written,
\* then the job is over; a report that cannot be written ends the thread.
RestoreQualified(i) ==
  /\ trial[i].at = "restore" /\ At(i, "persist")
  /\ running' = IF trial[i].saw.model # NoModel /\ Installed(trial[i].saw.model)
                THEN trial[i].saw ELSE running
  /\ outside' = (outside \/ running' # running) /\ UNCHANGED faults

Persist(i) ==
  /\ trial[i].at = "persist"
  /\ \/ At(i, "done") /\ Same
     \/ At(i, "stuck") /\ Fault /\ UNCHANGED <<running, outside>>

Trial(i) ==
  /\ \/ Measure(i) \/ RestoreBenchmark(i) \/ Qualify(i) \/ RestoreQualified(i) \/ Persist(i)
  /\ UNCHANGED <<diskVars, settings, bak, up, txn, hand, job, jobs, cancel, trials, tray, requests>>

(***************************************************************************)
(* The other process, and the end of this one.                             *)
(***************************************************************************)
\* The tray saves the settings it read when it started.
TrayToggle ==
  /\ Fault
  /\ bak' = IF settings \in Choice THEN settings ELSE bak
  /\ settings' = tray /\ outside' = (outside \/ settings' # settings)
  /\ UNCHANGED <<diskVars, running, up, txn, hand, job, jobs, cancel, trial, trials, tray, requests>>

Crash ==
  /\ up /\ Fault /\ up' = FALSE
  /\ txn' = Quiet /\ hand' = [h \in Handlers |-> NoHand]
  /\ job' = [j \in 1..MaxJobs |-> IF job[j].at = "none" THEN NoJob ELSE [NoJob EXCEPT !.at = "over"]]
  /\ trial' = [i \in 1..MaxTrials |-> NoTrial]
  /\ UNCHANGED <<diskVars, settings, bak, running, jobs, cancel, trials, tray, outside, requests>>

Boot ==
  /\ ~up /\ up' = TRUE
  /\ \E c \in Choice : Load(c) /\ running' = c
  /\ UNCHANGED <<diskVars, bak, txn, hand, job, jobs, cancel, trial, trials, tray, requests>>

Handle(h) == SetCancel(h) \/ Remove(h) \/ Enter(h)
Ask(h) == \/ AskActivate(h) \/ AskDevice(h) \/ AskRemove(h) \/ AskBenchmark(h)
          \/ AskQualify(h) \/ AskDownload(h) \/ AskCancel(h) \/ CancelTrial(h)

Next ==
  \/ \E h \in Handlers : Ask(h) \/ Handle(h)
  \/ \E j \in 1..MaxJobs : Download(j)
  \/ \E i \in 1..MaxTrials : Trial(i)
  \/ Transaction \/ Chat \/ Poll \/ TrayToggle \/ Crash \/ Boot

Spec == Init /\ [][Next]_vars

\* Threads are scheduled; a transfer ends, at the latest by its timeout.
FairSpec == /\ Spec
            /\ \A h \in Handlers : WF_vars(Handle(h))
            /\ \A j \in 1..MaxJobs : WF_vars(Download(j))
            /\ \A i \in 1..MaxTrials : WF_vars(Trial(i))
            /\ WF_vars(Transaction)

(***************************************************************************)
(* Properties.                                                             *)
(***************************************************************************)
\* Only a file whose size, hash and header were right is ever published as
\* model.gguf, whatever was in its part file before (docs/local-models.md:14).
InstalledIsVerified == \A m \in Models : gguf[m] # "unverified"

\* Between transactions the file and the controller agree on model and
\* device, after refused writes and restarts too, as long as only activate
\* and set_device change them.
SelectedIsWhatRuns == up /\ txn.at = "none" /\ ~outside => settings = running

\* Every download ends, and what a benchmark or qualification displaced
\* comes back.
WorkEnds ==
  /\ \A j \in 1..MaxJobs : job[j].at \in Active ~> job[j].at \notin Active
  /\ \A i \in 1..MaxTrials : trial[i].at \in Borrowed ~> trial[i].at \notin Borrowed

\* What the repository says and the code does not keep; TLC finds both statements
\* violated. The README describes each disagreement.

\* Settings recovered from the backup are what the file holds from then on
\* (tests/test_pr41_production_hardening.py:51).
RecoveredSettingsStick ==
  [][settings = Missing /\ bak # Missing /\ settings' # settings => settings' = bak]_vars

\* The file of the model that answers is not removed (docs/local-models.md:41).
ActiveIsKept ==
  [][\A m \in Models : up /\ running.model = m /\ settings = running /\ Installed(m)
                          => gguf'[m] # "none"]_vars
=============================================================================
