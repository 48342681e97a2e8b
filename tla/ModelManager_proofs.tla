------------------------ MODULE ModelManager_proofs ------------------------
(* Proofs about ModelManager.  A step changes the files of one model, one  *)
(* job, one trial, one handler or the transaction: the type invariant goes *)
(* action by action, and the two safety invariants rest on Shape, which    *)
(* says that only the latest download may be at work and that nothing is   *)
(* at work in a client that is down.                                       *)
EXTENDS ModelManager, TLAPS

\* Only the latest job may be active; the transaction of a download is its.
Shape ==
  /\ \A j \in 1..MaxJobs : j < jobs => job[j].at \notin Active
  /\ \A j \in 1..MaxJobs : j > jobs => job[j].at \notin Active
  /\ txn.by \in {"chat", Nobody} => txn.at = "none"
  /\ txn.by = "download" => jobs \in 1..MaxJobs /\ job[jobs].at = "activating"
  /\ ~up => /\ txn = Quiet /\ \A h \in Handlers : hand[h].op = "none"
            /\ \A j \in 1..MaxJobs : job[j].at \notin Active
            /\ \A i \in 1..MaxTrials : trial[i] = NoTrial

\* What a job that passed its checks knows of its part file.
PartsAgree == \A j \in 1..MaxJobs :
  /\ job[j].at = "verifying" /\ job[j].seen = "whole" => part[job[j].model] \in {"whole", "tail", "none"}
  /\ job[j].at = "installing" => part[job[j].model] \in {"whole", "none"}

\* Where settings.json and the controller are within a transaction.
Agree ==
  /\ txn.at \in {"none", "begin"} => settings = running
  /\ txn.at \in {"bak", "file"} /\ txn.op = "activate" => settings = running /\ txn.old = settings
  /\ txn.at \in {"undo", "undoFile"} => settings = running /\ txn.old = settings
  /\ txn.at = "commit" => settings = txn.new
  /\ txn.at \in {"bak", "file"} /\ txn.op # "activate" => running = txn.new /\ settings = txn.old
                                                          /\ running.model = txn.old.model
  /\ txn.at = "revert" => settings = txn.old /\ running.model = txn.old.model
AgreeInv == /\ up /\ ~outside => Agree
            /\ txn.at \in {"undo", "undoFile", "commit"} => txn.op = "activate"
            /\ txn.at \in {"bak", "file", "revert"} => txn.op \in {"activate", "device"}

LEMMA Bounds ==
  /\ MaxRequests \in Nat /\ MaxJobs \in Nat /\ MaxTrials \in Nat /\ MaxFaults \in Nat
  /\ Nobody \notin Handlers \union {"chat", "download"}
  /\ "chat" \notin Handlers /\ "download" \notin Handlers /\ Missing \notin Choice
BY ManagerAssumption, MissingAssumption

LEMMA ChoiceFields ==
  /\ Fresh \in Choice
  /\ \A c \in Choice : c.model \in Models \union {NoModel} /\ c.device \in Devices
  /\ \A c \in Choice, x \in Models \union {NoModel} : [c EXCEPT !.model = x] \in Choice
  /\ \A c \in Choice, d \in Devices : [c EXCEPT !.device = d] \in Choice
BY DEF Fresh, Choice, Devices

\* What load_settings leaves behind.
LEMMA LoadFacts ==
  ASSUME NEW c \in Choice, Load(c), settings \in Choice \union {Missing}, faults \in 0..MaxFaults,
         outside \in BOOLEAN
  PROVE  /\ settings' \in Choice \union {Missing} /\ faults' \in 0..MaxFaults /\ outside' \in BOOLEAN
         /\ ~outside' => ~outside /\ settings' = settings /\ c = settings
<1>1. Missing \notin Choice /\ MaxFaults \in Nat /\ Fresh \in Choice
  BY Bounds, ChoiceFields
<1>2. CASE settings \in Choice /\ c = settings /\ UNCHANGED <<settings, faults>>
  BY <1>1, <1>2 DEF Load
<1>3. CASE settings = Missing /\ c = Fresh /\ settings' = Fresh /\ UNCHANGED faults
  BY <1>1, <1>3 DEF Load
<1>4. CASE settings \in Choice /\ Fault
           /\ IF bak \in Choice THEN c = bak /\ settings' = Missing
                               ELSE c = Fresh /\ settings' = Fresh
  <2>1. faults' \in 0..MaxFaults BY <1>1, <1>4 DEF Fault
  <2>2. outside' = (outside \/ settings' # settings) BY DEF Load
  <2>3. settings' \in Choice \union {Missing} BY <1>1, <1>4
  <2>4. settings' = settings => c = settings BY <1>1, <1>4
  <2>5. outside' \in BOOLEAN BY <2>2
  <2> QED BY <2>1, <2>2, <2>3, <2>4, <2>5
<1> QED BY <1>2, <1>3, <1>4 DEF Load

(***************************************************************************)
(* Type correctness.                                                       *)
(***************************************************************************)
FilesTyped == /\ part \in [Models -> {"none", "prefix", "whole", "bad", "tail"}]
              /\ gguf \in [Models -> {"none", "verified", "unverified"}]
              /\ manifest \in [Models -> BOOLEAN]
              /\ settings \in Choice \union {Missing} /\ bak \in Choice \union {Missing}
              /\ running \in Choice /\ tray \in Choice /\ up \in BOOLEAN
WorkTyped == /\ txn \in [by : Handlers \union {"chat", "download", Nobody},
                          op : {"none", "chat", "activate", "device", "benchmark", "qualify"},
                          at : {"none", "begin", "bak", "file", "commit", "undo", "undoFile", "revert"},
                          old : Choice, new : Choice]
             /\ hand \in [Handlers -> [op : {"none", "activate", "device", "remove", "benchmark",
                                              "qualify", "cancel", "inside"}, arg : Choice]]
JobsTyped == /\ job \in [1..MaxJobs -> [at : Active \union {"none", "unlink", "over"},
                             model : Models \union {NoModel},
                             seen : {"none", "prefix", "whole", "bad"}, activate : BOOLEAN]]
             /\ \A j \in 1..MaxJobs : job[j].at \in Active \union {"unlink"} => job[j].model \in Models
             /\ jobs \in 0..MaxJobs /\ cancel \in BOOLEAN
TrialsTyped == /\ trial \in [1..MaxTrials -> [at : Borrowed \union {"none", "persist", "stuck", "done"},
                                 kind : {"none", "benchmark", "qualify"}, cancel : BOOLEAN,
                                 saw : Choice, left : SUBSET Models]]
               /\ trials \in 0..MaxTrials
CountsTyped == outside \in BOOLEAN /\ requests \in 0..MaxRequests /\ faults \in 0..MaxFaults

Typed == FilesTyped /\ WorkTyped /\ JobsTyped /\ TrialsTyped /\ CountsTyped

LEMMA TypedIsTypeOK == Typed => TypeOK
BY DEF Typed, FilesTyped, WorkTyped, JobsTyped, TrialsTyped, CountsTyped, TypeOK

\* A job moves, and may have looked at its bytes.
LEMMA JobMoves ==
  ASSUME JobsTyped, NEW j \in 1..MaxJobs, NEW at \in Active \union {"unlink", "over"},
         job[j].at \in Active \union {"unlink"} \/ at = "over",
         NEW seen \in {"none", "prefix", "whole", "bad"},
         \/ job' = [job EXCEPT ![j].at = at]
         \/ job' = [job EXCEPT ![j].at = at, ![j].seen = seen],
         UNCHANGED <<jobs, cancel>>
  PROVE  JobsTyped'
<1>1. job' \in [1..MaxJobs -> [at : Active \union {"none", "unlink", "over"},
                             model : Models \union {NoModel},
                             seen : {"none", "prefix", "whole", "bad"}, activate : BOOLEAN]]
  BY DEF JobsTyped
<1>2. job'[j].at = at /\ job'[j].model = job[j].model
  BY ZenonT(40) DEF JobsTyped
<1>3. \A k \in 1..MaxJobs : k # j => job'[k] = job[k]
  BY DEF JobsTyped
<1>4. "over" \notin Active \union {"unlink"} BY DEF Active
<1>5. \A k \in 1..MaxJobs : job'[k].at \in Active \union {"unlink"} => job'[k].model \in Models
  BY <1>2, <1>3, <1>4 DEF JobsTyped
<1> QED BY <1>1, <1>5 DEF JobsTyped

LEMMA InitTyped == Init => Typed
<1> SUFFICES ASSUME Init PROVE Typed OBVIOUS
<1>1. Fresh \in Choice BY ChoiceFields
<1>2. FilesTyped BY <1>1 DEF Init, FilesTyped
<1>3. WorkTyped BY <1>1 DEF Init, WorkTyped, Quiet, NoHand
<1>4. JobsTyped
  <2>1. "none" \notin Active \union {"unlink"} BY DEF Active
  <2>2. \A j \in 1..MaxJobs : job[j] = NoJob /\ job[j].at = "none" BY DEF Init, NoJob
  <2>5. jobs \in 0..MaxJobs BY Bounds DEF Init
  <2>6. cancel \in BOOLEAN BY Zenon DEF Init
  <2>3. jobs \in 0..MaxJobs /\ cancel \in BOOLEAN BY <2>5, <2>6
  <2>4. job \in [1..MaxJobs -> [at : Active \union {"none", "unlink", "over"},
                             model : Models \union {NoModel},
                             seen : {"none", "prefix", "whole", "bad"}, activate : BOOLEAN]]
    BY DEF Init, NoJob
  <2> QED BY <2>1, <2>2, <2>3, <2>4 DEF JobsTyped
<1>5. TrialsTyped BY <1>1, Bounds DEF Init, TrialsTyped, NoTrial
<1>6. CountsTyped
  <2>1. outside \in BOOLEAN BY Zenon DEF Init
  <2>2. requests \in 0..MaxRequests BY Bounds DEF Init
  <2>3. faults \in 0..MaxFaults BY Bounds DEF Init
  <2> QED BY <2>1, <2>2, <2>3 DEF CountsTyped
<1> QED BY <1>2, <1>3, <1>4, <1>5, <1>6 DEF Typed

LEMMA AskActivateTyped ==
  ASSUME NEW h \in Handlers, AskActivate(h), Typed PROVE Typed'
<1> USE DEF Typed
<1>c. PICK m \in Models : Accept(h, "activate", [Fresh EXCEPT !.model = m]) /\ Plain /\ Rest
  BY DEF AskActivate
<1>l. [Fresh EXCEPT !.model = m] \in Choice BY ChoiceFields
<1>1. FilesTyped'
  BY <1>c DEF FilesTyped, diskVars, Rest, Plain, Accept
<1>2. WorkTyped'
  BY <1>c, <1>l DEF WorkTyped, diskVars, Rest, Plain, Accept
<1>3. JobsTyped'
  BY <1>c DEF JobsTyped, diskVars, Rest, Plain, Accept
<1>4. TrialsTyped'
  BY <1>c DEF TrialsTyped, diskVars, Rest, Plain, Accept
<1>5. CountsTyped'
  BY <1>c, Bounds DEF CountsTyped, diskVars, Rest, Plain, Accept
<1> HIDE DEF Typed
<1> QED BY <1>1, <1>2, <1>3, <1>4, <1>5 DEF Typed

LEMMA AskDeviceTyped ==
  ASSUME NEW h \in Handlers, AskDevice(h), Typed PROVE Typed'
<1> USE DEF Typed
<1>c. PICK d \in Devices : Accept(h, "device", [Fresh EXCEPT !.device = d]) /\ Plain /\ Rest
  BY DEF AskDevice
<1>l. [Fresh EXCEPT !.device = d] \in Choice BY ChoiceFields
<1>1. FilesTyped'
  BY <1>c DEF FilesTyped, diskVars, Rest, Plain, Accept
<1>2. WorkTyped'
  BY <1>c, <1>l DEF WorkTyped, diskVars, Rest, Plain, Accept
<1>3. JobsTyped'
  BY <1>c DEF JobsTyped, diskVars, Rest, Plain, Accept
<1>4. TrialsTyped'
  BY <1>c DEF TrialsTyped, diskVars, Rest, Plain, Accept
<1>5. CountsTyped'
  BY <1>c, Bounds DEF CountsTyped, diskVars, Rest, Plain, Accept
<1> HIDE DEF Typed
<1> QED BY <1>1, <1>2, <1>3, <1>4, <1>5 DEF Typed

LEMMA AskRemoveTyped ==
  ASSUME NEW h \in Handlers, AskRemove(h), Typed PROVE Typed'
<1> USE DEF Typed
<1>c. PICK m \in Models, c \in Choice : Load(c) /\ Accept(h, "remove", [Fresh EXCEPT !.model = m]) /\ Rest
  BY DEF AskRemove
<1>m. [Fresh EXCEPT !.model = m] \in Choice BY ChoiceFields
<1>l. /\ settings' \in Choice \union {Missing} /\ faults' \in 0..MaxFaults /\ outside' \in BOOLEAN
  BY <1>c, LoadFacts DEF FilesTyped, CountsTyped
<1>1. FilesTyped'
  BY <1>c, <1>l DEF FilesTyped, diskVars, Rest, Plain, Accept
<1>2. WorkTyped'
  BY <1>c, <1>m DEF WorkTyped, diskVars, Rest, Plain, Accept
<1>3. JobsTyped'
  BY <1>c, <1>l DEF JobsTyped, diskVars, Rest, Plain, Accept
<1>4. TrialsTyped'
  BY <1>c, <1>l DEF TrialsTyped, diskVars, Rest, Plain, Accept
<1>5. CountsTyped'
  BY <1>c, <1>l, Bounds DEF CountsTyped, diskVars, Rest, Plain, Accept
<1> HIDE DEF Typed
<1> QED BY <1>1, <1>2, <1>3, <1>4, <1>5 DEF Typed

LEMMA AskBenchmarkTyped ==
  ASSUME NEW h \in Handlers, AskBenchmark(h), Typed PROVE Typed'
<1> USE DEF Typed
<1>c. PICK c \in Choice : Load(c) /\ Accept(h, "benchmark", c) /\ Rest
  BY DEF AskBenchmark
<1>m. c \in Choice OBVIOUS
<1>l. /\ settings' \in Choice \union {Missing} /\ faults' \in 0..MaxFaults /\ outside' \in BOOLEAN
  BY <1>c, LoadFacts DEF FilesTyped, CountsTyped
<1>1. FilesTyped'
  BY <1>c, <1>l DEF FilesTyped, diskVars, Rest, Plain, Accept
<1>2. WorkTyped'
  BY <1>c, <1>m DEF WorkTyped, diskVars, Rest, Plain, Accept
<1>3. JobsTyped'
  BY <1>c, <1>l DEF JobsTyped, diskVars, Rest, Plain, Accept
<1>4. TrialsTyped'
  BY <1>c, <1>l DEF TrialsTyped, diskVars, Rest, Plain, Accept
<1>5. CountsTyped'
  BY <1>c, <1>l, Bounds DEF CountsTyped, diskVars, Rest, Plain, Accept
<1> HIDE DEF Typed
<1> QED BY <1>1, <1>2, <1>3, <1>4, <1>5 DEF Typed

LEMMA AskQualifyTyped ==
  ASSUME NEW h \in Handlers, AskQualify(h), Typed PROVE Typed'
<1> USE DEF Typed
<1>c. PICK c \in Choice : Load(c) /\ Accept(h, "qualify", c) /\ Rest
  BY DEF AskQualify
<1>m. c \in Choice OBVIOUS
<1>l. /\ settings' \in Choice \union {Missing} /\ faults' \in 0..MaxFaults /\ outside' \in BOOLEAN
  BY <1>c, LoadFacts DEF FilesTyped, CountsTyped
<1>1. FilesTyped'
  BY <1>c, <1>l DEF FilesTyped, diskVars, Rest, Plain, Accept
<1>2. WorkTyped'
  BY <1>c, <1>m DEF WorkTyped, diskVars, Rest, Plain, Accept
<1>3. JobsTyped'
  BY <1>c, <1>l DEF JobsTyped, diskVars, Rest, Plain, Accept
<1>4. TrialsTyped'
  BY <1>c, <1>l DEF TrialsTyped, diskVars, Rest, Plain, Accept
<1>5. CountsTyped'
  BY <1>c, <1>l, Bounds DEF CountsTyped, diskVars, Rest, Plain, Accept
<1> HIDE DEF Typed
<1> QED BY <1>1, <1>2, <1>3, <1>4, <1>5 DEF Typed

LEMMA AskDownloadTyped ==
  ASSUME NEW h \in Handlers, AskDownload(h), Typed PROVE Typed'
<1> USE DEF Typed
<1>1. FilesTyped'
  BY DEF FilesTyped, AskDownload, Plain, diskVars
<1>2. WorkTyped'
  BY DEF WorkTyped, AskDownload, Plain, diskVars
<1>3. JobsTyped'
  <2>1. PICK m \in Models, a \in BOOLEAN :
         /\ jobs < MaxJobs /\ jobs' = jobs + 1 /\ cancel' = FALSE
         /\ job' = [job EXCEPT ![jobs + 1] = [at |-> "queued", model |-> m, seen |-> "none", activate |-> a]]
    BY DEF AskDownload
  <2>2. jobs + 1 \in 1..MaxJobs /\ jobs' \in 0..MaxJobs BY <2>1, Bounds DEF JobsTyped
  <2> QED BY <2>1, <2>2 DEF JobsTyped, Active
<1>4. TrialsTyped'
  BY DEF TrialsTyped, AskDownload, Plain, diskVars
<1>5. CountsTyped'
  BY Bounds DEF CountsTyped, AskDownload, Plain
<1> HIDE DEF Typed
<1> QED BY <1>1, <1>2, <1>3, <1>4, <1>5 DEF Typed

LEMMA AskCancelTyped ==
  ASSUME NEW h \in Handlers, AskCancel(h), Typed PROVE Typed'
<1> USE DEF Typed
<1>1. FilesTyped'
  BY DEF FilesTyped, AskCancel, diskVars, Rest, Plain, Accept
<1>2. WorkTyped'
  BY ChoiceFields DEF WorkTyped, AskCancel, diskVars, Rest, Plain, Accept
<1>3. JobsTyped'
  BY DEF JobsTyped, AskCancel, diskVars, Rest, Plain, Accept
<1>4. TrialsTyped'
  BY DEF TrialsTyped, AskCancel, diskVars, Rest, Plain, Accept
<1>5. CountsTyped'
  BY Bounds DEF CountsTyped, AskCancel, diskVars, Rest, Plain, Accept
<1> HIDE DEF Typed
<1> QED BY <1>1, <1>2, <1>3, <1>4, <1>5 DEF Typed

LEMMA CancelTrialTyped ==
  ASSUME NEW h \in Handlers, CancelTrial(h), Typed PROVE Typed'
<1> USE DEF Typed
<1>1. FilesTyped'
  BY DEF FilesTyped, CancelTrial, Plain, diskVars
<1>2. WorkTyped'
  BY DEF WorkTyped, CancelTrial, Plain, diskVars
<1>3. JobsTyped'
  BY DEF JobsTyped, CancelTrial, Plain, diskVars
<1>4. TrialsTyped'
  <2>1. PICK i \in 1..MaxTrials : trial' = [trial EXCEPT ![i].cancel = TRUE] BY DEF CancelTrial
  <2>2. trial' \in [1..MaxTrials -> [at : Borrowed \union {"none", "persist", "stuck", "done"},
                                 kind : {"none", "benchmark", "qualify"}, cancel : BOOLEAN,
                                 saw : Choice, left : SUBSET Models]]
    BY <2>1 DEF TrialsTyped
  <2> QED BY <2>2 DEF TrialsTyped, CancelTrial
<1>5. CountsTyped'
  BY Bounds DEF CountsTyped, CancelTrial, Plain
<1> HIDE DEF Typed
<1> QED BY <1>1, <1>2, <1>3, <1>4, <1>5 DEF Typed

LEMMA SetCancelTyped ==
  ASSUME NEW h \in Handlers, SetCancel(h), Typed PROVE Typed'
<1> USE DEF Typed
<1>1. FilesTyped'
  BY DEF FilesTyped, SetCancel, NoHand, Plain, diskVars
<1>2. WorkTyped'
  BY ChoiceFields DEF WorkTyped, SetCancel, NoHand, Plain, diskVars
<1>3. JobsTyped'
  BY DEF JobsTyped, SetCancel, NoHand, Plain, diskVars
<1>4. TrialsTyped'
  BY DEF TrialsTyped, SetCancel, NoHand, Plain, diskVars
<1>5. CountsTyped'
  BY DEF CountsTyped, SetCancel, NoHand, Plain, diskVars
<1> HIDE DEF Typed
<1> QED BY <1>1, <1>2, <1>3, <1>4, <1>5 DEF Typed

LEMMA RemoveTyped ==
  ASSUME NEW h \in Handlers, Remove(h), Typed PROVE Typed'
<1> USE DEF Typed
<1>1. FilesTyped'
  <2>1. gguf' \in [Models -> {"none", "verified", "unverified"}] BY DEF FilesTyped, Remove
  <2>2. manifest' \in [Models -> BOOLEAN] BY DEF FilesTyped, Remove
  <2> QED BY <2>1, <2>2 DEF FilesTyped, Remove, Plain
<1>2. WorkTyped'
  BY ChoiceFields DEF WorkTyped, Remove, NoHand, Plain, diskVars
<1>3. JobsTyped'
  BY DEF JobsTyped, Remove, NoHand, Plain, diskVars
<1>4. TrialsTyped'
  BY DEF TrialsTyped, Remove, NoHand, Plain, diskVars
<1>5. CountsTyped'
  BY DEF CountsTyped, Remove, NoHand, Plain, diskVars
<1> HIDE DEF Typed
<1> QED BY <1>1, <1>2, <1>3, <1>4, <1>5 DEF Typed

LEMMA EnterTyped ==
  ASSUME NEW h \in Handlers, Enter(h), Typed PROVE Typed'
<1> USE DEF Typed
<1>1. FilesTyped'
  BY DEF FilesTyped, Enter, NoHand, Plain, diskVars
<1>2. WorkTyped'
  BY ChoiceFields DEF WorkTyped, Enter, NoHand, Plain, diskVars
<1>3. JobsTyped'
  BY DEF JobsTyped, Enter, NoHand, Plain, diskVars
<1>4. TrialsTyped'
  BY DEF TrialsTyped, Enter, NoHand, Plain, diskVars
<1>5. CountsTyped'
  BY DEF CountsTyped, Enter, NoHand, Plain, diskVars
<1> HIDE DEF Typed
<1> QED BY <1>1, <1>2, <1>3, <1>4, <1>5 DEF Typed

LEMMA ChatTyped ==
  ASSUME Chat, Typed PROVE Typed'
<1> USE DEF Typed
<1>1. FilesTyped'
  BY DEF FilesTyped, Chat, Plain, diskVars
<1>2. WorkTyped'
  <2>1. CASE txn' = [Quiet EXCEPT !.by = "chat", !.op = "chat"] BY <2>1, ChoiceFields DEF WorkTyped, Chat, Quiet
  <2>2. CASE txn' = Quiet BY <2>2, ChoiceFields DEF WorkTyped, Chat, Quiet
  <2> QED BY <2>1, <2>2 DEF Chat
<1>3. JobsTyped'
  BY DEF JobsTyped, Chat, Plain, diskVars
<1>4. TrialsTyped'
  BY DEF TrialsTyped, Chat, Plain, diskVars
<1>5. CountsTyped'
  BY DEF CountsTyped, Chat, Plain, diskVars
<1> HIDE DEF Typed
<1> QED BY <1>1, <1>2, <1>3, <1>4, <1>5 DEF Typed

LEMMA BeginActivateTyped ==
  ASSUME BeginActivate, Kept, Typed PROVE Typed'
<1> USE DEF Typed
<1>c. PICK c \in Choice : /\ Load(c)
         /\ txn' = [txn EXCEPT !.old = c, !.new = [c EXCEPT !.model = txn.new.model], !.at = "bak"]
  BY DEF BeginActivate
<1>l. /\ settings' \in Choice \union {Missing} /\ faults' \in 0..MaxFaults /\ outside' \in BOOLEAN
  BY <1>c, LoadFacts DEF FilesTyped, CountsTyped
<1>m. [c EXCEPT !.model = txn.new.model] \in Choice
  BY ChoiceFields DEF WorkTyped
<1>1. FilesTyped'
  BY <1>l, ChoiceFields DEF FilesTyped, WorkTyped, BeginActivate, Commit, Kept, diskVars
<1>2. WorkTyped'
  BY <1>c, <1>m DEF WorkTyped, BeginActivate
<1>3. JobsTyped'
  BY DEF JobsTyped, BeginActivate, Kept, diskVars
<1>4. TrialsTyped'
  BY DEF TrialsTyped, BeginActivate, Kept, diskVars
<1>5. CountsTyped'
  BY <1>l DEF CountsTyped, Kept, diskVars
<1> HIDE DEF Typed
<1> QED BY <1>1, <1>2, <1>3, <1>4, <1>5 DEF Typed

LEMMA BeginDeviceTyped ==
  ASSUME BeginDevice, Kept, Typed PROVE Typed'
<1> USE DEF Typed
<1>c. PICK c \in Choice : /\ Load(c)
         /\ txn' = [txn EXCEPT !.old = c, !.new = [c EXCEPT !.device = txn.new.device], !.at = "bak"]
  BY DEF BeginDevice
<1>l. /\ settings' \in Choice \union {Missing} /\ faults' \in 0..MaxFaults /\ outside' \in BOOLEAN
  BY <1>c, LoadFacts DEF FilesTyped, CountsTyped
<1>m. [c EXCEPT !.device = txn.new.device] \in Choice
  BY ChoiceFields DEF WorkTyped
<1>1. FilesTyped'
  BY <1>l, ChoiceFields DEF FilesTyped, WorkTyped, BeginDevice, Commit, Kept, diskVars
<1>2. WorkTyped'
  BY <1>c, <1>m DEF WorkTyped, BeginDevice
<1>3. JobsTyped'
  BY DEF JobsTyped, BeginDevice, Kept, diskVars
<1>4. TrialsTyped'
  BY DEF TrialsTyped, BeginDevice, Kept, diskVars
<1>5. CountsTyped'
  BY <1>l DEF CountsTyped, Kept, diskVars
<1> HIDE DEF Typed
<1> QED BY <1>1, <1>2, <1>3, <1>4, <1>5 DEF Typed

LEMMA SaveBackupTyped ==
  ASSUME SaveBackup, Kept, Typed PROVE Typed'
<1> USE DEF Typed
<1>1. FilesTyped'
  BY ChoiceFields DEF FilesTyped, WorkTyped, SaveBackup, Commit, Kept, diskVars
<1>2. WorkTyped'
  <2>1. CASE Leave("over") BY <2>1, ChoiceFields DEF WorkTyped, Leave, Quiet, NoHand
  <2>2. CASE \E at \in {"file", "undoFile", "commit", "undo", "revert"} : Move(at) BY <2>2 DEF WorkTyped, Move
  <2> QED BY <2>1, <2>2 DEF SaveBackup
<1>3. JobsTyped'
  <2>1. CASE job' = job BY <2>1 DEF JobsTyped, Kept
  <2>2. CASE job' = [job EXCEPT ![jobs].at = "over"]
    <3>1. CASE jobs \in 1..MaxJobs BY <2>2, <3>1, JobMoves DEF Kept
    <3>2. CASE jobs \notin 1..MaxJobs BY <2>2, <3>2 DEF JobsTyped, Kept
    <3> QED BY <3>1, <3>2
  <2> QED BY <2>1, <2>2 DEF SaveBackup, Leave, Move
<1>4. TrialsTyped'
  BY DEF TrialsTyped, SaveBackup, Kept, diskVars
<1>5. CountsTyped'
  BY DEF CountsTyped, SaveBackup, Kept, diskVars
<1> HIDE DEF Typed
<1> QED BY <1>1, <1>2, <1>3, <1>4, <1>5 DEF Typed

LEMMA SaveFileTyped ==
  ASSUME SaveFile, Kept, Typed PROVE Typed'
<1> USE DEF Typed
<1>1. FilesTyped'
  BY ChoiceFields DEF FilesTyped, WorkTyped, SaveFile, Commit, Kept, diskVars
<1>2. WorkTyped'
  <2>1. CASE Leave("over") BY <2>1, ChoiceFields DEF WorkTyped, Leave, Quiet, NoHand
  <2>2. CASE \E at \in {"file", "undoFile", "commit", "undo", "revert"} : Move(at) BY <2>2 DEF WorkTyped, Move
  <2> QED BY <2>1, <2>2 DEF SaveFile
<1>3. JobsTyped'
  <2>1. CASE job' = job BY <2>1 DEF JobsTyped, Kept
  <2>2. CASE job' = [job EXCEPT ![jobs].at = "over"]
    <3>1. CASE jobs \in 1..MaxJobs BY <2>2, <3>1, JobMoves DEF Kept
    <3>2. CASE jobs \notin 1..MaxJobs BY <2>2, <3>2 DEF JobsTyped, Kept
    <3> QED BY <3>1, <3>2
  <2> QED BY <2>1, <2>2 DEF SaveFile, Leave, Move
<1>4. TrialsTyped'
  BY DEF TrialsTyped, SaveFile, Kept, diskVars
<1>5. CountsTyped'
  BY DEF CountsTyped, SaveFile, Kept, diskVars
<1> HIDE DEF Typed
<1> QED BY <1>1, <1>2, <1>3, <1>4, <1>5 DEF Typed

LEMMA UndoFileTyped ==
  ASSUME UndoFile, Kept, Typed PROVE Typed'
<1> USE DEF Typed
<1>1. FilesTyped'
  BY ChoiceFields DEF FilesTyped, WorkTyped, UndoFile, Commit, Kept, diskVars
<1>2. WorkTyped'
  <2>1. CASE Leave("over") BY <2>1, ChoiceFields DEF WorkTyped, Leave, Quiet, NoHand
  <2>2. CASE \E at \in {"file", "undoFile", "commit", "undo", "revert"} : Move(at) BY <2>2 DEF WorkTyped, Move
  <2> QED BY <2>1, <2>2 DEF UndoFile
<1>3. JobsTyped'
  <2>1. CASE job' = job BY <2>1 DEF JobsTyped, Kept
  <2>2. CASE job' = [job EXCEPT ![jobs].at = "over"]
    <3>1. CASE jobs \in 1..MaxJobs BY <2>2, <3>1, JobMoves DEF Kept
    <3>2. CASE jobs \notin 1..MaxJobs BY <2>2, <3>2 DEF JobsTyped, Kept
    <3> QED BY <3>1, <3>2
  <2> QED BY <2>1, <2>2 DEF UndoFile, Leave, Move
<1>4. TrialsTyped'
  BY DEF TrialsTyped, UndoFile, Kept, diskVars
<1>5. CountsTyped'
  BY DEF CountsTyped, UndoFile, Kept, diskVars
<1> HIDE DEF Typed
<1> QED BY <1>1, <1>2, <1>3, <1>4, <1>5 DEF Typed

LEMMA CommitActivationTyped ==
  ASSUME CommitActivation, Kept, Typed PROVE Typed'
<1> USE DEF Typed
<1>1. FilesTyped'
  BY ChoiceFields DEF FilesTyped, WorkTyped, CommitActivation, Commit, Kept, diskVars
<1>2. WorkTyped'
  <2>1. CASE Leave("over") BY <2>1, ChoiceFields DEF WorkTyped, Leave, Quiet, NoHand
  <2>2. CASE \E at \in {"file", "undoFile", "commit", "undo", "revert"} : Move(at) BY <2>2 DEF WorkTyped, Move
  <2> QED BY <2>1, <2>2 DEF CommitActivation
<1>3. JobsTyped'
  <2>1. CASE job' = job BY <2>1 DEF JobsTyped, Kept
  <2>2. CASE job' = [job EXCEPT ![jobs].at = "over"]
    <3>1. CASE jobs \in 1..MaxJobs BY <2>2, <3>1, JobMoves DEF Kept
    <3>2. CASE jobs \notin 1..MaxJobs BY <2>2, <3>2 DEF JobsTyped, Kept
    <3> QED BY <3>1, <3>2
  <2> QED BY <2>1, <2>2 DEF CommitActivation, Leave, Move
<1>4. TrialsTyped'
  BY DEF TrialsTyped, CommitActivation, Kept, diskVars
<1>5. CountsTyped'
  BY DEF CountsTyped, CommitActivation, Kept, diskVars
<1> HIDE DEF Typed
<1> QED BY <1>1, <1>2, <1>3, <1>4, <1>5 DEF Typed

LEMMA TransactionFailsTyped ==
  ASSUME TransactionFails, Kept, Typed PROVE Typed'
<1> USE DEF Typed
<1>1. FilesTyped'
  BY ChoiceFields DEF FilesTyped, WorkTyped, TransactionFails, Commit, Kept, diskVars
<1>2. WorkTyped'
  <2>1. CASE Leave("over") BY <2>1, ChoiceFields DEF WorkTyped, Leave, Quiet, NoHand
  <2>2. CASE \E at \in {"file", "undoFile", "commit", "undo", "revert"} : Move(at) BY <2>2 DEF WorkTyped, Move
  <2> QED BY <2>1, <2>2 DEF TransactionFails
<1>3. JobsTyped'
  <2>1. CASE job' = job BY <2>1 DEF JobsTyped, Kept
  <2>2. CASE job' = [job EXCEPT ![jobs].at = "over"]
    <3>1. CASE jobs \in 1..MaxJobs BY <2>2, <3>1, JobMoves DEF Kept
    <3>2. CASE jobs \notin 1..MaxJobs BY <2>2, <3>2 DEF JobsTyped, Kept
    <3> QED BY <3>1, <3>2
  <2> QED BY <2>1, <2>2 DEF TransactionFails, Leave, Move
<1>4. TrialsTyped'
  BY DEF TrialsTyped, TransactionFails, Kept, diskVars
<1>5. CountsTyped'
  BY Bounds DEF CountsTyped, TransactionFails, Fault, Kept, diskVars
<1> HIDE DEF Typed
<1> QED BY <1>1, <1>2, <1>3, <1>4, <1>5 DEF Typed

LEMMA RevertDeviceTyped ==
  ASSUME RevertDevice, Kept, Typed PROVE Typed'
<1> USE DEF Typed
<1>1. FilesTyped'
  BY ChoiceFields DEF FilesTyped, WorkTyped, RevertDevice, Commit, Kept, diskVars
<1>2. WorkTyped'
  <2>1. CASE Leave("over") BY <2>1, ChoiceFields DEF WorkTyped, Leave, Quiet, NoHand
  <2>2. CASE \E at \in {"file", "undoFile", "commit", "undo", "revert"} : Move(at) BY <2>2 DEF WorkTyped, Move
  <2> QED BY <2>1, <2>2 DEF RevertDevice
<1>3. JobsTyped'
  <2>1. CASE job' = job BY <2>1 DEF JobsTyped, Kept
  <2>2. CASE job' = [job EXCEPT ![jobs].at = "over"]
    <3>1. CASE jobs \in 1..MaxJobs BY <2>2, <3>1, JobMoves DEF Kept
    <3>2. CASE jobs \notin 1..MaxJobs BY <2>2, <3>2 DEF JobsTyped, Kept
    <3> QED BY <3>1, <3>2
  <2> QED BY <2>1, <2>2 DEF RevertDevice, Leave, Move
<1>4. TrialsTyped'
  BY DEF TrialsTyped, RevertDevice, Kept, diskVars
<1>5. CountsTyped'
  BY DEF CountsTyped, RevertDevice, Kept, diskVars
<1> HIDE DEF Typed
<1> QED BY <1>1, <1>2, <1>3, <1>4, <1>5 DEF Typed

LEMMA BeginTrialTyped ==
  ASSUME BeginTrial, Kept, Typed PROVE Typed'
<1> USE DEF Typed
<1>1. FilesTyped'
  BY ChoiceFields DEF FilesTyped, WorkTyped, BeginTrial, Commit, Kept, diskVars
<1>2. WorkTyped'
  <2>1. CASE Leave("over") BY <2>1, ChoiceFields DEF WorkTyped, Leave, Quiet, NoHand
  <2>2. CASE \E at \in {"file", "undoFile", "commit", "undo", "revert"} : Move(at) BY <2>2 DEF WorkTyped, Move
  <2> QED BY <2>1, <2>2 DEF BeginTrial
<1>3. JobsTyped'
  <2>1. CASE job' = job BY <2>1 DEF JobsTyped, Kept
  <2>2. CASE job' = [job EXCEPT ![jobs].at = "over"]
    <3>1. CASE jobs \in 1..MaxJobs BY <2>2, <3>1, JobMoves DEF Kept
    <3>2. CASE jobs \notin 1..MaxJobs BY <2>2, <3>2 DEF JobsTyped, Kept
    <3> QED BY <3>1, <3>2
  <2> QED BY <2>1, <2>2 DEF BeginTrial, Leave, Move
<1>4. TrialsTyped'
  <2>1. trials + 1 \in 1..MaxTrials /\ trials' \in 0..MaxTrials
    BY Bounds DEF TrialsTyped, BeginTrial
  <2>2. txn.new \in Choice BY DEF WorkTyped
  <2> QED BY <2>1, <2>2 DEF TrialsTyped, BeginTrial, Borrowed
<1>5. CountsTyped'
  BY DEF CountsTyped, BeginTrial, Kept, diskVars
<1> HIDE DEF Typed
<1> QED BY <1>1, <1>2, <1>3, <1>4, <1>5 DEF Typed

LEMMA PrepareTyped ==
  ASSUME NEW j \in 1..MaxJobs, Prepare(j),
         UNCHANGED <<settings, bak, running, up, hand, jobs, cancel, trial, trials, tray, outside, bounds>>, Typed PROVE Typed'
<1> USE DEF Typed
<1>1. FilesTyped'
  BY DEF FilesTyped, JobsTyped, Active, Prepare, Step, Fails, SetPart, Part, bounds
<1>2. WorkTyped'
  BY ChoiceFields DEF WorkTyped, JobsTyped, Active, Prepare, Step, Fails, SetPart, Part, bounds
<1>3. JobsTyped'
  <2>1. (IF Part(j) = "tail" THEN "bad" ELSE Part(j)) \in {"none", "prefix", "whole", "bad"}
    BY DEF Part, FilesTyped, JobsTyped, Prepare, Active
  <2>2. CASE job' = [job EXCEPT ![j].at = "over"] BY <2>2, JobMoves DEF Prepare, Active
  <2>3. CASE job' = [job EXCEPT ![j].at = "connecting", ![j].seen = IF Part(j) = "tail" THEN "bad" ELSE Part(j)]
    BY <2>1, <2>3, JobMoves DEF Prepare, Active
  <2> QED BY <2>2, <2>3 DEF Prepare, Fails, Step
<1>4. TrialsTyped'
  BY DEF TrialsTyped, bounds, Prepare, Step, Fails
<1>5. CountsTyped'
  BY DEF CountsTyped, bounds, Prepare, Step, Fails
<1> HIDE DEF Typed
<1> QED BY <1>1, <1>2, <1>3, <1>4, <1>5 DEF Typed

LEMMA ConnectTyped ==
  ASSUME NEW j \in 1..MaxJobs, Connect(j),
         UNCHANGED <<settings, bak, running, up, hand, jobs, cancel, trial, trials, tray, outside, bounds>>, Typed PROVE Typed'
<1> USE DEF Typed
<1>1. FilesTyped'
  BY DEF FilesTyped, JobsTyped, Active, Connect, Step, Fails, SetPart, Part, bounds
<1>2. WorkTyped'
  BY ChoiceFields DEF WorkTyped, JobsTyped, Active, Connect, Step, Fails, SetPart, Part, bounds
<1>3. JobsTyped'
  <2>1. CASE job' = [job EXCEPT ![j].at = "downloading"] BY <2>1, JobMoves DEF Connect, Active
  <2>2. CASE job' = [job EXCEPT ![j].at = "downloading", ![j].seen = "none"] BY <2>2, JobMoves DEF Connect, Active
  <2> QED BY <2>1, <2>2 DEF Connect, Step
<1>4. TrialsTyped'
  BY DEF TrialsTyped, bounds, Connect, Step, Fails
<1>5. CountsTyped'
  BY DEF CountsTyped, bounds, Connect, Step, Fails
<1> HIDE DEF Typed
<1> QED BY <1>1, <1>2, <1>3, <1>4, <1>5 DEF Typed

LEMMA TransferTyped ==
  ASSUME NEW j \in 1..MaxJobs, Transfer(j),
         UNCHANGED <<settings, bak, running, up, hand, jobs, cancel, trial, trials, tray, outside, bounds>>, Typed PROVE Typed'
<1> USE DEF Typed
<1>1. FilesTyped'
  BY DEF FilesTyped, JobsTyped, Active, Transfer, Step, Fails, SetPart, Part, bounds
<1>2. WorkTyped'
  BY ChoiceFields DEF WorkTyped, JobsTyped, Active, Transfer, Step, Fails, SetPart, Part, bounds
<1>3. JobsTyped'
  <2>1. PICK seen \in {"none", "prefix", "whole", "bad"} : job' = [job EXCEPT ![j].at = "verifying", ![j].seen = seen]
    BY DEF Transfer
  <2> QED BY <2>1, JobMoves DEF Transfer, Active
<1>4. TrialsTyped'
  BY DEF TrialsTyped, bounds, Transfer, Step, Fails
<1>5. CountsTyped'
  BY DEF CountsTyped, bounds, Transfer, Step, Fails
<1> HIDE DEF Typed
<1> QED BY <1>1, <1>2, <1>3, <1>4, <1>5 DEF Typed

LEMMA InterruptedTyped ==
  ASSUME NEW j \in 1..MaxJobs, Interrupted(j),
         UNCHANGED <<settings, bak, running, up, hand, jobs, cancel, trial, trials, tray, outside, bounds>>, Typed PROVE Typed'
<1> USE DEF Typed
<1>1. FilesTyped'
  BY DEF FilesTyped, JobsTyped, Active, Interrupted, Step, Fails, SetPart, Part, bounds
<1>2. WorkTyped'
  BY ChoiceFields DEF WorkTyped, JobsTyped, Active, Interrupted, Step, Fails, SetPart, Part, bounds
<1>3. JobsTyped'
  <2>1. CASE job' = [job EXCEPT ![j].at = "over"] BY <2>1, JobMoves DEF Interrupted, Active
  <2> QED BY <2>1 DEF Interrupted, Fails, Step
<1>4. TrialsTyped'
  BY DEF TrialsTyped, bounds, Interrupted, Step, Fails
<1>5. CountsTyped'
  BY DEF CountsTyped, bounds, Interrupted, Step, Fails
<1> HIDE DEF Typed
<1> QED BY <1>1, <1>2, <1>3, <1>4, <1>5 DEF Typed

LEMMA VerifyTyped ==
  ASSUME NEW j \in 1..MaxJobs, Verify(j),
         UNCHANGED <<settings, bak, running, up, hand, jobs, cancel, trial, trials, tray, outside, bounds>>, Typed PROVE Typed'
<1> USE DEF Typed
<1>1. FilesTyped'
  BY DEF FilesTyped, JobsTyped, Active, Verify, Step, Fails, SetPart, Part, bounds
<1>2. WorkTyped'
  BY ChoiceFields DEF WorkTyped, JobsTyped, Active, Verify, Step, Fails, SetPart, Part, bounds
<1>3. JobsTyped'
  <2>1. CASE job' = [job EXCEPT ![j].at = "unlink"] BY <2>1, JobMoves DEF Verify, Active
  <2>2. CASE job' = [job EXCEPT ![j].at = "over"] BY <2>2, JobMoves DEF Verify, Active
  <2>3. CASE job' = [job EXCEPT ![j].at = "installing"] BY <2>3, JobMoves DEF Verify, Active
  <2> QED BY <2>1, <2>2, <2>3 DEF Verify, Fails, Step
<1>4. TrialsTyped'
  BY DEF TrialsTyped, bounds, Verify, Step, Fails
<1>5. CountsTyped'
  BY DEF CountsTyped, bounds, Verify, Step, Fails
<1> HIDE DEF Typed
<1> QED BY <1>1, <1>2, <1>3, <1>4, <1>5 DEF Typed

LEMMA UnlinkTyped ==
  ASSUME NEW j \in 1..MaxJobs, Unlink(j),
         UNCHANGED <<settings, bak, running, up, hand, jobs, cancel, trial, trials, tray, outside, bounds>>, Typed PROVE Typed'
<1> USE DEF Typed
<1>1. FilesTyped'
  BY DEF FilesTyped, JobsTyped, Active, Unlink, Step, Fails, SetPart, Part, bounds
<1>2. WorkTyped'
  BY ChoiceFields DEF WorkTyped, JobsTyped, Active, Unlink, Step, Fails, SetPart, Part, bounds
<1>3. JobsTyped'
  <2>1. CASE job' = [job EXCEPT ![j].at = "over"] BY <2>1, JobMoves DEF Unlink, Active
  <2> QED BY <2>1 DEF Unlink, Fails, Step
<1>4. TrialsTyped'
  BY DEF TrialsTyped, bounds, Unlink, Step, Fails
<1>5. CountsTyped'
  BY DEF CountsTyped, bounds, Unlink, Step, Fails
<1> HIDE DEF Typed
<1> QED BY <1>1, <1>2, <1>3, <1>4, <1>5 DEF Typed

LEMMA InstallTyped ==
  ASSUME NEW j \in 1..MaxJobs, Install(j),
         UNCHANGED <<settings, bak, running, up, hand, jobs, cancel, trial, trials, tray, outside, bounds>>, Typed PROVE Typed'
<1> USE DEF Typed
<1>1. FilesTyped'
  BY DEF FilesTyped, JobsTyped, Active, Install, Step, Fails, SetPart, Part, bounds
<1>2. WorkTyped'
  BY ChoiceFields DEF WorkTyped, JobsTyped, Active, Install, Step, Fails, SetPart, Part, bounds
<1>3. JobsTyped'
  <2>1. CASE job' = [job EXCEPT ![j].at = "manifest"] BY <2>1, JobMoves DEF Install, Active
  <2>2. CASE job' = [job EXCEPT ![j].at = "over"] BY <2>2, JobMoves DEF Install, Active
  <2> QED BY <2>1, <2>2 DEF Install, Fails, Step
<1>4. TrialsTyped'
  BY DEF TrialsTyped, bounds, Install, Step, Fails
<1>5. CountsTyped'
  BY DEF CountsTyped, bounds, Install, Step, Fails
<1> HIDE DEF Typed
<1> QED BY <1>1, <1>2, <1>3, <1>4, <1>5 DEF Typed

LEMMA WriteManifestTyped ==
  ASSUME NEW j \in 1..MaxJobs, WriteManifest(j),
         UNCHANGED <<settings, bak, running, up, hand, jobs, cancel, trial, trials, tray, outside, bounds>>, Typed PROVE Typed'
<1> USE DEF Typed
<1>1. FilesTyped'
  BY DEF FilesTyped, JobsTyped, Active, WriteManifest, Step, Fails, SetPart, Part, bounds
<1>2. WorkTyped'
  BY ChoiceFields DEF WorkTyped, JobsTyped, Active, WriteManifest, Step, Fails, SetPart, Part, bounds
<1>3. JobsTyped'
  <2>1. CASE job' = [job EXCEPT ![j].at = "activating"] BY <2>1, JobMoves DEF WriteManifest, Active
  <2>2. CASE job' = [job EXCEPT ![j].at = "over"] BY <2>2, JobMoves DEF WriteManifest, Active
  <2> QED BY <2>1, <2>2 DEF WriteManifest, Fails, Step
<1>4. TrialsTyped'
  BY DEF TrialsTyped, bounds, WriteManifest, Step, Fails
<1>5. CountsTyped'
  BY DEF CountsTyped, bounds, WriteManifest, Step, Fails
<1> HIDE DEF Typed
<1> QED BY <1>1, <1>2, <1>3, <1>4, <1>5 DEF Typed

LEMMA ActivateInstalledTyped ==
  ASSUME NEW j \in 1..MaxJobs, ActivateInstalled(j),
         UNCHANGED <<settings, bak, running, up, hand, jobs, cancel, trial, trials, tray, outside, bounds>>, Typed PROVE Typed'
<1> USE DEF Typed
<1>1. FilesTyped'
  BY DEF FilesTyped, JobsTyped, Active, ActivateInstalled, Step, Fails, SetPart, Part, bounds
<1>2. WorkTyped'
  BY ChoiceFields DEF WorkTyped, JobsTyped, Active, ActivateInstalled, Step, Fails, SetPart, Part, bounds
<1>3. JobsTyped'
  <2>1. CASE job' = [job EXCEPT ![j].at = "over"] BY <2>1, JobMoves DEF ActivateInstalled, Active
  <2>2. CASE job' = job BY <2>2 DEF JobsTyped
  <2> QED BY <2>1, <2>2 DEF ActivateInstalled, Fails, Step
<1>4. TrialsTyped'
  BY DEF TrialsTyped, bounds, ActivateInstalled, Step, Fails
<1>5. CountsTyped'
  BY DEF CountsTyped, bounds, ActivateInstalled, Step, Fails
<1> HIDE DEF Typed
<1> QED BY <1>1, <1>2, <1>3, <1>4, <1>5 DEF Typed

LEMMA MeasureTyped ==
  ASSUME NEW i \in 1..MaxTrials, Measure(i),
         UNCHANGED <<diskVars, settings, bak, up, txn, hand, job, jobs, cancel, trials, tray, requests>>, Typed PROVE Typed'
<1> USE DEF Typed
<1>1. FilesTyped'
  BY DEF FilesTyped, TrialsTyped, Measure, At, Same, diskVars
<1>2. WorkTyped'
  BY DEF WorkTyped, Measure, At, Same, diskVars
<1>3. JobsTyped'
  BY DEF JobsTyped, Measure, At, Same, diskVars
<1>4. TrialsTyped'
  BY DEF TrialsTyped, Borrowed, Measure, At, Same, diskVars
<1>5. CountsTyped'
  BY Bounds DEF CountsTyped, Fault, Measure, At, Same, diskVars
<1> HIDE DEF Typed
<1> QED BY <1>1, <1>2, <1>3, <1>4, <1>5 DEF Typed

LEMMA RestoreBenchmarkTyped ==
  ASSUME NEW i \in 1..MaxTrials, RestoreBenchmark(i),
         UNCHANGED <<diskVars, settings, bak, up, txn, hand, job, jobs, cancel, trials, tray, requests>>, Typed PROVE Typed'
<1> USE DEF Typed
<1>1. FilesTyped'
  BY DEF FilesTyped, TrialsTyped, RestoreBenchmark, At, Same, diskVars
<1>2. WorkTyped'
  BY DEF WorkTyped, RestoreBenchmark, At, Same, diskVars
<1>3. JobsTyped'
  BY DEF JobsTyped, RestoreBenchmark, At, Same, diskVars
<1>4. TrialsTyped'
  BY DEF TrialsTyped, Borrowed, RestoreBenchmark, At, Same, diskVars
<1>5. CountsTyped'
  BY Bounds DEF CountsTyped, Fault, RestoreBenchmark, At, Same, diskVars
<1> HIDE DEF Typed
<1> QED BY <1>1, <1>2, <1>3, <1>4, <1>5 DEF Typed

LEMMA QualifyTyped ==
  ASSUME NEW i \in 1..MaxTrials, Qualify(i),
         UNCHANGED <<diskVars, settings, bak, up, txn, hand, job, jobs, cancel, trials, tray, requests>>, Typed PROVE Typed'
<1> USE DEF Typed
<1>1. FilesTyped'
  BY DEF FilesTyped, TrialsTyped, Qualify, At, Same, diskVars
<1>2. WorkTyped'
  BY DEF WorkTyped, Qualify, At, Same, diskVars
<1>3. JobsTyped'
  BY DEF JobsTyped, Qualify, At, Same, diskVars
<1>4. TrialsTyped'
  BY DEF TrialsTyped, Borrowed, Qualify, At, Same, diskVars
<1>5. CountsTyped'
  BY Bounds DEF CountsTyped, Fault, Qualify, At, Same, diskVars
<1> HIDE DEF Typed
<1> QED BY <1>1, <1>2, <1>3, <1>4, <1>5 DEF Typed

LEMMA RestoreQualifiedTyped ==
  ASSUME NEW i \in 1..MaxTrials, RestoreQualified(i),
         UNCHANGED <<diskVars, settings, bak, up, txn, hand, job, jobs, cancel, trials, tray, requests>>, Typed PROVE Typed'
<1> USE DEF Typed
<1>1. FilesTyped'
  BY DEF FilesTyped, TrialsTyped, RestoreQualified, At, Same, diskVars
<1>2. WorkTyped'
  BY DEF WorkTyped, RestoreQualified, At, Same, diskVars
<1>3. JobsTyped'
  BY DEF JobsTyped, RestoreQualified, At, Same, diskVars
<1>4. TrialsTyped'
  BY DEF TrialsTyped, Borrowed, RestoreQualified, At, Same, diskVars
<1>5. CountsTyped'
  BY Bounds DEF CountsTyped, Fault, RestoreQualified, At, Same, diskVars
<1> HIDE DEF Typed
<1> QED BY <1>1, <1>2, <1>3, <1>4, <1>5 DEF Typed

LEMMA PersistTyped ==
  ASSUME NEW i \in 1..MaxTrials, Persist(i),
         UNCHANGED <<diskVars, settings, bak, up, txn, hand, job, jobs, cancel, trials, tray, requests>>, Typed PROVE Typed'
<1> USE DEF Typed
<1>1. FilesTyped'
  BY DEF FilesTyped, TrialsTyped, Persist, At, Same, diskVars
<1>2. WorkTyped'
  BY DEF WorkTyped, Persist, At, Same, diskVars
<1>3. JobsTyped'
  BY DEF JobsTyped, Persist, At, Same, diskVars
<1>4. TrialsTyped'
  BY DEF TrialsTyped, Borrowed, Persist, At, Same, diskVars
<1>5. CountsTyped'
  BY Bounds DEF CountsTyped, Fault, Persist, At, Same, diskVars
<1> HIDE DEF Typed
<1> QED BY <1>1, <1>2, <1>3, <1>4, <1>5 DEF Typed

LEMMA AskTyped ==
  ASSUME Typed, NEW h \in Handlers, Ask(h) \/ Handle(h) PROVE Typed'
BY AskActivateTyped, AskDeviceTyped, AskRemoveTyped, AskBenchmarkTyped, AskQualifyTyped, AskDownloadTyped,
   AskCancelTyped, CancelTrialTyped, SetCancelTyped, RemoveTyped, EnterTyped DEF Ask, Handle

LEMMA TransactionTyped == ASSUME Typed, Transaction PROVE Typed'
BY BeginActivateTyped, BeginDeviceTyped, SaveBackupTyped, SaveFileTyped, UndoFileTyped, CommitActivationTyped,
   TransactionFailsTyped, RevertDeviceTyped, BeginTrialTyped DEF Transaction

LEMMA DownloadTyped == ASSUME Typed, NEW j \in 1..MaxJobs, Download(j) PROVE Typed'
BY PrepareTyped, ConnectTyped, TransferTyped, InterruptedTyped, VerifyTyped, UnlinkTyped, InstallTyped,
   WriteManifestTyped, ActivateInstalledTyped DEF Download

LEMMA TrialTyped == ASSUME Typed, NEW i \in 1..MaxTrials, Trial(i) PROVE Typed'
BY MeasureTyped, RestoreBenchmarkTyped, QualifyTyped, RestoreQualifiedTyped, PersistTyped DEF Trial

LEMMA PollTyped ==
  ASSUME Poll, Typed PROVE Typed'
<1> USE DEF Typed
<1>c. PICK c \in Choice : Load(c)
  BY DEF Poll
<1>l. /\ settings' \in Choice \union {Missing} /\ faults' \in 0..MaxFaults /\ outside' \in BOOLEAN
  BY <1>c, LoadFacts DEF FilesTyped, CountsTyped
<1>1. FilesTyped'
  BY <1>l DEF FilesTyped, Poll, diskVars
<1>2. WorkTyped'
  BY DEF WorkTyped, Poll, diskVars
<1>3. JobsTyped'
  BY DEF JobsTyped, Poll, diskVars
<1>4. TrialsTyped'
  BY DEF TrialsTyped, Poll, diskVars
<1>5. CountsTyped'
  BY <1>l DEF CountsTyped, Poll
<1> HIDE DEF Typed
<1> QED BY <1>1, <1>2, <1>3, <1>4, <1>5 DEF Typed

LEMMA BootTyped ==
  ASSUME Boot, Typed PROVE Typed'
<1> USE DEF Typed
<1>c. PICK c \in Choice : Load(c) /\ running' = c
  BY DEF Boot
<1>l. /\ settings' \in Choice \union {Missing} /\ faults' \in 0..MaxFaults /\ outside' \in BOOLEAN
  BY <1>c, LoadFacts DEF FilesTyped, CountsTyped
<1>1. FilesTyped'
  BY <1>c, <1>l DEF FilesTyped, Boot, diskVars
<1>2. WorkTyped'
  BY DEF WorkTyped, Boot, diskVars
<1>3. JobsTyped'
  BY DEF JobsTyped, Boot, diskVars
<1>4. TrialsTyped'
  BY DEF TrialsTyped, Boot, diskVars
<1>5. CountsTyped'
  BY <1>l DEF CountsTyped, Boot
<1> HIDE DEF Typed
<1> QED BY <1>1, <1>2, <1>3, <1>4, <1>5 DEF Typed

LEMMA TrayToggleTyped ==
  ASSUME TrayToggle, Typed PROVE Typed'
<1> USE DEF Typed
<1>1. FilesTyped'
  BY DEF FilesTyped, TrayToggle, diskVars
<1>2. WorkTyped'
  BY DEF WorkTyped, TrayToggle, diskVars
<1>3. JobsTyped'
  BY DEF JobsTyped, TrayToggle, diskVars
<1>4. TrialsTyped'
  BY DEF TrialsTyped, TrayToggle, diskVars
<1>5. CountsTyped'
  BY Bounds DEF CountsTyped, TrayToggle, Fault
<1> HIDE DEF Typed
<1> QED BY <1>1, <1>2, <1>3, <1>4, <1>5 DEF Typed

LEMMA CrashTyped ==
  ASSUME Crash, Typed PROVE Typed'
<1> USE DEF Typed
<1>1. FilesTyped'
  BY DEF FilesTyped, Crash, diskVars
<1>2. WorkTyped'
  BY ChoiceFields DEF WorkTyped, Crash, Quiet, NoHand
<1>3. JobsTyped'
  BY DEF JobsTyped, Crash, NoJob, Active
<1>4. TrialsTyped'
  BY ChoiceFields DEF TrialsTyped, Crash, NoTrial
<1>5. CountsTyped'
  BY Bounds DEF CountsTyped, Crash, Fault
<1> HIDE DEF Typed
<1> QED BY <1>1, <1>2, <1>3, <1>4, <1>5 DEF Typed

LEMMA StutterTyped == ASSUME Typed, UNCHANGED vars PROVE Typed'
BY DEF Typed, vars, FilesTyped, WorkTyped, JobsTyped, TrialsTyped, CountsTyped

LEMMA StepTyped == Typed /\ [Next]_vars => Typed'
BY AskTyped, TransactionTyped, DownloadTyped, TrialTyped, PollTyped, ChatTyped, BootTyped, TrayToggleTyped,
   CrashTyped, StutterTyped DEF Next

\* Type correctness, for any number of models, requests, jobs and faults.
THEOREM TypesHold == Spec => []TypeOK
<1>1. Spec => []Typed BY InitTyped, StepTyped, PTL DEF Spec
<1> QED BY <1>1, TypedIsTypeOK, PTL

(***************************************************************************)
(* The shape of a state: who may be at work.                               *)
(***************************************************************************)
LEMMA QuietFields ==
  /\ Quiet.by = Nobody /\ Quiet.at = "none"
  /\ [Quiet EXCEPT !.by = "chat", !.op = "chat"].by = "chat"
  /\ [Quiet EXCEPT !.by = "chat", !.op = "chat"].at = "none"
BY DEF Quiet

LEMMA InitShape == Init => Shape
<1> SUFFICES ASSUME Init PROVE Shape OBVIOUS
<1>1. \A j \in 1..MaxJobs : job[j].at \notin Active BY DEF Init, NoJob, Active
<1>2. txn.by = Nobody /\ txn.at = "none" BY DEF Init, Quiet
<1>3. up BY DEF Init
<1> QED BY <1>1, <1>2, <1>3, Bounds DEF Shape

LEMMA RequestShape ==
  ASSUME Typed, Shape, NEW h \in Handlers, Ask(h) \/ Handle(h) PROVE Shape'
<1> USE Bounds DEF Typed
<1>1. CASE AskActivate(h) BY <1>1 DEF AskActivate, diskVars, Rest, Plain, Accept, Shape
<1>2. CASE AskDevice(h) BY <1>2 DEF AskDevice, diskVars, Rest, Plain, Accept, Shape
<1>3. CASE AskRemove(h) BY <1>3 DEF AskRemove, diskVars, Rest, Plain, Accept, Shape
<1>4. CASE AskBenchmark(h) BY <1>4 DEF AskBenchmark, diskVars, Rest, Plain, Accept, Shape
<1>5. CASE AskQualify(h) BY <1>5 DEF AskQualify, diskVars, Rest, Plain, Accept, Shape
<1>6. CASE AskCancel(h) BY <1>6 DEF AskCancel, diskVars, Rest, Plain, Accept, Shape
<1>7. CASE CancelTrial(h) BY <1>7 DEF CancelTrial, Plain, diskVars, Shape
<1>8. CASE SetCancel(h) BY <1>8 DEF SetCancel, NoHand, Plain, diskVars, Shape
<1>9. CASE Remove(h) BY <1>9 DEF Remove, NoHand, Plain, diskVars, Shape
<1>10. CASE AskDownload(h)
  <2>1. PICK m \in Models, a \in BOOLEAN :
         job' = [job EXCEPT ![jobs + 1] = [at |-> "queued", model |-> m, seen |-> "none", activate |-> a]]
    BY <1>10 DEF AskDownload
  <2>2. jobs' = jobs + 1 /\ jobs \in Nat /\ up /\ up' = up /\ txn' = txn BY <1>10 DEF AskDownload, JobsTyped
  <2>3. \A j \in 1..MaxJobs : job[j].at \notin Active BY <1>10 DEF AskDownload, Downloading
  <2>4. \A j \in 1..MaxJobs : j # jobs + 1 => job'[j].at \notin Active BY <2>1, <2>3 DEF JobsTyped
  <2>5. txn.by # "download" BY <2>3 DEF Shape, Active
  <2> QED BY <2>2, <2>4, <2>5 DEF Shape
<1>11. CASE Enter(h) BY <1>11 DEF Enter, Plain, Shape, NoHand, WorkTyped
<1> QED BY <1>1, <1>2, <1>3, <1>4, <1>5, <1>6, <1>7, <1>8, <1>9, <1>10, <1>11 DEF Ask, Handle

LEMMA TransactionShape == ASSUME Typed, Shape, Transaction PROVE Shape'
<1> USE Bounds DEF Typed
<1>1. up /\ up' /\ jobs' = jobs
  <2>1. txn.op # "none" \/ txn.at # "none"
    BY DEF Transaction, BeginActivate, BeginDevice, SaveBackup, SaveFile, UndoFile,
           CommitActivation, TransactionFails, RevertDevice, BeginTrial
  <2>2. txn # Quiet BY <2>1 DEF Quiet
  <2>3. up' = up /\ jobs' = jobs BY DEF Transaction, Kept
  <2> QED BY <2>2, <2>3 DEF Shape
<1>2. CASE txn'.by = txn.by /\ job' = job /\ txn.at # "none"
  BY <1>1, <1>2 DEF Shape
<1>3. CASE Leave("over")
  <2>1. \A j \in 1..MaxJobs : job'[j].at \in Active => job[j].at \in Active
    BY <1>3 DEF Leave, JobsTyped, Active
  <2>2. txn'.by = Nobody /\ txn'.at = "none" BY <1>3 DEF Leave, Quiet
  <2> QED BY <1>1, <2>1, <2>2 DEF Shape
<1>4. txn.at # "none" \/ Leave("over")
  BY DEF Transaction, BeginActivate, BeginDevice, SaveBackup, SaveFile, UndoFile,
         CommitActivation, TransactionFails, RevertDevice, BeginTrial
<1>5. (txn'.by = txn.by /\ job' = job) \/ Leave("over")
  BY DEF Transaction, BeginActivate, BeginDevice, SaveBackup, SaveFile, UndoFile, Move, WorkTyped,
         CommitActivation, TransactionFails, RevertDevice, BeginTrial
<1> QED BY <1>2, <1>3, <1>4, <1>5

LEMMA DownloadShape == ASSUME Typed, Shape, NEW j \in 1..MaxJobs, Download(j) PROVE Shape'
<1> USE Bounds DEF Typed
<1>1. UNCHANGED <<up, hand, jobs, trial>> BY DEF Download
<1>2. CASE txn' = txn /\ (job[j].at \in Active => txn.by # "download" \/ j # jobs)
           /\ (\A k \in 1..MaxJobs : k # j => job'[k] = job[k])
           /\ (job'[j].at \in Active => job[j].at \in Active)
  <2>1. \A k \in 1..MaxJobs : job'[k].at \in Active => job[k].at \in Active
    <3> TAKE k \in 1..MaxJobs
    <3>1. CASE k = j BY <1>2, <3>1
    <3>2. CASE k # j BY <1>2, <3>2
    <3> QED BY <3>1, <3>2
  <2>2. txn.by = "download" => jobs \in 1..MaxJobs /\ job[jobs].at = "activating" BY DEF Shape
  <2>3. txn.by = "download" => j # jobs BY <1>2, <2>2 DEF Active
  <2>4. txn.by = "download" => job'[jobs].at = "activating" BY <1>2, <2>2, <2>3
  <2> QED BY <1>1, <1>2, <2>1, <2>2, <2>4 DEF Shape
<1>3. \A k \in 1..MaxJobs : k # j => job'[k] = job[k]
  BY DEF Download, JobsTyped, Prepare, Connect, Transfer, Interrupted, Verify, Unlink, Install,
         WriteManifest, ActivateInstalled, Step, Fails
<1>4. job'[j].at \in Active => job[j].at \in Active
  BY DEF Download, JobsTyped, Prepare, Connect, Transfer, Interrupted, Verify, Unlink, Install,
         WriteManifest, ActivateInstalled, Step, Fails, Active
<1>5. CASE ActivateInstalled(j) /\ txn' # txn
  <2>1. job' = job /\ txn'.by = "download" /\ job[j].at = "activating" /\ txn'.at = "begin"
    BY <1>5 DEF ActivateInstalled, Fails
  <2>2. j = jobs BY <2>1 DEF Shape, Active, JobsTyped
  <2>3. up BY <2>1 DEF Shape, Active
  <2> QED BY <1>1, <2>1, <2>2, <2>3 DEF Shape
<1>6. CASE ~(ActivateInstalled(j) /\ txn' # txn)
  <2>1. txn' = txn
    BY <1>6 DEF Download, Prepare, Connect, Transfer, Interrupted, Verify, Unlink, Install, WriteManifest, Fails
  <2>2. txn.by = "download" => job[jobs].at = "activating" BY DEF Shape
  <2>3. txn.by = "download" => j # jobs
    BY <2>2 DEF Download, Prepare, Connect, Transfer, Interrupted, Verify, Unlink, Install, WriteManifest,
                ActivateInstalled
  <2> QED BY <1>2, <1>3, <1>4, <2>1, <2>3
<1> QED BY <1>5, <1>6

LEMMA TrialShape == ASSUME Typed, Shape, NEW i \in 1..MaxTrials, Trial(i) PROVE Shape'
<1>1. trial[i] # NoTrial
  BY DEF Trial, Measure, RestoreBenchmark, Qualify, RestoreQualified, Persist, NoTrial
<1>2. up BY <1>1 DEF Shape
<1> QED BY <1>2 DEF Shape, Trial, Typed

LEMMA CrashShape == ASSUME Typed, Shape, Crash PROVE Shape'
<1>1. \A j \in 1..MaxJobs : job'[j].at \notin Active BY DEF Crash, NoJob, Active
<1>2. txn' = Quiet /\ Quiet.by = Nobody /\ Quiet.at = "none" BY DEF Crash, Quiet
<1>3. \A h \in Handlers : hand'[h].op = "none" BY DEF Crash, NoHand
<1>4. \A i \in 1..MaxTrials : trial'[i] = NoTrial BY DEF Crash
<1> QED BY <1>1, <1>2, <1>3, <1>4, Bounds DEF Shape

LEMMA OtherShape == ASSUME Typed, Shape, Poll \/ Chat \/ TrayToggle \/ Boot PROVE Shape'
<1> USE Bounds
<1>1. CASE Poll BY <1>1 DEF Poll, Shape
<1>2. CASE Chat
  <2>1. up /\ up' = up /\ UNCHANGED <<job, jobs, hand, trial>> BY <1>2 DEF Chat
  <2>2. txn' = Quiet \/ txn' = [Quiet EXCEPT !.by = "chat", !.op = "chat"] BY <1>2 DEF Chat
  <2>3. txn'.by \in {"chat", Nobody} /\ txn'.at = "none" BY <2>2, QuietFields
  <2>4. txn'.by # "download" BY <2>3
  <2> QED BY <2>1, <2>3, <2>4 DEF Shape
<1>3. CASE TrayToggle BY <1>3 DEF TrayToggle, Shape
<1>4. CASE Boot BY <1>4 DEF Boot, Shape
<1> QED BY <1>1, <1>2, <1>3, <1>4

LEMMA StepShape == Typed /\ Shape /\ [Next]_vars => Shape'
<1>1. UNCHANGED vars /\ Shape => Shape' BY DEF vars, Shape
<1> QED BY <1>1, RequestShape, TransactionShape, DownloadShape, TrialShape, CrashShape, OtherShape DEF Next

(***************************************************************************)
(* What is installed was verified.                                         *)
(***************************************************************************)
LEMMA InitParts == Init => PartsAgree /\ InstalledIsVerified
BY DEF Init, PartsAgree, InstalledIsVerified, NoJob

\* At most one job is past the unlink of an older one.
LEMMA OneAtWork ==
  ASSUME Typed, Shape, NEW j \in 1..MaxJobs, NEW k \in 1..MaxJobs, job[j].at \in Active, job[k].at \in Active
  PROVE  j = k
BY DEF Typed, JobsTyped, Shape

LEMMA DownloadParts ==
  ASSUME Typed, Shape, PartsAgree, InstalledIsVerified, NEW j \in 1..MaxJobs, Download(j)
  PROVE  PartsAgree' /\ InstalledIsVerified'
<1> DEFINE Good(k) ==
      /\ job[k].at = "verifying" /\ job[k].seen = "whole" => part[job[k].model] \in {"whole", "tail", "none"}
      /\ job[k].at = "installing" => part[job[k].model] \in {"whole", "none"}
<1>0. \A k \in 1..MaxJobs : Good(k) BY DEF PartsAgree
<1>1. ASSUME NEW k \in 1..MaxJobs, k # j PROVE Good(k)'
  <2>1. job'[k] = job[k]
    BY <1>1 DEF Typed, JobsTyped, Download, Prepare, Connect, Transfer, Interrupted, Verify, Unlink, Install,
         WriteManifest, ActivateInstalled, Step, Fails
  <2>2. CASE job[k].at \notin Active BY <2>1, <2>2 DEF Active
  <2>3. CASE part' = part BY <2>1, <2>3, <1>0
  <2>4. CASE job[k].at \in Active /\ part' # part
    <3>1. job[j].at \notin Active BY <1>1, <2>4, OneAtWork
    <3>2. Unlink(j)
      BY <3>1 DEF Download, Prepare, Connect, Transfer, Interrupted, Verify, Install, WriteManifest,
                  ActivateInstalled, Active
    <3>3. part' = [part EXCEPT ![job[j].model] = "none"] BY <2>4, <3>2 DEF Unlink, SetPart
    <3>4. \A m \in Models : part'[m] \in {part[m], "none"} BY <3>3 DEF Typed, FilesTyped
    <3>5. job[k].model \in Models BY <2>4 DEF Typed, JobsTyped
    <3> QED BY <2>1, <3>4, <3>5, <1>0
  <2> QED BY <2>2, <2>3, <2>4
<1>2. Good(j)'
  <2>1. job[j].model \in Models
    BY DEF Typed, JobsTyped, Active, Download, Prepare, Connect, Transfer, Interrupted, Verify, Unlink, Install,
         WriteManifest, ActivateInstalled
  <2>2. CASE Transfer(j)
    <3>1. PICK got \in {"whole", "prefix", "bad"} :
           LET seen == IF job[j].seen = "bad" THEN "bad" ELSE got IN
             /\ job' = [job EXCEPT ![j].at = "verifying", ![j].seen = seen]
             /\ SetPart(j, IF Part(j) \in {"none", "tail"} THEN Part(j) ELSE seen)
      BY <2>2 DEF Transfer
    <3> QED BY <2>1, <3>1 DEF Typed, JobsTyped, FilesTyped, SetPart, Part
  <2>3. CASE Verify(j)
    BY <2>1, <2>3, <1>0 DEF Verify, Typed, JobsTyped, FilesTyped, Step, Part
  <2>4. CASE ~Transfer(j) /\ ~Verify(j)
    <3>1. job'[j].at \notin {"verifying", "installing"} \/ job' = job
      BY ZenonT(40), <2>4 DEF Typed, JobsTyped, Download, Prepare, Connect, Interrupted, Unlink, Install,
                  WriteManifest, ActivateInstalled, Step, Fails
    <3>2. job' = job => part' = part
      BY <2>4 DEF Typed, JobsTyped, Download, Prepare, Connect, Interrupted, Unlink, Install,
                  WriteManifest, ActivateInstalled, Step, Fails
    <3> QED BY <3>1, <3>2, <1>0
  <2> QED BY <2>2, <2>3, <2>4
<1>3. InstalledIsVerified'
  <2>1. CASE gguf' = gguf BY <2>1 DEF InstalledIsVerified
  <2>2. CASE gguf' = [gguf EXCEPT ![job[j].model] = IF Part(j) = "whole" THEN "verified" ELSE "unverified"]
             /\ Part(j) # "none" /\ job[j].at = "installing"
    <3>1. Part(j) = "whole" BY <2>2, <1>0 DEF Part
    <3> QED BY <2>2, <3>1 DEF InstalledIsVerified, Typed, FilesTyped
  <2> QED BY <2>1, <2>2 DEF Download, Prepare, Connect, Transfer, Interrupted, Verify, Unlink, Install,
                            WriteManifest, ActivateInstalled, Fails
<1> QED BY <1>1, <1>2, <1>3 DEF PartsAgree

LEMMA StepParts ==
  Typed /\ Shape /\ PartsAgree /\ InstalledIsVerified /\ [Next]_vars => PartsAgree' /\ InstalledIsVerified'
<1> SUFFICES ASSUME Typed, Shape, PartsAgree, InstalledIsVerified, [Next]_vars
             PROVE  PartsAgree' /\ InstalledIsVerified'
  OBVIOUS
<1>1. CASE \E j \in 1..MaxJobs : Download(j) BY <1>1, DownloadParts
<1>2. CASE /\ UNCHANGED part
           /\ \A m \in Models : gguf'[m] \in {gguf[m], "none"}
           /\ \A j \in 1..MaxJobs : job'[j] = job[j] \/ job'[j].at \notin {"verifying", "installing"}
  BY <1>2 DEF PartsAgree, InstalledIsVerified
<1>3. ASSUME NEW h \in Handlers, Ask(h) \/ Handle(h)
      PROVE  /\ UNCHANGED part
             /\ \A m \in Models : gguf'[m] \in {gguf[m], "none"}
             /\ \A j \in 1..MaxJobs : job'[j] = job[j] \/ job'[j].at \notin {"verifying", "installing"}
  <2>1. CASE AskDownload(h) BY <2>1 DEF AskDownload, diskVars, Typed, JobsTyped
  <2>2. CASE Remove(h) BY <2>2 DEF Remove, Typed, FilesTyped
  <2>3. CASE ~AskDownload(h) /\ ~Remove(h)
    BY <1>3, <2>3 DEF Ask, Handle, AskActivate, AskDevice, AskRemove, AskBenchmark, AskQualify, AskCancel,
       CancelTrial, SetCancel, Enter, Rest, diskVars
  <2> QED BY <2>1, <2>2, <2>3
<1>4. CASE Transaction
  <2>1. UNCHANGED <<part, gguf>> BY <1>4 DEF Transaction, Kept, diskVars
  <2>2. job' = job \/ job' = [job EXCEPT ![jobs].at = "over"]
    BY <1>4 DEF Transaction, BeginActivate, BeginDevice, SaveBackup, SaveFile, UndoFile, Move, Leave,
         CommitActivation, TransactionFails, RevertDevice, BeginTrial
  <2> QED BY <1>2, <2>1, <2>2 DEF Typed, JobsTyped
<1>5. CASE \/ \E i \in 1..MaxTrials : Trial(i)
           \/ Poll \/ Chat \/ TrayToggle \/ Boot \/ UNCHANGED vars
  BY <1>2, <1>5 DEF Trial, Poll, Chat, TrayToggle, Boot, vars, diskVars
<1>6. CASE Crash BY <1>2, <1>6 DEF Crash, diskVars, NoJob
<1> QED BY <1>1, <1>2, <1>3, <1>4, <1>5, <1>6 DEF Next

\* Only a verified file is ever published, for any number of models,
\* downloads, cancellations, crashes and faults.
THEOREM PublishedIsVerified == Spec => []InstalledIsVerified
<1>1. Init => Typed /\ Shape /\ PartsAgree /\ InstalledIsVerified
  BY InitTyped, InitShape, InitParts
<1>2. Typed /\ Shape /\ PartsAgree /\ InstalledIsVerified /\ [Next]_vars
      => Typed' /\ Shape' /\ PartsAgree' /\ InstalledIsVerified'
  BY StepTyped, StepShape, StepParts
<1> QED BY <1>1, <1>2, PTL DEF Spec

(***************************************************************************)
(* The settings file and the controller.                                   *)
(***************************************************************************)
LEMMA InitAgree == Init => AgreeInv
BY DEF Init, AgreeInv, Agree, Quiet

LEMMA BeginAgree ==
  ASSUME Typed, Shape, AgreeInv, BeginActivate \/ BeginDevice, Kept PROVE AgreeInv'
<1>1. up' = up /\ txn.at = "begin" BY DEF BeginActivate, BeginDevice, Kept
<1>2. CASE BeginActivate
  <2>1. PICK c \in Choice : Load(c) /\ txn' = [txn EXCEPT !.old = c, !.new = [c EXCEPT !.model = txn.new.model],
                                             !.at = "bak"]
    BY <1>2 DEF BeginActivate
  <2>2. ~outside' => ~outside /\ settings' = settings /\ c = settings
    BY <2>1, LoadFacts DEF Typed, FilesTyped, CountsTyped
  <2>3. txn'.at = "bak" /\ txn'.op = "activate" /\ txn'.old = c
    BY <1>2, <2>1 DEF BeginActivate, Typed, WorkTyped
  <2>4. running' = running BY <1>2 DEF BeginActivate
  <2> QED BY <1>1, <2>2, <2>3, <2>4 DEF AgreeInv, Agree
<1>3. CASE BeginDevice
  <2>1. PICK c \in Choice : Load(c) /\ txn' = [txn EXCEPT !.old = c, !.new = [c EXCEPT !.device = txn.new.device],
                                             !.at = "bak"]
    BY <1>3 DEF BeginDevice
  <2>2. ~outside' => ~outside /\ settings' = settings /\ c = settings
    BY <2>1, LoadFacts DEF Typed, FilesTyped, CountsTyped
  <2>3. /\ txn'.at = "bak" /\ txn'.op = "device" /\ txn'.old = c
        /\ txn'.new = [c EXCEPT !.device = txn.new.device]
    BY <1>3, <2>1 DEF BeginDevice, Typed, WorkTyped
  <2>4. running' = [running EXCEPT !.device = txn.new.device] BY <1>3 DEF BeginDevice, Commit
  <2>5. up /\ ~outside => settings = running BY <1>1 DEF AgreeInv, Agree
  <2>6. running'.model = running.model BY <2>4 DEF Typed, FilesTyped, Choice
  <2> QED BY <1>1, <2>2, <2>3, <2>4, <2>5, <2>6 DEF AgreeInv, Agree
<1> QED BY <1>2, <1>3

LEMMA TransactionAgree == ASSUME Typed, Shape, AgreeInv, Transaction PROVE AgreeInv'
<1>0. up' = up /\ Kept BY DEF Transaction, Kept
<1>1. CASE BeginActivate \/ BeginDevice BY <1>0, <1>1, BeginAgree
<1>2. CASE SaveBackup
  BY <1>0, <1>2 DEF SaveBackup, Move, AgreeInv, Agree, Typed, WorkTyped
<1>3. CASE SaveFile
  <2>1. CASE txn.op = "activate"
    BY <1>0, <1>3, <2>1 DEF SaveFile, Move, AgreeInv, Agree, Typed, WorkTyped
  <2>2. CASE txn.op # "activate"
    BY <1>0, <1>3, <2>2 DEF SaveFile, Leave, Quiet, AgreeInv, Agree
  <2> QED BY <2>1, <2>2
<1>4. CASE UndoFile BY <1>0, <1>4 DEF UndoFile, Leave, Quiet, AgreeInv, Agree
<1>5. CASE CommitActivation BY <1>0, <1>5 DEF CommitActivation, Commit, Leave, Quiet, AgreeInv, Agree
<1>6. CASE TransactionFails
  <2>1. UNCHANGED <<settings, running, outside>> BY <1>6 DEF TransactionFails
  <2>2. CASE txn.at \in {"undo", "undoFile"}
    BY <1>0, <1>6, <2>1, <2>2 DEF TransactionFails, Leave, Quiet, AgreeInv, Agree
  <2>3. CASE txn.at \in {"bak", "file"} /\ txn.op = "activate"
    BY <1>0, <1>6, <2>1, <2>3 DEF TransactionFails, Move, AgreeInv, Agree, Typed, WorkTyped
  <2>4. CASE txn.at \in {"bak", "file"} /\ txn.op = "device"
    BY <1>0, <1>6, <2>1, <2>4 DEF TransactionFails, Move, AgreeInv, Agree, Typed, WorkTyped
  <2> QED BY <1>6, <2>2, <2>3, <2>4 DEF TransactionFails, AgreeInv
<1>7. CASE RevertDevice
  <2>1. running' = [running EXCEPT !.device = txn.old.device] /\ UNCHANGED <<settings, outside>>
    BY <1>7 DEF RevertDevice, Commit
  <2>2. txn.at = "revert" /\ txn'.at = "none" BY <1>7 DEF RevertDevice, Leave, Quiet
  <2>3. up /\ ~outside => settings = txn.old /\ running.model = txn.old.model BY <2>2 DEF AgreeInv, Agree
  <2>4. up /\ ~outside => running' = txn.old
    BY <2>1, <2>3 DEF Typed, FilesTyped, WorkTyped, Choice
  <2> QED BY <1>0, <2>1, <2>2, <2>3, <2>4 DEF AgreeInv, Agree
<1>8. CASE BeginTrial
  <2>1. txn.at \notin {"bak", "file", "revert", "undo", "undoFile", "commit"}
    BY <1>8 DEF BeginTrial, AgreeInv
  <2>2. txn.at \in {"none", "begin"} BY <2>1 DEF Typed, WorkTyped
  <2>3. txn'.at = "none" BY <1>8 DEF BeginTrial, Leave, Quiet
  <2> QED BY <1>0, <1>8, <2>2, <2>3 DEF BeginTrial, AgreeInv, Agree
<1> QED BY <1>1, <1>2, <1>3, <1>4, <1>5, <1>6, <1>7, <1>8 DEF Transaction

\* Other steps leave the transaction alone, or begin one; where they touch
\* the file or the controller, outside records it.
LEMMA QuietAgree ==
  ASSUME Typed, Shape, AgreeInv, txn' = txn \/ (txn.at = "none" /\ txn'.at \in {"none", "begin"}),
         up' = up, ~outside' => ~outside /\ UNCHANGED <<settings, running>>
  PROVE  AgreeInv'
BY DEF AgreeInv, Agree

LEMMA RequestAgree ==
  ASSUME Typed, Shape, AgreeInv, NEW h \in Handlers, Ask(h) \/ Handle(h) PROVE AgreeInv'
<1>1. up' = up /\ running' = running
  BY DEF Ask, Handle, AskActivate, AskDevice, AskRemove, AskBenchmark, AskQualify, AskDownload, AskCancel,
         CancelTrial, SetCancel, Remove, Enter, Rest
<1>2. ~outside' => ~outside /\ settings' = settings
  <2>1. CASE \E c \in Choice : Load(c) BY <2>1, LoadFacts DEF Typed, FilesTyped, CountsTyped
  <2>2. CASE Plain BY <2>2 DEF Plain
  <2> QED BY <2>1, <2>2 DEF Ask, Handle, AskActivate, AskDevice, AskRemove, AskBenchmark, AskQualify,
             AskDownload, AskCancel, CancelTrial, SetCancel, Remove, Enter
<1>3. CASE Enter(h) /\ txn' # txn
  <2>1. txn.by = Nobody /\ txn'.at = "begin" BY <1>3 DEF Enter
  <2>2. txn.at = "none" BY <2>1 DEF Shape
  <2> QED BY <1>1, <1>2, <2>1, <2>2, QuietAgree
<1>4. CASE ~(Enter(h) /\ txn' # txn)
  <2>1. txn' = txn
    BY <1>4 DEF Ask, Handle, AskActivate, AskDevice, AskRemove, AskBenchmark, AskQualify, AskDownload, AskCancel,
         CancelTrial, SetCancel, Remove, Rest
  <2> QED BY <1>1, <1>2, <2>1, QuietAgree
<1> QED BY <1>3, <1>4

LEMMA DownloadAgree ==
  ASSUME Typed, Shape, AgreeInv, NEW j \in 1..MaxJobs, Download(j) PROVE AgreeInv'
<1>1. up' = up /\ outside' = outside /\ UNCHANGED <<settings, running>> BY DEF Download
<1>2. txn' = txn \/ (txn.at = "none" /\ txn'.at \in {"none", "begin"})
  BY DEF Download, Prepare, Connect, Transfer, Interrupted, Verify, Unlink, Install, WriteManifest,
         ActivateInstalled, Fails, Shape
<1> QED BY <1>1, <1>2, QuietAgree

LEMMA TrialAgree ==
  ASSUME Typed, Shape, AgreeInv, NEW i \in 1..MaxTrials, Trial(i) PROVE AgreeInv'
<1>1. up' = up /\ txn' = txn /\ settings' = settings BY DEF Trial
<1>2. ~outside' => ~outside /\ running' = running
  BY DEF Trial, Measure, RestoreBenchmark, Qualify, RestoreQualified, Persist, Same, Typed, CountsTyped
<1> QED BY <1>1, <1>2, QuietAgree

LEMMA OtherAgree ==
  ASSUME Typed, Shape, AgreeInv, Poll \/ Chat \/ TrayToggle \/ Boot \/ Crash \/ UNCHANGED vars
  PROVE  AgreeInv'
<1>1. CASE Poll
  <2>1. ~outside' => ~outside /\ settings' = settings
    BY <1>1, LoadFacts DEF Poll, Typed, FilesTyped, CountsTyped
  <2> QED BY <1>1, <2>1, QuietAgree DEF Poll
<1>2. CASE Chat
  <2>1. txn.by = "chat" \/ txn.by = Nobody BY <1>2 DEF Chat
  <2>3. txn' = Quiet \/ txn' = [Quiet EXCEPT !.by = "chat", !.op = "chat"] BY <1>2 DEF Chat
  <2>2. txn.at = "none" /\ txn'.at = "none" BY <2>1, <2>3, QuietFields DEF Shape
  <2> QED BY <1>2, <2>2, QuietAgree DEF Chat, Plain
<1>3. CASE TrayToggle
  <2>1. ~outside' => ~outside /\ settings' = settings BY <1>3 DEF TrayToggle, Typed, CountsTyped
  <2> QED BY <1>3, <2>1, QuietAgree DEF TrayToggle
<1>4. CASE Boot
  <2>1. PICK c \in Choice : Load(c) /\ running' = c BY <1>4 DEF Boot
  <2>2. ~outside' => settings' = settings /\ c = settings
    BY <2>1, LoadFacts DEF Typed, FilesTyped, CountsTyped
  <2>3. txn' = txn /\ txn = Quiet BY <1>4 DEF Boot, Shape
  <2>4. txn'.at = "none" BY <2>3 DEF Quiet
  <2> QED BY <2>1, <2>2, <2>4 DEF AgreeInv, Agree
<1>5. CASE Crash BY <1>5 DEF Crash, Quiet, AgreeInv
<1>6. CASE UNCHANGED vars BY <1>6, QuietAgree DEF vars
<1> QED BY <1>1, <1>2, <1>3, <1>4, <1>5, <1>6

\* Between transactions settings.json and the controller agree, whatever
\* writes failed and whenever the client died.
THEOREM SelectionHolds == Spec => []SelectedIsWhatRuns
<1>1. Init => Typed /\ Shape /\ AgreeInv BY InitTyped, InitShape, InitAgree
<1>2. Typed /\ Shape /\ AgreeInv /\ [Next]_vars => Typed' /\ Shape' /\ AgreeInv'
  BY StepTyped, StepShape, RequestAgree, TransactionAgree, DownloadAgree, TrialAgree, OtherAgree DEF Next
<1>3. AgreeInv => SelectedIsWhatRuns BY DEF AgreeInv, Agree, SelectedIsWhatRuns
<1> QED BY <1>1, <1>2, <1>3, PTL DEF Spec

=============================================================================
