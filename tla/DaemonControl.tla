---------------------------- MODULE DaemonControl ----------------------------
(***************************************************************************)
(* The control file of the daemon (daemon/axp_daemon/service.py).  The     *)
(* Sources window, the tray and the CLI send commands by replacing         *)
(* control.json; the worker thread of the daemon reads the file at its     *)
(* poll points: in the main loop, between two files of a scan, while       *)
(* paused and while it waits for the embedding model.  A command names the *)
(* instance that daemon_state.json showed to its sender.  Daemons start    *)
(* one after the other (the process lock), crash and start again; both     *)
(* files outlive them.                                                     *)
(***************************************************************************)
EXTENDS Integers, FiniteSets

CONSTANTS
  Sources,       \* rows of the sources table
  Senders,       \* threads and processes that call send_control()
  Commands,      \* the commands a run lets them send
  MaxRequests,   \* bound: commands sent
  MaxInstances,  \* bound: daemons started
  CanCrash,      \* whether a daemon may die
  CatalogFails,  \* whether the database may refuse a removal
  NoSource

ASSUME ControlAssumption ==
  /\ IsFiniteSet(Sources) /\ Sources # {}
  /\ IsFiniteSet(Senders)
  /\ Commands \subseteq {"scan", "pause", "resume", "stop", "reindex", "remove"}
  /\ MaxRequests \in Nat /\ MaxInstances \in Nat
  /\ CanCrash \in BOOLEAN /\ CatalogFails \in BOOLEAN
  /\ NoSource \notin Sources

VARIABLES
  control,        \* control.json
  state,          \* daemon_state.json
  draft,          \* what each sender is about to write
  sent,           \* commands composed so far: the last request id
  known,          \* sources in the catalog
  pc,             \* where the worker of the daemon is
  inst,           \* the running daemon, or the last one
  shown,          \* publisher.value: its state and source
  stop, paused, scanRequested, reindexId, removeId, lastId,  \* DaemonControl
  firstCycle,
  todo,           \* cycle_sources still to be scanned
  obeyed,         \* ghost: how often each request was obeyed
  filesAfterStop  \* ghost: files begun after a stop was obeyed

files   == <<control, state, draft, sent>>
flags   == <<stop, paused, scanRequested, reindexId, removeId, lastId>>
vars    == <<files, known, pc, inst, shown, flags, firstCycle, todo, obeyed, filesAfterStop>>

Ids == 1..MaxRequests
Instances == 1..MaxInstances

PC == {"off", "boot", "load", "retry", "head", "idleHold", "cycle", "sources",
       "entry", "hold", "file", "scanEnd", "cycleEnd", "wait", "close"}

\* target_instance_id is absent (0) when no state file was ever published; sent
\* is requested_monotonic, counted in daemons started.
Request == [id : Ids, command : Commands, source : Sources \union {NoSource},
            target : 0..MaxInstances, sent : 0..MaxInstances]
NoRequest == [id |-> 0]
NoDraft == NoRequest

States == {"stopped", "starting", "waiting_for_model", "idle", "scanning", "paused", "stopping", "error"}
Published == [instance : 0..MaxInstances, state : States, source : Sources \union {NoSource}]
Show(name, s) == shown' = [instance |-> inst, state |-> name, source |-> s]

Init ==
  /\ control = NoRequest
  /\ state = [instance |-> 0, state |-> "stopped", source |-> NoSource]
  /\ draft = [x \in Senders |-> NoDraft]
  /\ sent = 0
  /\ known = Sources
  /\ pc = "off" /\ inst = 0
  /\ shown = state
  /\ stop = FALSE /\ paused = FALSE /\ scanRequested = FALSE
  /\ reindexId = NoSource /\ removeId = NoSource /\ lastId = 0
  /\ firstCycle = TRUE
  /\ todo = {}
  /\ obeyed = [id \in Ids |-> 0]
  /\ filesAfterStop = 0

-----------------------------------------------------------------------------
(***************************************************************************)
(* send_control().                                                         *)
(***************************************************************************)

\* The state file is read and the payload composed.  Any command may come at any
\* time: the CLI asks nothing, and what the tray and the Sources window looked at
\* before they offered Resume or a removal is seconds or a dialog old.
Compose(x) ==
  /\ draft[x] = NoDraft
  /\ sent < MaxRequests
  /\ sent' = sent + 1
  /\ \E command \in Commands, s \in Sources \union {NoSource} :
       /\ (s = NoSource) = (command \notin {"reindex", "remove"})
       /\ draft' = [draft EXCEPT ![x] =
                      [id |-> sent', command |-> command, source |-> s,
                       target |-> state.instance, sent |-> inst]]
  /\ UNCHANGED <<control, state, known, pc, inst, shown, flags, firstCycle, todo,
                 obeyed, filesAfterStop>>

\* atomic_write_json replaces whatever the file held, read or not.
Deliver(x) ==
  /\ draft[x] # NoDraft
  /\ control' = draft[x]
  /\ draft' = [draft EXCEPT ![x] = NoDraft]
  /\ UNCHANGED <<state, sent, known, pc, inst, shown, flags, firstCycle, todo,
                 obeyed, filesAfterStop>>

-----------------------------------------------------------------------------
(***************************************************************************)
(* DaemonControl.poll().                                                   *)
(***************************************************************************)
Unread == control # NoRequest /\ control.id # lastId

\* Faulty variant: the target is not compared.
ObsoleteByAge == control.sent < inst /\ control.target = 0

\* Meant for another instance, or without a target and from before this one.
Obsolete ==
  IF control.target # 0 THEN control.target # inst ELSE control.sent < inst

Obey ==
  /\ obeyed' = [obeyed EXCEPT ![control.id] = @ + 1]
  /\ stop' = (stop \/ control.command = "stop")
  /\ paused' = CASE control.command = "pause" -> TRUE
                 [] control.command = "resume" -> FALSE
                 [] OTHER -> paused
  /\ scanRequested' = (scanRequested \/ control.command \in {"resume", "scan", "reindex", "remove"})
  /\ reindexId' = IF control.command = "reindex" THEN control.source ELSE reindexId
  /\ removeId' = IF control.command = "remove" THEN control.source ELSE removeId

\* What poll() publishes for the command it obeyed.
Announced ==
  IF Unread /\ ~Obsolete
    THEN CASE control.command = "stop"   -> [shown EXCEPT !.state = "stopping"]
           [] control.command = "pause"  -> [shown EXCEPT !.state = "paused"]
           [] control.command = "resume" -> [shown EXCEPT !.state = "idle"]
           [] OTHER                      -> shown
    ELSE shown

\* Faulty variant: an obeyed request is not remembered.
PollForgetful ==
  /\ UNCHANGED lastId
  /\ IF Unread /\ ~Obsolete
       THEN Obey
       ELSE UNCHANGED <<obeyed, stop, paused, scanRequested, reindexId, removeId>>

Poll ==
  /\ lastId' = IF Unread THEN control.id ELSE lastId
  /\ IF Unread /\ ~Obsolete
       THEN Obey
       ELSE UNCHANGED <<obeyed, stop, paused, scanRequested, reindexId, removeId>>

\* A step that polls and shows nothing of its own.
Look == Poll /\ shown' = Announced
NoLook == UNCHANGED <<flags, obeyed>>

-----------------------------------------------------------------------------
(***************************************************************************)
(* Start and model provisioning.                                           *)
(***************************************************************************)

\* The memory of a process that is gone; the next one begins with it.
Fresh ==
  /\ stop' = FALSE /\ paused' = FALSE /\ scanRequested' = FALSE
  /\ reindexId' = NoSource /\ removeId' = NoSource /\ lastId' = 0
  /\ firstCycle' = TRUE /\ todo' = {}
  /\ filesAfterStop' = 0

\* The lock is acquired; publisher and control are new.
Start ==
  /\ pc = "off"
  /\ inst < MaxInstances
  /\ inst' = inst + 1
  /\ pc' = "boot"
  /\ shown' = [instance |-> inst', state |-> "starting", source |-> NoSource]
  /\ NoLook
  /\ UNCHANGED <<files, known, firstCycle, todo, filesAfterStop>>

\* publisher.start() publishes, or goes on when the file cannot be written.
Booted ==
  /\ pc = "boot"
  /\ pc' = "load"
  /\ state' = shown \/ UNCHANGED state
  /\ NoLook
  /\ UNCHANGED <<control, draft, sent, known, inst, shown, firstCycle, todo, filesAfterStop>>

\* The heartbeat thread.
Publish ==
  /\ pc \notin {"off", "boot"}
  /\ state # shown
  /\ state' = shown
  /\ UNCHANGED <<control, draft, sent, known, pc, inst, shown, flags, firstCycle,
                 todo, obeyed, filesAfterStop>>

\* The embedder is built from the cache or a download: the catalog is opened.
Provisioned ==
  /\ pc = "load"
  /\ ~stop
  /\ pc' = "head"
  /\ Show("idle", NoSource)
  /\ NoLook
  /\ UNCHANGED <<firstCycle, todo, filesAfterStop, known>>

\* A download failed: the retry delay begins.
DownloadFails ==
  /\ pc = "load"
  /\ ~stop
  /\ pc' = "retry"
  /\ Show("waiting_for_model", NoSource)
  /\ NoLook
  /\ UNCHANGED <<firstCycle, todo, filesAfterStop, known>>

\* _wait_for_model_retry: a poll, then the next look or, after the delay, the
\* next download.
AwaitRetry ==
  /\ pc = "retry"
  /\ Look
  /\ \/ stop' /\ pc' = "close"
     \/ ~stop' /\ pc' \in {"retry", "load"}
  /\ UNCHANGED <<firstCycle, todo, filesAfterStop, known>>

\* No download allowed, a broken catalog or signature: run_daemon gives up.
StartFails ==
  /\ pc = "load"
  /\ pc' = "close"
  /\ Show("error", NoSource)
  /\ NoLook
  /\ UNCHANGED <<firstCycle, todo, filesAfterStop, known>>

-----------------------------------------------------------------------------
(***************************************************************************)
(* The main loop.                                                          *)
(***************************************************************************)

\* The head of the loop.
Head ==
  /\ pc = "head"
  /\ ~stop
  /\ Look
  /\ pc' = IF paused' THEN "idleHold"
           ELSE IF firstCycle \/ scanRequested' THEN "cycle" ELSE "wait"
  /\ UNCHANGED <<firstCycle, todo, filesAfterStop, known>>

LeaveLoop ==
  /\ pc = "head"
  /\ stop
  /\ pc' = "close"
  /\ Show("stopping", NoSource)
  /\ NoLook
  /\ UNCHANGED <<firstCycle, todo, filesAfterStop, known>>

\* wait_if_paused: poll, and again every 250 ms while paused.
HeldBy(place, after) ==
  /\ pc = place
  /\ Poll
  /\ IF paused' /\ ~stop'
       THEN pc' = place /\ shown' = [Announced EXCEPT !.state = "paused"]
       ELSE /\ pc' = after
            /\ shown' = IF stop' THEN Announced ELSE [Announced EXCEPT !.state = "scanning"]
  /\ UNCHANGED <<firstCycle, todo, filesAfterStop, known>>

\* Faulty variants: the pause does not end for a stop; the pause does not poll.
IdleHoldIgnoringStop ==
  /\ pc = "idleHold"
  /\ Look
  /\ pc' = IF paused' THEN "idleHold" ELSE "head"
  /\ UNCHANGED <<firstCycle, todo, filesAfterStop, known>>

IdleHoldBlind ==
  /\ pc = "idleHold"
  /\ ~paused
  /\ pc' = "head"
  /\ NoLook
  /\ UNCHANGED <<shown, firstCycle, todo, filesAfterStop, known>>

\* The pause of the main loop and that of a scan.
IdleHold == HeldBy("idleHold", "head")
Hold == HeldBy("hold", "file")

\* The catalog after the pending removal, which is logged and dropped when the
\* database refuses it.
Remaining == {known \ {removeId}} \union (IF CatalogFails THEN {known} ELSE {})

RemovalFails == removeId # NoSource /\ ~(removeId \in known /\ removeId \notin known')
Failed == [shown EXCEPT !.state = "error"]

\* A pending removal is done, then the cycle is one source to reindex, nothing
\* when the reindex is refused, or every enabled source.
BeginCycle ==
  /\ pc = "cycle"
  /\ firstCycle' = FALSE
  /\ known' \in Remaining
  /\ IF reindexId = NoSource
       THEN todo' \in SUBSET known'
       ELSE todo' \in {{}, {reindexId} \intersect known'}
  /\ shown' = IF RemovalFails \/ (reindexId # NoSource /\ todo' = {})
               THEN Failed ELSE shown
  /\ scanRequested' = FALSE /\ reindexId' = NoSource /\ removeId' = NoSource
  /\ pc' = "sources"
  /\ UNCHANGED <<stop, paused, lastId, obeyed, filesAfterStop>>

\* The next source of the cycle, unless a stop is read.
NextSource ==
  /\ pc = "sources"
  /\ \E s \in todo :
       /\ Poll
       /\ IF stop'
            THEN /\ todo' = {}
                 /\ pc' = "cycleEnd"
                 /\ shown' = Announced
            ELSE /\ todo' = todo \ {s}
                 /\ pc' = "entry"
                 /\ Show("scanning", s)
  /\ UNCHANGED <<firstCycle, filesAfterStop, known>>

NoMoreSources ==
  /\ pc = "sources"
  /\ todo = {}
  /\ pc' = "cycleEnd"
  /\ NoLook
  /\ UNCHANGED <<shown, firstCycle, todo, filesAfterStop, known>>

\* Faulty variant: the end of a cycle forgets the requests read during it.
EndCycleClears ==
  /\ pc = "cycleEnd"
  /\ removeId' = NoSource /\ reindexId' = NoSource /\ scanRequested' = FALSE
  /\ Show(IF paused THEN "paused" ELSE "idle", NoSource)
  /\ pc' = "wait"
  /\ UNCHANGED <<known, stop, paused, lastId, obeyed, firstCycle, todo, filesAfterStop>>

\* A removal read during the cycle is done at its end.
EndCycle ==
  /\ pc = "cycleEnd"
  /\ known' \in Remaining
  /\ removeId' = NoSource
  /\ Show(IF paused THEN "paused" ELSE "idle", NoSource)
  /\ pc' = "wait"
  /\ UNCHANGED <<stop, paused, scanRequested, reindexId, lastId, obeyed, firstCycle,
                 todo, filesAfterStop>>

\* The wait between two cycles polls four times a second.
Wait ==
  /\ pc = "wait"
  /\ ~stop /\ ~scanRequested
  /\ Look
  /\ pc' = "wait"
  /\ UNCHANGED <<firstCycle, todo, filesAfterStop, known>>

\* A stop, a request or the interval ends it.
WaitEnds ==
  /\ pc = "wait"
  /\ scanRequested' = (scanRequested \/ ~stop)
  /\ pc' = "head"
  /\ UNCHANGED <<stop, paused, reindexId, removeId, lastId, shown, obeyed, firstCycle,
                 todo, filesAfterStop, known>>

-----------------------------------------------------------------------------
(***************************************************************************)
(* The poll points of scan_source().                                       *)
(***************************************************************************)

\* Faulty variants: the walk goes on after a stop; the pause is looked at
\* before the stop.
EntryAnyway ==
  /\ pc = "entry"
  /\ Look
  /\ pc' = "hold"
  /\ UNCHANGED <<firstCycle, todo, filesAfterStop, known>>

\* should_stop at a directory entry.
Entry ==
  /\ pc = "entry"
  /\ Look
  /\ pc' = IF stop' THEN "scanEnd" ELSE "hold"
  /\ UNCHANGED <<firstCycle, todo, filesAfterStop, known>>

EntriesEnd ==
  /\ pc = "entry"
  /\ pc' = "scanEnd"
  /\ NoLook
  /\ UNCHANGED <<shown, firstCycle, todo, filesAfterStop, known>>

\* One file; current_file() shows the scan again.
File ==
  /\ pc = "file"
  /\ pc' = "entry"
  /\ shown' = [shown EXCEPT !.state = "scanning"]
  /\ filesAfterStop' = IF stop THEN filesAfterStop + 1 ELSE filesAfterStop
  /\ NoLook
  /\ UNCHANGED <<firstCycle, todo, known>>

\* A file with an ignored name; or the source has been disabled and the walk ends.
PassOver ==
  /\ pc = "file"
  /\ pc' \in {"entry", "scanEnd"}
  /\ NoLook
  /\ UNCHANGED <<shown, firstCycle, todo, filesAfterStop, known>>

\* The source is offline or its scan raises.
ScanAborts ==
  /\ pc \in {"entry", "file"}
  /\ pc' = "sources"
  /\ shown' \in {shown, Failed}
  /\ NoLook
  /\ UNCHANGED <<firstCycle, todo, filesAfterStop, known>>

\* should_stop once more before the reconciliation.
ScanEnd ==
  /\ pc = "scanEnd"
  /\ Look
  /\ pc' = "sources"
  /\ UNCHANGED <<firstCycle, todo, filesAfterStop, known>>

-----------------------------------------------------------------------------

\* publisher.close() publishes for the last time, then the lock is released.
Close ==
  /\ pc = "close"
  /\ pc' = "off"
  /\ state' = IF stop THEN [shown EXCEPT !.state = "stopped"] ELSE shown
  /\ shown' = state'
  /\ Fresh
  /\ UNCHANGED <<control, draft, sent, known, inst, obeyed>>

Crash ==
  /\ CanCrash
  /\ pc # "off"
  /\ pc' = "off"
  /\ shown' = state
  /\ Fresh
  /\ UNCHANGED <<files, known, inst, obeyed>>

Work ==
  /\ \/ Provisioned
     \/ DownloadFails
     \/ AwaitRetry
     \/ StartFails
     \/ Head
     \/ LeaveLoop
     \/ IdleHold
     \/ BeginCycle
     \/ NextSource
     \/ NoMoreSources
     \/ EndCycle
     \/ Wait
     \/ WaitEnds
     \/ Entry
     \/ Hold
     \/ EntriesEnd
     \/ File
     \/ PassOver
     \/ ScanAborts
     \/ ScanEnd
  /\ UNCHANGED <<files, inst>>

Daemon == Start \/ Booted \/ Work \/ Close

Next ==
  \/ \E x \in Senders : Compose(x) \/ Deliver(x)
  \/ Daemon
  \/ Publish
  \/ Crash

Spec == Init /\ [][Next]_vars

\* A started send_control() ends; the worker goes on; a walk returns finitely
\* many entries; the interval between two cycles ends.
FairSpec ==
  /\ Spec
  /\ \A x \in Senders : WF_vars(Deliver(x))
  /\ WF_vars(Daemon)
  /\ WF_vars(Publish)
  /\ SF_vars(EntriesEnd /\ UNCHANGED <<files, inst>>)
  /\ WF_vars(WaitEnds /\ UNCHANGED <<files, inst>>)

-----------------------------------------------------------------------------
(***************************************************************************)
(* Properties.                                                             *)
(***************************************************************************)

\* Every variable keeps its type; only a live daemon is between two steps.
TypeOK ==
  /\ control \in Request \union {NoRequest}
  /\ draft \in [Senders -> Request \union {NoDraft}]
  /\ state \in Published /\ shown \in Published
  /\ sent \in 0..MaxRequests
  /\ known \subseteq Sources /\ todo \subseteq Sources
  /\ pc \in PC
  /\ inst \in 0..MaxInstances
  /\ pc # "off" => inst # 0 /\ shown.instance = inst
  /\ stop \in BOOLEAN /\ paused \in BOOLEAN /\ scanRequested \in BOOLEAN
  /\ firstCycle \in BOOLEAN
  /\ {reindexId, removeId} \subseteq Sources \union {NoSource}
  /\ lastId \in 0..MaxRequests
  /\ obeyed \in [Ids -> Nat]
  /\ filesAfterStop \in Nat

\* A request is obeyed at most once, though the file keeps it through every
\* poll, crash and restart.
ObeyedOnce == \A id \in Ids : obeyed[id] <= 1

\* A daemon obeys nothing that was asked for before it started: a stop or a
\* removal meant for its predecessor does not hit it.
NoCommandOutlivesItsDaemon ==
  [][\A id \in Ids : obeyed'[id] > obeyed[id] => control.sent = inst]_vars

\* "Work is paused at a safe file/batch boundary": no file is begun while the
\* daemon is paused, wherever in the scan the pause was read.
NoFileWhilePaused == pc = "file" => ~paused \/ stop

\* A stop is obeyed within one file.
StopIsPrompt == filesAfterStop <= 1

\* A daemon that has read a stop ends, paused or not.
StopEnds == stop ~> pc = "off"

\* A command that stays in the file is read by the daemon that runs, in every
\* phase: provisioning, paused, scanning or waiting.
EveryCommandIsRead ==
  \A id \in Ids :
    (control.id = id /\ pc # "off")
      ~> (lastId = id \/ control.id # id \/ pc = "off")

\* The catalog is open and the main loop runs.
Serving == pc \notin {"off", "boot", "load", "retry", "close"}

\* A removal that was read is done, unless another one replaces it or the
\* daemon is paused or ends.
RemovalReadIsDone ==
  \A s \in Sources :
    (removeId = s /\ s \in known /\ Serving)
      ~> (s \notin known \/ removeId \notin {s, NoSource} \/ paused \/ stop \/ pc = "off")

\* What the repository says and the code does not keep: TLC finds it violated,
\* and the README describes the disagreement.

\* "Removal request sent; indexed rows will be deleted at a safe daemon
\* boundary" (tray/axp_tray/sources_window.py:341): a removal delivered to the
\* running daemon is done, unless the daemon is paused or ends.
RemovalSentIsDone ==
  \A s \in Sources :
    (control # NoRequest /\ control.command = "remove" /\ control.source = s
       /\ control.target = inst /\ Serving)
      ~> (s \notin known \/ paused \/ stop \/ pc = "off")

=============================================================================
