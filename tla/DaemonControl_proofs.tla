------------------------ MODULE DaemonControl_proofs ------------------------
(***************************************************************************)
(* The control protocol of the daemon for any sources, senders and bounds: *)
(* requests are obeyed at most once and only by the daemon that was running*)
(* when they were sent, no file is begun while paused, and a stop lets one *)
(* more file through at most.                                              *)
(***************************************************************************)
EXTENDS DaemonControl, TLAPS

-----------------------------------------------------------------------------
(***************************************************************************)
(* The inductive invariant.                                                *)
(***************************************************************************)

\* A composed request carries a used id, and names an instance no younger
\* than the one that ran when it was composed.
Aged(r) == r.id <= sent /\ r.target <= r.sent /\ r.sent <= inst

FilesAged ==
  /\ state.instance <= inst
  /\ shown.instance <= inst
  /\ control # NoRequest => Aged(control)
  /\ \A x \in Senders : draft[x] # NoDraft => Aged(draft[x])

\* What is still to be written was never obeyed and is unlike anything else.
DraftsNew ==
  /\ \A x \in Senders : draft[x] # NoDraft => obeyed[draft[x].id] = 0
  /\ \A x \in Senders : draft[x] # NoDraft /\ control # NoRequest => draft[x].id # control.id
  /\ \A x, y \in Senders :
       draft[x] # NoDraft /\ draft[y] # NoDraft /\ x # y => draft[x].id # draft[y].id
  /\ \A id \in Ids : id > sent => obeyed[id] = 0

\* The daemon that runs will not obey the request in the file once more.
NotAgain ==
  control # NoRequest /\ obeyed[control.id] # 0 /\ pc # "off"
    => lastId = control.id \/ Obsolete

\* After the one file a stop lets through, the scan is on its way out.
OnTheWayOut ==
  filesAfterStop # 0 => stop /\ filesAfterStop = 1 /\ pc \notin {"hold", "file"}

RequestInv == TypeOK /\ FilesAged /\ DraftsNew /\ ObeyedOnce /\ NotAgain
ControlInv == RequestInv /\ NoFileWhilePaused /\ OnTheWayOut

\* What a step of the worker does to the requests: it polls or it does not.
Reads == Poll \/ UNCHANGED <<obeyed, lastId>>

-----------------------------------------------------------------------------
LEMMA InitInv == Init => ControlInv
<1> SUFFICES ASSUME Init PROVE ControlInv
  OBVIOUS
<1> USE DEF Init
<1>1. state \in Published /\ shown \in Published
  BY ControlAssumption DEF Published, States
<1>2. TypeOK
  <2>1. control \in Request \union {NoRequest} /\ draft \in [Senders -> Request \union {NoDraft}]
    BY DEF NoDraft
  <2>2. sent \in 0..MaxRequests /\ inst \in 0..MaxInstances /\ lastId \in 0..MaxRequests
    BY ControlAssumption
  <2>3. obeyed \in [Ids -> Nat] /\ filesAfterStop \in Nat
    OBVIOUS
  <2>4. pc \in PC /\ {reindexId, removeId} \subseteq Sources \union {NoSource}
    BY DEF PC
  <2> QED BY <1>1, <2>1, <2>2, <2>3, <2>4 DEF TypeOK
<1>3. FilesAged /\ DraftsNew
  BY DEF FilesAged, DraftsNew, Ids
<1>4. ObeyedOnce /\ NotAgain /\ NoFileWhilePaused /\ OnTheWayOut
  BY DEF ObeyedOnce, NotAgain, NoFileWhilePaused, OnTheWayOut, Ids
<1> QED BY <1>2, <1>3, <1>4 DEF ControlInv, RequestInv

\* A poll of a live daemon keeps the flags well typed.
LEMMA PollTyped ==
  ASSUME TypeOK, Poll
  PROVE  /\ stop' \in BOOLEAN /\ paused' \in BOOLEAN /\ scanRequested' \in BOOLEAN
         /\ {reindexId', removeId'} \subseteq Sources \union {NoSource}
         /\ lastId' \in 0..MaxRequests
         /\ obeyed' \in [Ids -> Nat]
         /\ Announced \in Published /\ Announced.instance = shown.instance
<1>1. CASE ~Unread
  <2>1. UNCHANGED <<obeyed, stop, paused, scanRequested, reindexId, removeId, lastId>>
    BY <1>1 DEF Poll
  <2>2. Announced = shown
    BY <1>1 DEF Announced
  <2> QED BY <2>1, <2>2 DEF TypeOK
<1>2. CASE Unread
  <2>1. control \in Request
    BY <1>2 DEF Unread, TypeOK
  <2>2. CASE Obsolete
    <3>1. UNCHANGED <<obeyed, stop, paused, scanRequested, reindexId, removeId>>
      BY <1>2, <2>2 DEF Poll
    <3>2. lastId' = control.id /\ control.id \in Ids
      BY <1>2, <2>1 DEF Poll, Request
    <3>3. Announced = shown
      BY <2>2 DEF Announced
    <3> QED BY <3>1, <3>2, <3>3 DEF TypeOK, Ids
  <2>3. CASE ~Obsolete
    <3>1. Obey
      BY <1>2, <2>3 DEF Poll
    <3>2. /\ stop' \in BOOLEAN /\ scanRequested' \in BOOLEAN
          /\ {reindexId', removeId'} \subseteq Sources \union {NoSource}
      BY <2>1, <3>1 DEF Obey, TypeOK, Request
    <3>3. paused' \in BOOLEAN
      <4>1. paused' \in {TRUE, FALSE, paused}
        BY <3>1 DEF Obey
      <4> QED BY <4>1 DEF TypeOK
    <3>4. lastId' \in 0..MaxRequests /\ obeyed' \in [Ids -> Nat]
      BY <1>2, <2>1, <3>1 DEF Poll, Obey, TypeOK, Request, Ids
    <3>5. Announced \in Published /\ Announced.instance = shown.instance
      <4>1. Announced \in {[shown EXCEPT !.state = "stopping"], [shown EXCEPT !.state = "paused"],
                            [shown EXCEPT !.state = "idle"], shown}
        BY DEF Announced
      <4> QED BY <4>1 DEF Published, States, TypeOK
    <3> QED BY <3>2, <3>3, <3>4, <3>5
  <2> QED BY <2>2, <2>3
<1> QED BY <1>1, <1>2

\* A worker step that leaves the files and the instance alone keeps what the
\* requests promise.
LEMMA ReadsKeep ==
  ASSUME RequestInv, Reads, UNCHANGED <<files, inst>>, pc # "off",
         shown'.instance <= inst
  PROVE  (FilesAged /\ DraftsNew /\ ObeyedOnce /\ NotAgain)'
<1> USE DEF RequestInv
<1>1. FilesAged'
  BY DEF FilesAged, Aged, files
<1>2. CASE UNCHANGED <<obeyed, lastId>>
  BY <1>1, <1>2 DEF DraftsNew, ObeyedOnce, NotAgain, Obsolete, files
<1>3. CASE Poll /\ ~(Unread /\ ~Obsolete)
  <2>1. UNCHANGED obeyed /\ lastId' = IF Unread THEN control.id ELSE lastId
    BY <1>3 DEF Poll
  <2> QED BY <1>1, <1>3, <2>1 DEF DraftsNew, ObeyedOnce, NotAgain, Obsolete, Unread, files
<1>4. CASE Poll /\ Unread /\ ~Obsolete
  <2>1. /\ control \in Request /\ lastId # control.id /\ lastId' = control.id
        /\ obeyed' = [obeyed EXCEPT ![control.id] = @ + 1]
    BY <1>4 DEF Poll, Obey, Unread, TypeOK
  <2>2. obeyed[control.id] = 0
    BY <1>4, <2>1 DEF NotAgain, Unread
  <2>3. obeyed \in [Ids -> Nat] /\ control.id \in Ids
    BY <2>1 DEF TypeOK, Request
  <2>4. ObeyedOnce'
    BY <2>1, <2>2, <2>3 DEF ObeyedOnce
  <2>5. NotAgain'
    BY <2>1 DEF NotAgain, files
  <2>6. DraftsNew'
    <3>1. ASSUME NEW x \in Senders, draft[x] # NoDraft
          PROVE  obeyed'[draft[x].id] = 0
      <4>1. draft[x] \in Request /\ draft[x].id # control.id
        BY <1>4, <3>1 DEF DraftsNew, Unread, TypeOK
      <4> QED BY <2>1, <2>3, <3>1, <4>1 DEF DraftsNew, Request
    <3>2. ASSUME NEW id \in Ids, id > sent
          PROVE  obeyed'[id] = 0
      BY <1>4, <2>1, <2>3, <3>2 DEF DraftsNew, FilesAged, Aged, Unread, Ids, TypeOK
    <3> QED BY <3>1, <3>2 DEF DraftsNew, files
  <2> QED BY <1>1, <2>4, <2>5, <2>6
<1> QED BY <1>2, <1>3, <1>4 DEF Reads

-----------------------------------------------------------------------------
\* A command composed from the state file is new and no older than its target.
LEMMA ComposeKeeps ==
  ASSUME ControlInv, NEW x \in Senders, Compose(x)
  PROVE  ControlInv'
<1> USE DEF ControlInv, RequestInv
<1>1. PICK command \in Commands, s \in Sources \union {NoSource} :
        draft' = [draft EXCEPT ![x] =
                    [id |-> sent', command |-> command, source |-> s,
                     target |-> state.instance, sent |-> inst]]
  BY DEF Compose
<1> DEFINE r == [id |-> sent', command |-> command, source |-> s,
                 target |-> state.instance, sent |-> inst]
<1>2. sent \in Nat /\ sent' = sent + 1 /\ sent' \in Ids
  BY ControlAssumption DEF Compose, TypeOK, Ids
<1>3. UNCHANGED <<control, state, known, pc, inst, shown, flags, firstCycle, todo, obeyed, filesAfterStop>>
  BY DEF Compose
<1>4. r \in Request
  BY <1>2 DEF Request, TypeOK, Published
<1>5. /\ draft' \in [Senders -> Request \union {NoDraft}]
      /\ draft'[x] = r
      /\ \A y \in Senders : y # x => draft'[y] = draft[y]
  BY <1>1, <1>4 DEF TypeOK
<1>6. r # NoDraft
  BY <1>2 DEF NoDraft, NoRequest, Ids
<1>7. TypeOK'
  BY <1>2, <1>3, <1>5 DEF TypeOK, flags, Ids
<1>8. FilesAged'
  <2>1. control # NoRequest => Aged(control)'
    <3>1. control # NoRequest => control \in Request
      BY DEF TypeOK
    <3> QED BY <1>2, <1>3, <3>1 DEF FilesAged, Aged, Request, Ids
  <2>2. ASSUME NEW y \in Senders, draft'[y] # NoDraft
        PROVE  Aged(draft[y])'
    <3>1. CASE y = x
      BY <1>2, <1>3, <1>5, <3>1 DEF Aged, FilesAged, Ids, TypeOK
    <3>2. CASE y # x
      <4>1. draft'[y] = draft[y] /\ draft[y] \in Request
        BY <1>5, <2>2, <3>2 DEF TypeOK
      <4> QED BY <1>2, <1>3, <2>2, <4>1 DEF Aged, FilesAged, Request, Ids
    <3> QED BY <3>1, <3>2
  <2> QED BY <1>3, <2>1, <2>2 DEF FilesAged
<1>9. DraftsNew'
  <2>1. \A y \in Senders : y # x /\ draft'[y] # NoDraft => draft'[y] = draft[y] /\ draft[y] \in Request /\ draft[y].id <= sent
    BY <1>5 DEF TypeOK, FilesAged, Aged
  <2>2. control # NoRequest => control \in Request /\ control.id <= sent
    BY DEF TypeOK, FilesAged, Aged
  <2>3. obeyed[sent'] = 0
    BY <1>2 DEF DraftsNew
  <2>4. \A y \in Senders : draft'[y] # NoDraft => obeyed'[draft'[y].id] = 0
    BY <1>3, <1>5, <2>1, <2>3 DEF DraftsNew
  <2>5. \A y \in Senders : draft'[y] # NoDraft /\ control' # NoRequest => draft'[y].id # control'.id
    BY <1>2, <1>3, <1>5, <2>1, <2>2 DEF DraftsNew, Request, Ids
  <2>6. \A y, z \in Senders :
          draft'[y] # NoDraft /\ draft'[z] # NoDraft /\ y # z => draft'[y].id # draft'[z].id
    BY <1>2, <1>5, <2>1 DEF DraftsNew, Request, Ids
  <2>7. \A id \in Ids : id > sent' => obeyed'[id] = 0
    BY <1>2, <1>3 DEF DraftsNew, Ids
  <2> QED BY <2>4, <2>5, <2>6, <2>7 DEF DraftsNew
<1>10. (ObeyedOnce /\ NotAgain /\ NoFileWhilePaused /\ OnTheWayOut)'
  BY <1>3 DEF ObeyedOnce, NotAgain, NoFileWhilePaused, OnTheWayOut, Obsolete, flags
<1> QED BY <1>7, <1>8, <1>9, <1>10

\* The file is replaced by a request that nobody obeyed yet.
LEMMA DeliverKeeps ==
  ASSUME ControlInv, NEW x \in Senders, Deliver(x)
  PROVE  ControlInv'
<1> USE DEF ControlInv, RequestInv
<1>1. /\ draft[x] # NoDraft /\ control' = draft[x]
      /\ draft' = [draft EXCEPT ![x] = NoDraft]
      /\ UNCHANGED <<state, sent, known, pc, inst, shown, flags, firstCycle, todo, obeyed, filesAfterStop>>
  BY DEF Deliver
<1>2. draft[x] \in Request /\ Aged(draft[x]) /\ obeyed[draft[x].id] = 0
  BY <1>1 DEF TypeOK, FilesAged, DraftsNew
<1>3. /\ draft' \in [Senders -> Request \union {NoDraft}]
      /\ \A y \in Senders : draft'[y] # NoDraft => y # x /\ draft'[y] = draft[y]
  BY <1>1 DEF TypeOK
<1>4. TypeOK'
  BY <1>1, <1>2, <1>3 DEF TypeOK, flags
<1>5. FilesAged'
  BY <1>1, <1>2, <1>3 DEF FilesAged, Aged
<1>6. DraftsNew'
  BY <1>1, <1>2, <1>3 DEF DraftsNew
<1>7. (ObeyedOnce /\ NotAgain /\ NoFileWhilePaused /\ OnTheWayOut)'
  BY <1>1, <1>2 DEF ObeyedOnce, NotAgain, NoFileWhilePaused, OnTheWayOut, flags
<1> QED BY <1>4, <1>5, <1>6, <1>7

-----------------------------------------------------------------------------
(***************************************************************************)
(* The steps of the worker.  Each one reads at most one request; what it   *)
(* does to the rest is Sound.                                              *)
(***************************************************************************)
Sound == TypeOK' /\ Reads /\ NoFileWhilePaused' /\ OnTheWayOut'

FlagsTyped ==
  /\ stop \in BOOLEAN /\ paused \in BOOLEAN /\ scanRequested \in BOOLEAN
  /\ {reindexId, removeId} \subseteq Sources \union {NoSource}
  /\ lastId \in 0..MaxRequests
  /\ obeyed \in [Ids -> Nat]

\* What a live daemon shows carries its own name, with any state and source.
LEMMA ShownTyped ==
  ASSUME TypeOK, pc # "off", NEW name \in States, NEW s \in Sources \union {NoSource}
  PROVE  /\ [instance |-> inst, state |-> name, source |-> s] \in Published
         /\ [shown EXCEPT !.state = name] \in Published
         /\ [shown EXCEPT !.state = name].instance = inst
         /\ shown \in Published /\ shown.instance = inst
  BY DEF TypeOK, Published

LEMMA TypedAgain ==
  ASSUME TypeOK, pc # "off", UNCHANGED <<files, inst>>, FlagsTyped',
         pc' \in PC, shown' \in Published, shown'.instance = inst,
         known' \subseteq Sources, todo' \subseteq Sources,
         firstCycle' \in BOOLEAN, filesAfterStop' \in Nat
  PROVE  TypeOK'
  BY DEF TypeOK, FlagsTyped, files

LEMMA FlagsKept ==
  ASSUME TypeOK, UNCHANGED <<flags, obeyed>>
  PROVE  FlagsTyped'
  BY DEF TypeOK, FlagsTyped, flags

LEMMA FlagsPolled ==
  ASSUME TypeOK, Poll
  PROVE  FlagsTyped'
  BY PollTyped DEF FlagsTyped

\* A stop that was read is never taken back by a poll.
LEMMA StopStays ==
  ASSUME Poll, stop
  PROVE  stop'
  BY DEF Poll, Obey

\* Provisioning and the main loop outside a scan.
LEMMA LoopSteps ==
  ASSUME ControlInv, UNCHANGED <<files, inst>>,
         \/ Provisioned \/ DownloadFails \/ AwaitRetry \/ StartFails
         \/ Head \/ LeaveLoop \/ IdleHold \/ Wait \/ WaitEnds
  PROVE  Sound /\ pc # "off"
<1> USE DEF ControlInv, RequestInv, NoLook
<1> DEFINE Quiet == /\ NoLook /\ UNCHANGED <<firstCycle, todo, filesAfterStop, known>>
                    /\ pc \notin {"off", "hold", "file"} /\ pc' \in PC \ {"hold", "file"}
                    /\ shown' \in Published /\ shown'.instance = inst
           Polled == /\ Poll /\ UNCHANGED <<firstCycle, todo, filesAfterStop, known>>
                     /\ pc \notin {"off", "hold", "file"} /\ pc' \in PC \ {"hold", "file"}
                     /\ shown' \in Published /\ shown'.instance = inst
<1>1. ASSUME Quiet PROVE Sound /\ pc # "off"
  <2>1. TypeOK'
    BY <1>1, FlagsKept, TypedAgain DEF TypeOK
  <2> QED BY <1>1, <2>1 DEF Sound, Reads, NoFileWhilePaused, OnTheWayOut, flags
<1>2. ASSUME Polled PROVE Sound /\ pc # "off"
  <2>1. TypeOK'
    BY <1>2, FlagsPolled, TypedAgain DEF TypeOK
  <2> QED BY <1>2, <2>1, StopStays DEF Sound, Reads, NoFileWhilePaused, OnTheWayOut
<1>3. CASE Provisioned \/ DownloadFails \/ StartFails \/ LeaveLoop
  <2>1. Quiet
    BY <1>3, ShownTyped DEF Provisioned, DownloadFails, StartFails, LeaveLoop, Show, PC, States
  <2> QED BY <1>1, <2>1
<1>4. CASE AwaitRetry \/ Head \/ Wait
  <2>1. Poll /\ pc # "off" /\ shown' = Announced
    BY <1>4 DEF AwaitRetry, Head, Wait, Look
  <2>2. Polled
    BY <1>4, <2>1, PollTyped DEF AwaitRetry, Head, Wait, PC, TypeOK
  <2> QED BY <1>2, <2>2
<1>5. CASE IdleHold
  <2>1. /\ Poll /\ pc = "idleHold" /\ pc' \in {"idleHold", "head"}
        /\ shown' \in {Announced, [Announced EXCEPT !.state = "paused"],
                                 [Announced EXCEPT !.state = "scanning"]}
    BY <1>5 DEF IdleHold, HeldBy
  <2>2. shown' \in Published /\ shown'.instance = inst
    BY <2>1, PollTyped DEF Published, States, TypeOK
  <2>3. Polled
    BY <1>5, <2>1, <2>2 DEF IdleHold, HeldBy, PC
  <2> QED BY <1>2, <2>3
<1>6. CASE WaitEnds
  <2>1. TypeOK' /\ pc # "off"
    BY <1>6 DEF WaitEnds, TypeOK, PC, files
  <2> QED BY <1>6, <2>1 DEF Sound, Reads, WaitEnds, NoFileWhilePaused, OnTheWayOut
<1> QED BY <1>3, <1>4, <1>5, <1>6

\* The steps of a cycle between two scans.
LEMMA CycleSteps ==
  ASSUME ControlInv, UNCHANGED <<files, inst>>,
         BeginCycle \/ NextSource \/ NoMoreSources \/ EndCycle
  PROVE  Sound /\ pc # "off"
<1> USE DEF ControlInv, RequestInv
<1>1. CASE BeginCycle
  <2>1. pc = "cycle" /\ pc' = "sources" /\ known' \subseteq Sources /\ todo' \subseteq Sources
    BY <1>1 DEF BeginCycle, Remaining, TypeOK
  <2>2. shown' \in {shown, [shown EXCEPT !.state = "error"]}
    BY <1>1 DEF BeginCycle, Failed
  <2>3. shown' \in Published /\ shown'.instance = inst
    BY <2>1, <2>2, ShownTyped DEF States
  <2>4. FlagsTyped' /\ UNCHANGED <<obeyed, lastId, stop, paused, filesAfterStop>>
    BY <1>1 DEF BeginCycle, FlagsTyped, TypeOK
  <2>5. TypeOK'
    BY <1>1, <2>1, <2>3, <2>4, TypedAgain DEF BeginCycle, PC, TypeOK
  <2> QED BY <2>1, <2>4, <2>5 DEF Sound, Reads, NoFileWhilePaused, OnTheWayOut
<1>2. CASE NextSource
  <2>1. PICK s \in todo :
          /\ Poll
          /\ IF stop'
               THEN todo' = {} /\ pc' = "cycleEnd" /\ shown' = Announced
               ELSE todo' = todo \ {s} /\ pc' = "entry" /\ Show("scanning", s)
    BY <1>2 DEF NextSource
  <2>2. /\ pc = "sources" /\ pc' \in {"cycleEnd", "entry"}
        /\ todo' \subseteq Sources /\ s \in Sources
    BY <1>2, <2>1 DEF NextSource, TypeOK
  <2>3. shown' \in Published /\ shown'.instance = inst
    <3>1. shown \in Published /\ shown.instance = inst
      BY <2>2, ShownTyped DEF States
    <3>2. CASE stop'
      BY <2>1, <3>1, <3>2, PollTyped
    <3>3. CASE ~stop'
      BY <2>1, <2>2, <3>3 DEF Show, Published, States, TypeOK
    <3> QED BY <3>2, <3>3
  <2>4. TypeOK'
    BY <1>2, <2>1, <2>2, <2>3, FlagsPolled, TypedAgain DEF NextSource, PC, TypeOK
  <2> QED BY <1>2, <2>1, <2>2, <2>4, StopStays
          DEF NextSource, Sound, Reads, NoFileWhilePaused, OnTheWayOut
<1>3. CASE NoMoreSources
  <2>1. TypeOK' /\ pc # "off"
    BY <1>3 DEF NoMoreSources, NoLook, TypeOK, PC, files, flags
  <2> QED BY <1>3, <2>1
          DEF NoMoreSources, NoLook, Sound, Reads, NoFileWhilePaused, OnTheWayOut, flags
<1>4. CASE EndCycle
  <2>1. pc = "cycleEnd" /\ pc' = "wait" /\ known' \subseteq Sources
    BY <1>4 DEF EndCycle, Remaining, TypeOK
  <2>2. shown' \in Published /\ shown'.instance = inst
    BY <1>4, <2>1, ShownTyped DEF EndCycle, Show, States
  <2>3. FlagsTyped' /\ UNCHANGED <<obeyed, lastId, stop, paused, filesAfterStop>>
    BY <1>4 DEF EndCycle, FlagsTyped, TypeOK
  <2>4. TypeOK'
    BY <1>4, <2>1, <2>2, <2>3, TypedAgain DEF EndCycle, PC, TypeOK
  <2> QED BY <2>1, <2>3, <2>4 DEF Sound, Reads, NoFileWhilePaused, OnTheWayOut
<1> QED BY <1>1, <1>2, <1>3, <1>4

\* The steps of a scan.
LEMMA ScanSteps ==
  ASSUME ControlInv, UNCHANGED <<files, inst>>,
         Entry \/ Hold \/ EntriesEnd \/ File \/ PassOver \/ ScanAborts \/ ScanEnd
  PROVE  Sound /\ pc # "off"
<1> USE DEF ControlInv, RequestInv
<1>1. CASE Entry \/ ScanEnd
  <2>1. /\ Poll /\ shown' = Announced /\ pc \in {"entry", "scanEnd"}
        /\ UNCHANGED <<firstCycle, todo, filesAfterStop, known>>
    BY <1>1 DEF Entry, ScanEnd, Look
  <2>2. pc' \in {"scanEnd", "hold", "sources"} /\ (pc' = "hold" => ~stop')
    BY <1>1 DEF Entry, ScanEnd
  <2>3. TypeOK'
    BY <2>1, <2>2, PollTyped, FlagsPolled, TypedAgain DEF PC, TypeOK
  <2> QED BY <2>1, <2>2, <2>3, StopStays DEF Sound, Reads, NoFileWhilePaused, OnTheWayOut
<1>2. CASE Hold
  <2>1. /\ Poll /\ pc = "hold" /\ pc' \in {"hold", "file"}
        /\ UNCHANGED <<firstCycle, todo, filesAfterStop, known>>
        /\ pc' = "file" => ~paused' \/ stop'
    BY <1>2 DEF Hold, HeldBy
  <2>2. shown' \in {Announced, [Announced EXCEPT !.state = "paused"],
                              [Announced EXCEPT !.state = "scanning"]}
    BY <1>2 DEF Hold, HeldBy
  <2>3. shown' \in Published /\ shown'.instance = inst
    BY <2>1, <2>2, PollTyped DEF Published, States, TypeOK
  <2>4. TypeOK'
    BY <2>1, <2>3, FlagsPolled, TypedAgain DEF PC, TypeOK
  <2> QED BY <2>1, <2>4 DEF Sound, Reads, NoFileWhilePaused, OnTheWayOut
<1>3. CASE EntriesEnd \/ PassOver \/ ScanAborts
  <2>1. /\ UNCHANGED <<flags, obeyed, firstCycle, todo, filesAfterStop, known>>
        /\ pc \in {"entry", "file"} /\ pc' \in {"entry", "scanEnd", "sources"}
        /\ shown' \in {shown, [shown EXCEPT !.state = "error"]}
    BY <1>3 DEF EntriesEnd, PassOver, ScanAborts, NoLook, Failed
  <2>2. TypeOK'
    BY <2>1, ShownTyped, FlagsKept, TypedAgain DEF PC, States, TypeOK
  <2> QED BY <2>1, <2>2 DEF Sound, Reads, NoFileWhilePaused, OnTheWayOut, flags
<1>4. CASE File
  <2>1. /\ UNCHANGED <<flags, obeyed, firstCycle, todo, known>>
        /\ pc = "file" /\ pc' = "entry"
        /\ shown' = [shown EXCEPT !.state = "scanning"]
        /\ filesAfterStop' = IF stop THEN filesAfterStop + 1 ELSE filesAfterStop
    BY <1>4 DEF File, NoLook
  <2>2. filesAfterStop = 0
    BY <2>1 DEF OnTheWayOut
  <2>3. shown' \in Published /\ shown'.instance = inst /\ filesAfterStop' \in Nat
    <3>1. shown' \in Published /\ shown'.instance = inst
      BY <2>1, ShownTyped DEF States
    <3>2. filesAfterStop' \in Nat
      BY <2>1, <2>2
    <3> QED BY <3>1, <3>2
  <2>4. TypeOK'
    BY <2>1, <2>3, FlagsKept, TypedAgain DEF PC, TypeOK
  <2> QED BY <2>1, <2>2, <2>4 DEF Sound, Reads, NoFileWhilePaused, OnTheWayOut, flags
<1> QED BY <1>1, <1>2, <1>3, <1>4

-----------------------------------------------------------------------------
\* Work leaves the daemon alive; only Close and Crash end it.
LEMMA WorkGoesOn ==
  ASSUME ControlInv, Work
  PROVE  pc' # "off"
  BY DEF Work, Provisioned, DownloadFails, AwaitRetry, StartFails, Head, LeaveLoop, IdleHold,
         Hold, HeldBy, BeginCycle, NextSource, NoMoreSources, EndCycle, Wait, WaitEnds, Entry,
         EntriesEnd, File, PassOver, ScanAborts, ScanEnd

LEMMA WorkKeeps ==
  ASSUME ControlInv, Work
  PROVE  ControlInv'
<1>1. UNCHANGED <<files, inst>> /\ Sound /\ pc # "off"
  BY LoopSteps, CycleSteps, ScanSteps DEF Work
<1>2. shown'.instance <= inst
  <2>1. inst' = inst /\ TypeOK' /\ FilesAged
    BY <1>1 DEF Sound, ControlInv, RequestInv
  <2>2. shown'.instance = inst
    BY <1>1, <2>1, WorkGoesOn DEF TypeOK
  <2> QED BY <2>1, <2>2 DEF TypeOK
<1>3. (FilesAged /\ DraftsNew /\ ObeyedOnce /\ NotAgain)'
  BY <1>1, <1>2, ReadsKeep DEF Sound, ControlInv
<1> QED BY <1>1, <1>3 DEF Sound, ControlInv, RequestInv

\* The daemon that starts is younger than every request that was obeyed.
LEMMA StartKeeps ==
  ASSUME ControlInv, Start
  PROVE  ControlInv'
<1> USE DEF ControlInv, RequestInv
<1>1. /\ pc = "off" /\ pc' = "boot" /\ inst < MaxInstances /\ inst' = inst + 1
      /\ shown' = [instance |-> inst', state |-> "starting", source |-> NoSource]
      /\ UNCHANGED <<files, flags, obeyed, known, firstCycle, todo, filesAfterStop>>
  BY DEF Start, NoLook
<1>2. inst \in Nat /\ inst' \in 1..MaxInstances
  BY <1>1, ControlAssumption DEF TypeOK
<1>3. shown' \in Published
  BY <1>1, <1>2 DEF Published, States
<1>4. TypeOK'
  BY <1>1, <1>2, <1>3 DEF TypeOK, PC, files, flags
<1>5. control # NoRequest => control.target <= control.sent /\ control.sent <= inst
                             /\ control.target \in Nat /\ control.sent \in Nat
  BY DEF FilesAged, Aged, TypeOK, Request
<1>6. FilesAged'
  <2>1. ASSUME NEW x \in Senders, draft[x] # NoDraft
        PROVE  Aged(draft[x])'
    <3>1. draft[x] \in Request /\ Aged(draft[x])
      BY <2>1 DEF TypeOK, FilesAged
    <3> QED BY <1>1, <1>2, <3>1 DEF Aged, Request, files
  <2>2. control # NoRequest => Aged(control)'
    BY <1>1, <1>2, <1>5 DEF FilesAged, Aged, files
  <2>3. state'.instance <= inst' /\ shown'.instance <= inst'
    BY <1>1, <1>2 DEF FilesAged, files, TypeOK, Published
  <2> QED BY <1>1, <2>1, <2>2, <2>3 DEF FilesAged, files
<1>7. NotAgain'
  BY <1>1, <1>2, <1>5 DEF NotAgain, Obsolete, files
<1>8. (DraftsNew /\ ObeyedOnce /\ NoFileWhilePaused /\ OnTheWayOut)'
  BY <1>1 DEF DraftsNew, ObeyedOnce, NoFileWhilePaused, OnTheWayOut, files, flags
<1> QED BY <1>4, <1>6, <1>7, <1>8

\* Publishing changes nothing but the state file.
LEMMA PublishKeeps ==
  ASSUME ControlInv, Booted \/ Publish
  PROVE  ControlInv'
<1> USE DEF ControlInv, RequestInv
<1>1. /\ state' \in {state, shown} /\ pc # "off"
      /\ pc' = pc \/ (pc = "boot" /\ pc' = "load")
      /\ UNCHANGED <<control, draft, sent, known, inst, shown, flags, obeyed, firstCycle, todo, filesAfterStop>>
  BY DEF Booted, Publish, NoLook
<1>2. TypeOK'
  BY <1>1 DEF TypeOK, PC, flags
<1>3. FilesAged'
  BY <1>1 DEF FilesAged, Aged
<1>4. (DraftsNew /\ ObeyedOnce /\ NotAgain /\ NoFileWhilePaused /\ OnTheWayOut)'
  BY <1>1 DEF DraftsNew, ObeyedOnce, NotAgain, Obsolete, NoFileWhilePaused, OnTheWayOut, flags
<1> QED BY <1>2, <1>3, <1>4

\* The memory of the process goes; the files stay.
LEMMA EndKeeps ==
  ASSUME ControlInv, Close \/ Crash
  PROVE  ControlInv'
<1> USE DEF ControlInv, RequestInv
<1>1. /\ pc # "off" /\ pc' = "off" /\ Fresh /\ shown' = state'
      /\ state' \in {state, shown, [shown EXCEPT !.state = "stopped"]}
      /\ UNCHANGED <<control, draft, sent, known, inst, obeyed>>
  BY DEF Close, Crash, files
<1>2. state' \in Published /\ state'.instance <= inst
  <2>1. CASE state' = state
    BY <2>1 DEF FilesAged, TypeOK
  <2>2. CASE state' = shown
    BY <2>2 DEF FilesAged, TypeOK
  <2>3. CASE state' = [shown EXCEPT !.state = "stopped"]
    <3>1. state' \in Published /\ state'.instance = inst
      BY <1>1, <2>3, ShownTyped DEF States
    <3> QED BY <3>1 DEF TypeOK
  <2> QED BY <1>1, <2>1, <2>2, <2>3
<1>3. TypeOK'
  <2>1. FlagsTyped' /\ firstCycle' \in BOOLEAN /\ todo' \subseteq Sources /\ filesAfterStop' \in Nat
    <3>1. lastId' \in 0..MaxRequests
      BY <1>1, ControlAssumption DEF Fresh
    <3>2. obeyed' \in [Ids -> Nat]
      BY <1>1 DEF TypeOK
    <3> QED BY <1>1, <3>1, <3>2 DEF Fresh, FlagsTyped
  <2> QED BY <1>1, <1>2, <2>1 DEF TypeOK, FlagsTyped, PC
<1>4. FilesAged'
  BY <1>1, <1>2 DEF FilesAged, Aged
<1>5. (DraftsNew /\ ObeyedOnce /\ NotAgain /\ NoFileWhilePaused /\ OnTheWayOut)'
  BY <1>1 DEF DraftsNew, ObeyedOnce, NotAgain, Fresh, NoFileWhilePaused, OnTheWayOut
<1> QED BY <1>3, <1>4, <1>5

LEMMA StutterKeeps ==
  ASSUME ControlInv, UNCHANGED vars
  PROVE  ControlInv'
<1> USE DEF ControlInv, RequestInv, vars, files, flags
<1>1. TypeOK'
  BY DEF TypeOK
<1>2. FilesAged'
  BY DEF FilesAged, Aged
<1>3. (DraftsNew /\ ObeyedOnce /\ NotAgain /\ NoFileWhilePaused /\ OnTheWayOut)'
  BY DEF DraftsNew, ObeyedOnce, NotAgain, Obsolete, NoFileWhilePaused, OnTheWayOut
<1> QED BY <1>1, <1>2, <1>3

LEMMA NextKeeps ==
  ASSUME ControlInv, [Next]_vars
  PROVE  ControlInv'
<1>1. CASE \E x \in Senders : Compose(x) \/ Deliver(x)
  BY <1>1, ComposeKeeps, DeliverKeeps
<1>2. CASE Daemon
  BY <1>2, StartKeeps, PublishKeeps, WorkKeeps, EndKeeps DEF Daemon
<1>3. CASE Publish \/ Crash
  BY <1>3, PublishKeeps, EndKeeps
<1>4. CASE UNCHANGED vars
  BY <1>4, StutterKeeps
<1> QED BY <1>1, <1>2, <1>3, <1>4 DEF Next

\* Every reachable state satisfies the invariant of the control protocol.
THEOREM ControlInvariant == Spec => []ControlInv
  BY InitInv, NextKeeps, PTL DEF Spec

\* Every variable keeps its type and a live daemon shows its own name, for any
\* sources, senders and bounds.
THEOREM TypeCorrect == Spec => []TypeOK
  BY ControlInvariant, PTL DEF ControlInv, RequestInv

\* poll() obeys a request at most once, whatever crashes and restarts in between.
THEOREM RequestsObeyedOnce == Spec => []ObeyedOnce
  BY ControlInvariant, PTL DEF ControlInv, RequestInv

\* The scan never begins a file while the daemon is paused.
THEOREM PauseHolds == Spec => []NoFileWhilePaused
  BY ControlInvariant, PTL DEF ControlInv

\* A stop that was read lets at most one more file begin.
THEOREM StopWithinOneFile == Spec => []StopIsPrompt
<1>1. ControlInv => StopIsPrompt
  BY DEF ControlInv, OnTheWayOut, StopIsPrompt
<1> QED BY <1>1, ControlInvariant, PTL

\* A daemon obeys nothing that was sent before it started.
THEOREM CommandsDieWithTheirDaemon == Spec => NoCommandOutlivesItsDaemon
<1>1. ASSUME ControlInv, [Next]_vars, NEW id \in Ids, obeyed'[id] > obeyed[id]
      PROVE  control.sent = inst
  <2>1. obeyed' # obeyed
    BY <1>1 DEF ControlInv, RequestInv, TypeOK
  <2>2. Work
    BY <1>1, <2>1 DEF Next, Compose, Deliver, Daemon, Start, Booted, NoLook, Close, Publish,
                      Crash, vars
  <2>3. Reads
    BY <1>1, <2>2, LoopSteps, CycleSteps, ScanSteps DEF Work, Sound
  <2>4. Unread /\ ~Obsolete
    BY <2>1, <2>3 DEF Reads, Poll
  <2>5. control \in Request /\ control.target <= control.sent /\ control.sent <= inst
    BY <1>1, <2>4 DEF ControlInv, RequestInv, TypeOK, FilesAged, Aged, Unread
  <2>6. inst \in Nat
    BY <1>1 DEF ControlInv, RequestInv, TypeOK
  <2> QED BY <2>4, <2>5, <2>6 DEF Obsolete, Request
<1>2. ControlInv /\ [Next]_vars
        => [\A id \in Ids : obeyed'[id] > obeyed[id] => control.sent = inst]_vars
  BY <1>1
<1> QED BY <1>2, ControlInvariant, PTL DEF Spec, NoCommandOutlivesItsDaemon

=============================================================================
