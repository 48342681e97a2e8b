------------------------- MODULE Supervision_proofs -------------------------
(***************************************************************************)
(* One daemon per catalog, and the aim of a recovery, for any number of    *)
(* daemons, faults and orders.                                             *)
(***************************************************************************)
EXTENDS Supervision, TLAPS

\* A thread that is in its probe is the owner of the lock.
Probing == \A t \in Threads : pc[t] = "release" => lock = t

\* After a probe a thread goes to one of these places.
Places == {"idle", "absent", "declined", "spawn", "last look", "free"}
Returns == after \in [Threads -> Places]

\* What the state file, the UI and a recovery name has served.
HasServed(p) == p \in Daemons => life[p] \in {"serving", "stopping", "gone"}
Named == HasServed(state.inst) /\ HasServed(shown) /\ HasServed(target)

Aimed == {"challenge", "await", "verify", "match", "order", "wait end"}
Aim == pc["recovery"] \in Aimed => target \in Daemons

SupervisionInv == TypeOK /\ OneDaemon /\ Probing /\ Returns /\ Named /\ Aim

USE DEF TrayThreads, Threads

LEMMA PlacesAreLabels ==
  /\ Places \subseteq Labels \ {"release"}
  /\ Places \intersect Aimed = {}
  /\ "idle" \in Places /\ "release" \in Labels
BY DEF Places, Labels, Aimed

LEMMA InitInv == Init => SupervisionInv
<1> SUFFICES ASSUME Init PROVE SupervisionInv
  OBVIOUS
<1> USE SupervisionAssumption DEF Init
<1>1. TypeOK
  BY DEF TypeOK, Lives, Labels
<1>2. OneDaemon /\ Probing /\ Returns /\ Aim
  BY DEF OneDaemon, Probing, Returns, Places, Aim, Aimed
<1>3. Named
  BY DEF Named, HasServed
<1> QED BY <1>1, <1>2, <1>3 DEF SupervisionInv

\* A thread that only moves on, and the files it may write on the way.
LEMMA Moves ==
  ASSUME SupervisionInv, NEW t \in Threads, NEW there \in Labels \ {"release"},
         Goto(t, there), after' = after,
         seen' \in [Threads -> SUBSET Daemons],
         t = "recovery" /\ there \in Aimed => target \in Daemons,
         UNCHANGED <<state, daemons, shown, target, reason>>,
         desired' \in {"running", "stopped"}, control' \in Daemons \union {Nobody},
         registry' \in SUBSET Daemons, asked' \in Daemons \union {Nobody},
         answers' \in SUBSET {"worker", "publisher"}, tray' \in {"up", "down"},
         faults' \in 0..MaxFaults, orders' \in 0..MaxOrders
  PROVE  SupervisionInv'
<1> USE DEF Goto, daemons
<1>1. TypeOK'
  BY DEF SupervisionInv, TypeOK
<1>2. OneDaemon' /\ Returns' /\ Named'
  BY DEF SupervisionInv, OneDaemon, Returns, Named, HasServed
<1>3. Probing'
  BY DEF SupervisionInv, Probing, TypeOK
<1>4. Aim'
  BY DEF SupervisionInv, Aim, TypeOK
<1> QED BY <1>1, <1>2, <1>3, <1>4 DEF SupervisionInv

LEMMA StepKeeps ==
  ASSUME SupervisionInv, NEW t \in Threads, NEW here, NEW there \in Labels \ {"release"},
         Step(t, here, there),
         t = "recovery" /\ there \in Aimed => target \in Daemons,
         desired' \in {"running", "stopped"}, control' \in Daemons \union {Nobody}
  PROVE  SupervisionInv'
<1>1. /\ Goto(t, there) /\ after' = after /\ seen' = seen
      /\ UNCHANGED <<state, daemons, shown, target, reason>>
      /\ UNCHANGED <<registry, health, tray, bounds>>
  BY DEF Step, LocalsKept, Recovery
<1>2. /\ seen' \in [Threads -> SUBSET Daemons]
      /\ registry' \in SUBSET Daemons /\ asked' \in Daemons \union {Nobody}
      /\ answers' \in SUBSET {"worker", "publisher"} /\ tray' \in {"up", "down"}
      /\ faults' \in 0..MaxFaults /\ orders' \in 0..MaxOrders
  BY <1>1 DEF SupervisionInv, TypeOK, health, bounds
<1> QED BY <1>1, <1>2, Moves

\* A probe that finds the lock free owns it until it releases it.
LEMMA ProbeKeeps ==
  ASSUME SupervisionInv, NEW t \in TrayThreads, NEW here,
         NEW absent \in Places,
         NEW present \in Labels \ (Aimed \union {"release"}),
         Probe(t, here, absent, present)
  PROVE  SupervisionInv'
<1> USE SupervisionAssumption
<1>1. CASE lock = Nobody
  <2>1. lock' = t /\ Goto(t, "release") /\ after' = [after EXCEPT ![t] = absent]
        /\ UNCHANGED <<disk, health, life, hung, tray, seen, Recovery, bounds>>
    BY <1>1 DEF Probe
  <2> USE <2>1 DEF Goto, disk, health, Recovery, bounds
  <2>2. TypeOK'
    <3>1. pc' \in [Threads -> Labels] /\ after' \in [Threads -> Labels]
      BY PlacesAreLabels DEF SupervisionInv, TypeOK
    <3>2. lock' \in Daemons \union TrayThreads \union {Nobody}
      OBVIOUS
    <3> QED BY <3>1, <3>2 DEF SupervisionInv, TypeOK
  <2>3. OneDaemon'
    BY <1>1 DEF SupervisionInv, OneDaemon
  <2>4. Probing'
    BY <1>1 DEF SupervisionInv, Probing, TypeOK
  <2>5. Returns' /\ Named'
    BY PlacesAreLabels DEF SupervisionInv, Returns, Named, HasServed
  <2>6. Aim'
    BY DEF SupervisionInv, Aim, Aimed, TypeOK
  <2> QED BY <2>2, <2>3, <2>4, <2>5, <2>6 DEF SupervisionInv
<1>2. CASE lock # Nobody
  <2>1. Goto(t, present) /\ UNCHANGED <<lock, after>>
        /\ UNCHANGED <<disk, health, life, hung, tray, seen, Recovery, bounds>>
    BY <1>2 DEF Probe
  <2> USE <2>1 DEF Goto, disk, health, Recovery, bounds
  <2>2. TypeOK'
    <3>1. pc' \in [Threads -> Labels]
      BY DEF SupervisionInv, TypeOK
    <3> QED BY <3>1 DEF SupervisionInv, TypeOK
  <2>3. OneDaemon' /\ Returns' /\ Named'
    BY DEF SupervisionInv, OneDaemon, Returns, Named, HasServed
  <2>4. Probing' /\ Aim'
    BY DEF SupervisionInv, Probing, Aim, Aimed, TypeOK
  <2> QED BY <2>2, <2>3, <2>4 DEF SupervisionInv
<1> QED BY <1>1, <1>2

LEMMA ReleaseKeeps ==
  ASSUME SupervisionInv, NEW t \in Threads, Release(t)
  PROVE  SupervisionInv'
<1> USE SupervisionAssumption
<1>1. pc[t] = "release" /\ lock = t /\ lock' = Nobody
  BY DEF Release, SupervisionInv, Probing
<1>2. Goto(t, after[t]) /\ after' = [after EXCEPT ![t] = "idle"]
      /\ UNCHANGED <<disk, health, life, hung, tray, seen, Recovery, bounds>>
  BY DEF Release
<1>3. after[t] \in Places
  BY DEF SupervisionInv, Returns
<1> USE <1>1, <1>2, <1>3 DEF Goto, disk, health, Recovery, bounds
<1>4. TypeOK'
  <2>1. pc' \in [Threads -> Labels] /\ after' \in [Threads -> Labels]
    BY PlacesAreLabels DEF SupervisionInv, TypeOK
  <2>2. lock' \in Daemons \union TrayThreads \union {Nobody}
    OBVIOUS
  <2> QED BY <2>1, <2>2 DEF SupervisionInv, TypeOK
<1>5. OneDaemon'
  BY DEF SupervisionInv, OneDaemon
<1>6. Probing'
  BY PlacesAreLabels DEF SupervisionInv, Probing, TypeOK
<1>7. Returns' /\ Named'
  BY PlacesAreLabels DEF SupervisionInv, Returns, Named, HasServed
<1>8. Aim'
  BY PlacesAreLabels DEF SupervisionInv, Aim, TypeOK
<1> QED BY <1>4, <1>5, <1>6, <1>7, <1>8 DEF SupervisionInv

LEMMA LabelsThere ==
  /\ {"register", "registered", "idle", "absent", "present", "declined", "probe", "probe only",
      "recheck", "reprobe", "spawn", "last look", "last probe", "wait free", "free",
      "free again", "late", "late again", "freed", "ask", "forbid", "forbid again",
      "grace", "grace again", "off"} \subseteq Labels \ (Aimed \union {"release"})
  /\ Aimed \subseteq Labels \ {"release"}
BY DEF Labels, Aimed

LEMMA StartKeeps ==
  ASSUME SupervisionInv, NEW t \in Threads, StartDaemon(t)
  PROVE  SupervisionInv'
<1>1. CASE Spawn(t)
  <2> DEFINE child == CHOOSE p \in Daemons : life[p] = "unborn"
  <2>1. child \in Daemons /\ life[child] = "unborn"
    BY <1>1 DEF Spawn
  <2>2. /\ life' = [life EXCEPT ![child] = "booting"]
        /\ seen' = [seen EXCEPT ![t] = {child}]
        /\ desired' = "running" /\ Goto(t, "register")
        /\ UNCHANGED <<state, control, registry, health, lock, hung, tray, after, Recovery, bounds>>
    BY <1>1 DEF Spawn, Set
  <2> HIDE DEF child
  <2> USE <2>1, <2>2 DEF Goto, health, Recovery, bounds
  <2>3. TypeOK'
    <3>1. pc' \in [Threads -> Labels]
      BY LabelsThere DEF SupervisionInv, TypeOK
    <3>2. seen' \in [Threads -> SUBSET Daemons] /\ life' \in [Daemons -> Lives]
      BY DEF SupervisionInv, TypeOK, Lives
    <3> QED BY <3>1, <3>2 DEF SupervisionInv, TypeOK
  <2>4. OneDaemon'
    BY DEF SupervisionInv, OneDaemon, TypeOK
  <2>5. Probing' /\ Returns'
    BY DEF SupervisionInv, Probing, Returns, TypeOK
  <2>6. Named'
    BY DEF SupervisionInv, Named, HasServed, TypeOK
  <2>7. Aim'
    BY LabelsThere DEF SupervisionInv, Aim, TypeOK
  <2> QED BY <2>3, <2>4, <2>5, <2>6, <2>7 DEF SupervisionInv
<1>2. CASE ReadRegistry(t) \/ Register(t)
  <2>1. PICK there \in {"registered", "idle"} :
          /\ Goto(t, there) /\ after' = after
          /\ UNCHANGED <<desired, state, control, health, daemons, tray, Recovery, bounds>>
    BY <1>2 DEF ReadRegistry, Register, disk
  <2>2. /\ seen' \in [Threads -> SUBSET Daemons] /\ registry' \in SUBSET Daemons
    BY <1>2 DEF ReadRegistry, Register, SupervisionInv, TypeOK, disk
  <2>3. there \in Labels \ {"release"} /\ there \notin Aimed
    BY LabelsThere
  <2>4. /\ desired' \in {"running", "stopped"} /\ control' \in Daemons \union {Nobody}
        /\ asked' \in Daemons \union {Nobody}
        /\ answers' \in SUBSET {"worker", "publisher"} /\ tray' \in {"up", "down"}
        /\ faults' \in 0..MaxFaults /\ orders' \in 0..MaxOrders
        /\ UNCHANGED <<shown, target, reason>>
    BY <2>1 DEF SupervisionInv, TypeOK, health, bounds, Recovery
  <2> QED BY <2>1, <2>2, <2>3, <2>4, Moves
<1> QED BY <1>1, <1>2 DEF StartDaemon

\* What the end of some daemons leaves.
LEMMA Falls ==
  ASSUME SupervisionInv, NEW dead \in SUBSET Daemons, Ended(dead)
  PROVE  /\ life' \in [Daemons -> Lives] /\ hung' \in [Daemons -> {"nothing", "worker", "all"}]
         /\ lock' \in Daemons \union TrayThreads \union {Nobody}
         /\ OneDaemon'
         /\ \A t \in Threads : lock = t => lock' = t
         /\ \A p \in Daemons : life[p] \in {"serving", "stopping", "gone"}
                              => life'[p] \in {"serving", "stopping", "gone"}
<1> USE SupervisionAssumption DEF SupervisionInv, TypeOK, Ended
<1>1. life' \in [Daemons -> Lives] /\ hung' \in [Daemons -> {"nothing", "worker", "all"}]
  BY DEF Lives
<1>2. lock' \in Daemons \union TrayThreads \union {Nobody}
  OBVIOUS
<1>3. OneDaemon'
  BY DEF OneDaemon
<1>4. \A t \in Threads : lock = t => lock' = t
  OBVIOUS
<1> QED BY <1>1, <1>2, <1>3, <1>4

\* A thread that ends daemons on its way.
LEMMA EndsKeep ==
  ASSUME SupervisionInv, NEW t \in Threads, NEW there \in Labels \ (Aimed \union {"release"}),
         NEW dead \in SUBSET Daemons, Ended(dead), Goto(t, there), LocalsKept,
         registry' \in SUBSET Daemons,
         UNCHANGED <<desired, state, control, health, tray, bounds>>
  PROVE  SupervisionInv'
<1> USE Falls DEF Goto, LocalsKept, Recovery, health, bounds
<1>1. TypeOK'
  <2>1. pc' \in [Threads -> Labels]
    BY DEF SupervisionInv, TypeOK
  <2> QED BY <2>1 DEF SupervisionInv, TypeOK
<1>2. OneDaemon'
  OBVIOUS
<1>3. Probing'
  BY DEF SupervisionInv, Probing, TypeOK
<1>4. Returns' /\ Named'
  BY DEF SupervisionInv, Returns, Named, HasServed
<1>5. Aim'
  BY DEF SupervisionInv, Aim, TypeOK
<1> QED BY <1>1, <1>2, <1>3, <1>4, <1>5 DEF SupervisionInv

LEMMA SweepKeeps ==
  ASSUME SupervisionInv, NEW t \in Threads, NEW here,
         NEW there \in Labels \ (Aimed \union {"release"}), Sweep(t, here, there)
  PROVE  SupervisionInv'
<1>1. Owned \in SUBSET Daemons
  BY DEF Owned, SupervisionInv, TypeOK
<1>2. /\ Ended(Owned) /\ Goto(t, there) /\ LocalsKept /\ registry' \in SUBSET Daemons
      /\ UNCHANGED <<desired, state, control, health, tray, bounds>>
  BY DEF Sweep
<1> QED BY <1>1, <1>2, EndsKeep

\* What a daemon may do without a thread of the tray.
LEMMA DaemonMoves ==
  ASSUME SupervisionInv, UNCHANGED <<threads, tray, control, registry, asked>>,
         desired' \in {"running", "stopped"},
         state' \in [inst : Daemons \union {Nobody}, name : {"running", "stopping", "stopped", "error"}],
         lock' \in Daemons \union TrayThreads \union {Nobody},
         life' \in [Daemons -> Lives], hung' \in [Daemons -> {"nothing", "worker", "all"}],
         answers' \in SUBSET {"worker", "publisher"},
         faults' \in 0..MaxFaults, orders' = orders,
         OneDaemon', \A t \in Threads : lock = t => lock' = t,
         \A p \in Daemons : life[p] \in {"serving", "stopping", "gone"}
                            => life'[p] \in {"serving", "stopping", "gone"},
         HasServed(state.inst)'
  PROVE  SupervisionInv'
<1> USE DEF threads
<1>1. TypeOK'
  BY DEF SupervisionInv, TypeOK
<1>2. Probing' /\ Returns' /\ Aim'
  BY DEF SupervisionInv, Probing, Returns, Aim
<1>3. Named'
  BY DEF SupervisionInv, Named, HasServed
<1> QED BY <1>1, <1>2, <1>3 DEF SupervisionInv

LEMMA FaultCounted ==
  ASSUME SupervisionInv, Fault
  PROVE  faults' \in 0..MaxFaults /\ orders' = orders
BY SupervisionAssumption DEF SupervisionInv, TypeOK, Fault

LEMMA AcquireKeeps ==
  ASSUME SupervisionInv, NEW p \in Daemons, Acquire(p)
  PROVE  SupervisionInv'
<1> USE SupervisionAssumption DEF Acquire, OthersKept, Set, health, bounds
<1>1. /\ lock' \in Daemons \union TrayThreads \union {Nobody} /\ desired' \in {"running", "stopped"}
      /\ life' \in [Daemons -> Lives] /\ hung' = hung
      /\ UNCHANGED <<threads, tray, control, registry, health, state, bounds>>
  BY DEF SupervisionInv, TypeOK, Lives
<1>2. OneDaemon'
  BY DEF SupervisionInv, OneDaemon, TypeOK
<1>3. \A t \in Threads : lock = t => lock' = t
  OBVIOUS
<1>4. \A q \in Daemons : life[q] \in {"serving", "stopping", "gone"}
                       => life'[q] \in {"serving", "stopping", "gone"}
  BY DEF SupervisionInv, TypeOK
<1>5. HasServed(state.inst)'
  BY <1>1, <1>4 DEF SupervisionInv, Named, HasServed
<1> QED BY <1>1, <1>2, <1>3, <1>4, <1>5, DaemonMoves DEF SupervisionInv, TypeOK

\* Serving, reading a stop, showing it, answering, hanging.
LEMMA WorksKeeps ==
  ASSUME SupervisionInv, NEW p \in Daemons,
         Serve(p) \/ ReadStop(p) \/ PublishStopping(p) \/ WorkerAnswers(p) \/ PublisherAnswers(p) \/ Hang(p)
  PROVE  SupervisionInv'
<1> USE DEF Serve, ReadStop, PublishStopping, WorkerAnswers, PublisherAnswers, Hang, OthersKept,
            Set, health, bounds, daemons, disk
<1>1. /\ UNCHANGED <<threads, tray, control, registry, asked, desired, lock>>
      /\ faults' \in 0..MaxFaults /\ orders' = orders
  BY FaultCounted DEF SupervisionInv, TypeOK
<1>2. \E stage \in {"serving", "stopping"} :
        life' = life \/ (life[p] \in {"up", "serving"} /\ life' = [life EXCEPT ![p] = stage])
  <2>1. CASE Serve(p) \/ ReadStop(p)
    BY <2>1
  <2>2. CASE PublishStopping(p) \/ WorkerAnswers(p) \/ PublisherAnswers(p) \/ Hang(p)
    BY <2>2
  <2> QED BY <2>1, <2>2
<1>3. life' \in [Daemons -> Lives]
  <2>1. {"serving", "stopping"} \subseteq Lives /\ life \in [Daemons -> Lives]
    BY DEF SupervisionInv, TypeOK, Lives
  <2> QED BY ONLY <1>2, <2>1, p \in Daemons
<1>4. hung' \in [Daemons -> {"nothing", "worker", "all"}] /\ answers' \in SUBSET {"worker", "publisher"}
  BY DEF SupervisionInv, TypeOK
<1>5. state' \in [inst : Daemons \union {Nobody}, name : {"running", "stopping", "stopped", "error"}]
  BY DEF SupervisionInv, TypeOK
<1>6. OneDaemon'
  BY <1>1, <1>2 DEF SupervisionInv, OneDaemon, TypeOK
<1>7. \A q \in Daemons : life[q] \in {"serving", "stopping", "gone"}
                       => life'[q] \in {"serving", "stopping", "gone"}
  BY <1>2 DEF SupervisionInv, TypeOK
<1>8. HasServed(state.inst)'
  <2>1. CASE state' = state
    BY <2>1, <1>7 DEF SupervisionInv, Named, HasServed
  <2>2. CASE Serve(p) \/ PublishStopping(p)
    BY <2>2 DEF SupervisionInv, TypeOK, HasServed
  <2> QED BY <2>1, <2>2
<1> QED BY <1>1, <1>3, <1>4, <1>5, <1>6, <1>7, <1>8, DaemonMoves DEF SupervisionInv, TypeOK

LEMMA LeavesKeeps ==
  ASSUME SupervisionInv, NEW p \in Daemons, Finish(p) \/ Fail(p) \/ Die(p)
  PROVE  SupervisionInv'
<1> USE DEF Finish, Fail, Die, OthersKept, health, bounds, disk
<1>1. /\ UNCHANGED <<threads, tray, control, registry, asked, answers, desired>>
      /\ faults' \in 0..MaxFaults /\ orders' = orders
      /\ Ended({p})
  BY FaultCounted DEF SupervisionInv, TypeOK
<1>2. state' = state \/ \E name \in {"stopped", "error"} : state' = [inst |-> p, name |-> name]
  OBVIOUS
<1>3. state' \in [inst : Daemons \union {Nobody}, name : {"running", "stopping", "stopped", "error"}]
  BY <1>2 DEF SupervisionInv, TypeOK
<1>4. life'[p] = "gone"
  BY <1>1 DEF Ended
<1>5. HasServed(state.inst)'
  BY <1>1, <1>2, <1>4, Falls DEF SupervisionInv, Named, HasServed
<1> QED BY <1>1, <1>3, <1>5, Falls, DaemonMoves DEF SupervisionInv, TypeOK

\* What the UI thread does besides its probes.
LEMMA UiMoves ==
  ASSUME SupervisionInv, pc' \in [Threads -> Labels],
         \A t \in Threads : pc'[t] = "release" => pc[t] = "release",
         pc'["recovery"] \in Aimed => target' \in Daemons,
         shown' \in {state.inst, Nobody}, target' \in {target, shown},
         reason' \in {"heartbeat_stale", "worker_stalled"},
         UNCHANGED <<disk, health, daemons, tray, after, seen, bounds>>
  PROVE  SupervisionInv'
<1> USE SupervisionAssumption DEF disk, health, daemons, bounds
<1>1. TypeOK'
  BY DEF SupervisionInv, TypeOK
<1>2. OneDaemon' /\ Returns' /\ Probing' /\ Aim'
  BY DEF SupervisionInv, OneDaemon, Returns, Probing, Aim
<1>3. Named'
  BY DEF SupervisionInv, Named, HasServed
<1> QED BY <1>1, <1>2, <1>3 DEF SupervisionInv

LEMMA UiKeeps ==
  ASSUME SupervisionInv, Ui
  PROVE  SupervisionInv'
<1> USE LabelsThere DEF Goto
<1>1. CASE Poll
  <2>1. /\ pc' \in [Threads -> Labels] /\ pc'["recovery"] = pc["recovery"]
        /\ \A t \in Threads : pc'[t] = "release" => pc[t] = "release"
    BY <1>1 DEF Poll, SupervisionInv, TypeOK
  <2>2. /\ shown' = state.inst /\ UNCHANGED <<target, reason>>
        /\ UNCHANGED <<disk, health, daemons, tray, after, seen, bounds>>
    BY <1>1 DEF Poll
  <2> QED BY <2>1, <2>2, UiMoves DEF SupervisionInv, TypeOK, Aim
<1>2. CASE \E verdict \in {"absent", "present", "declined"} : Decline(verdict)
  <2>. pc' = [pc EXCEPT !["ui"] = "idle"] /\ "idle" \in Labels
    BY <1>2 DEF Decline
  <2>1. /\ pc' \in [Threads -> Labels] /\ pc'["recovery"] = pc["recovery"]
        /\ \A t \in Threads : pc'[t] = "release" => pc[t] = "release"
    BY DEF SupervisionInv, TypeOK
  <2>2. /\ shown' = Nobody /\ UNCHANGED <<target, reason>>
        /\ UNCHANGED <<disk, health, daemons, tray, after, seen, bounds>>
    BY <1>2 DEF Decline
  <2> QED BY <2>1, <2>2, UiMoves DEF SupervisionInv, TypeOK, Aim
<1>3. CASE RecoverAbsent
  <2>1. /\ pc' \in [Threads -> Labels] /\ pc'["recovery"] \notin Aimed
        /\ \A t \in Threads : pc'[t] = "release" => pc[t] = "release"
    BY <1>3 DEF RecoverAbsent, Recover, SupervisionInv, TypeOK
  <2>2. /\ shown' = Nobody /\ UNCHANGED <<target, reason>>
        /\ UNCHANGED <<disk, health, daemons, tray, after, seen, bounds>>
    BY <1>3 DEF RecoverAbsent, Recover
  <2> QED BY <2>1, <2>2, UiMoves DEF SupervisionInv, TypeOK
<1>4. CASE RecoverUnhealthy
  <2>1. /\ shown' = Nobody /\ target' = shown /\ reason' \in {"heartbeat_stale", "worker_stalled"}
        /\ UNCHANGED <<disk, health, daemons, tray, after, seen, bounds>>
        /\ pc' = [pc EXCEPT !["ui"] = "idle", !["recovery"] = IF shown = Nobody THEN "idle" ELSE "challenge"]
    BY <1>4 DEF RecoverUnhealthy, Recover
  <2>2. "challenge" \in Labels \ {"release"} /\ "idle" \notin Aimed
    BY DEF Aimed
  <2>3. pc' \in [Threads -> Labels] /\ \A t \in Threads : pc'[t] = "release" => pc[t] = "release"
    BY <2>1, <2>2 DEF SupervisionInv, TypeOK
  <2>4. pc'["recovery"] \in Aimed => target' \in Daemons
    BY <2>1, <2>2 DEF SupervisionInv, TypeOK
  <2> QED BY <2>1, <2>3, <2>4, UiMoves
<1>5. CASE Probe("ui", "probe", "absent", "present")
  BY <1>5, ProbeKeeps DEF Places
<1>6. CASE Probe("ui", "probe only", "declined", "declined")
  BY <1>6, ProbeKeeps DEF Places
<1>7. CASE Release("ui")
  BY <1>7, ReleaseKeeps
<1> QED BY <1>1, <1>2, <1>3, <1>4, <1>5, <1>6, <1>7 DEF Ui

\* A challenge, its end, and the look into the registry.
LEMMA ChallengeKeeps ==
  ASSUME SupervisionInv, Challenge \/ Spare \/ Deadline \/ Match
  PROVE  SupervisionInv'
<1> USE DEF Challenge, Spare, Deadline, Match, LocalsKept, Recovery, disk, health, bounds
<1>1. \E there \in {"await", "idle", "verify", "order"} : Goto("recovery", there)
  BY DEF Goto
<1>2. {"await", "idle", "verify", "order"} \subseteq Labels \ {"release"} /\ "idle" \notin Aimed
  BY LabelsThere DEF Aimed
<1>3. target \in Daemons
  BY DEF SupervisionInv, Aim, Aimed
<1>4. /\ UNCHANGED <<after, seen, shown, target, reason, desired, state, control, daemons, tray>>
      /\ asked' \in Daemons \union {Nobody} /\ answers' \in SUBSET {"worker", "publisher"}
      /\ registry' \in SUBSET Daemons
  BY <1>3 DEF SupervisionInv, TypeOK, Owned
<1>5. faults' \in 0..MaxFaults /\ orders' \in 0..MaxOrders
  BY FaultCounted DEF SupervisionInv, TypeOK
<1> QED BY <1>1, <1>2, <1>3, <1>4, <1>5, Moves DEF SupervisionInv, TypeOK

LEMMA RecoveryKeeps ==
  ASSUME SupervisionInv, RecoveryThread
  PROVE  SupervisionInv'
<1> USE LabelsThere
<1>0. desired \in {"running", "stopped"} /\ control \in Daemons \union {Nobody}
  BY DEF SupervisionInv, TypeOK
<1>1. CASE Look("recovery", "recheck", "reprobe", "idle") \/ Look("recovery", "last look", "spawn", "idle")
  <2>1. PICK here \in {"recheck", "last look"}, there \in {"reprobe", "spawn", "idle"} : Step("recovery", here, there)
    BY <1>1 DEF Look
  <2>2. there \in Labels \ {"release"} /\ there \notin Aimed
    BY <2>1
  <2>3. UNCHANGED <<desired, control>>
    BY <1>1 DEF Look
  <2> QED BY <1>0, <2>1, <2>2, <2>3, StepKeeps
<1>2. CASE Challenge \/ Spare \/ Deadline \/ Match
  BY <1>2, ChallengeKeeps
<1>3. CASE Verify
  <2>1. PICK there \in {"match", "idle"} : Step("recovery", "verify", there)
    BY <1>3 DEF Verify
  <2>2. there \in Labels \ {"release"} /\ target \in Daemons
    BY <2>1 DEF Step, SupervisionInv, Aim, Aimed
  <2>3. UNCHANGED <<desired, control>>
    BY <1>3 DEF Verify
  <2> QED BY <1>0, <2>1, <2>2, <2>3, StepKeeps
<1>4. CASE SendStop("recovery", "order", "wait end", target)
  <2>1. "wait end" \in Labels \ {"release"} /\ target \in Daemons
    BY <1>4 DEF SendStop, Step, SupervisionInv, Aim, Aimed
  <2> QED BY <1>0, <1>4, <2>1, StepKeeps DEF SendStop
<1>5. CASE EndTarget
  <2>1. target \in Daemons
    BY <1>5 DEF EndTarget, SupervisionInv, Aim, Aimed
  <2>2. /\ Ended({target}) /\ Goto("recovery", "last probe") /\ LocalsKept
        /\ UNCHANGED <<desired, state, control, registry, health, tray, bounds>>
    BY <1>5 DEF EndTarget, disk
  <2>3. {target} \in SUBSET Daemons /\ registry' \in SUBSET Daemons
    BY <2>1, <2>2 DEF SupervisionInv, TypeOK
  <2>4. "last probe" \in Labels \ (Aimed \union {"release"})
    OBVIOUS
  <2> QED BY <2>2, <2>3, <2>4, EndsKeep
<1>6. CASE Probe("recovery", "reprobe", "spawn", "idle") \/ Probe("recovery", "last probe", "last look", "idle")
  BY <1>6, ProbeKeeps DEF Places
<1>7. CASE Release("recovery") \/ StartDaemon("recovery")
  BY <1>7, ReleaseKeeps, StartKeeps
<1> QED BY <1>1, <1>2, <1>3, <1>4, <1>5, <1>6, <1>7 DEF RecoveryThread

LEMMA AddresseeTyped == SupervisionInv => Addressee \in Daemons \union {Nobody}
BY DEF SupervisionInv, TypeOK, Addressee

LEMMA OrdersKeep ==
  ASSUME SupervisionInv, Restart \/ (Exit /\ ~Off) \/ Cli
  PROVE  SupervisionInv'
<1> USE LabelsThere
<1>0. /\ desired \in {"running", "stopped"} /\ control \in Daemons \union {Nobody}
      /\ Addressee \in Daemons \union {Nobody}
  BY AddresseeTyped DEF SupervisionInv, TypeOK
<1>1. ASSUME NEW t \in Threads \ {"recovery"}, NEW here, NEW there \in Labels \ {"release"},
             SendStop(t, here, there, Addressee)
      PROVE  SupervisionInv'
  BY <1>0, <1>1, StepKeeps DEF SendStop
<1>2. ASSUME NEW t \in Threads \ {"recovery"}, NEW here, NEW there \in Labels \ {"release"},
             Write(t, here, there, "stopped")
      PROVE  SupervisionInv'
  BY <1>0, <1>2, StepKeeps DEF Write
<1>3. CASE Restart
  <2>1. CASE SendStop("restart", "ask", "wait free", Addressee)
    BY <2>1, <1>1
  <2>2. CASE Step("restart", "wait free", "late") /\ UNCHANGED <<desired, control>>
    BY <1>0, <2>2, StepKeeps
  <2>3. CASE \/ CleanUp("restart", "free", "free again", "spawn")
             \/ CleanUp("restart", "late", "late again", "freed")
    BY <2>3, SweepKeeps DEF CleanUp
  <2>4. CASE \/ Probe("restart", "wait free", "free", "wait free")
             \/ Probe("restart", "freed", "spawn", "idle")
    BY <2>4, ProbeKeeps DEF Places
  <2>5. CASE Release("restart") \/ StartDaemon("restart")
    BY <2>5, ReleaseKeeps, StartKeeps
  <2> QED BY <1>3, <2>1, <2>2, <2>3, <2>4, <2>5 DEF Restart
<1>4. CASE Exit /\ ~Off
  <2>1. CASE Write("exit", "forbid", "ask", "stopped") \/ Write("exit", "forbid again", "grace", "stopped")
    BY <2>1, <1>2
  <2>2. CASE SendStop("exit", "ask", "forbid again", Addressee)
    BY <2>2, <1>1
  <2>3. CASE CleanUp("exit", "grace", "grace again", "off")
    BY <2>3, SweepKeeps DEF CleanUp
  <2> QED BY <1>4, <2>1, <2>2, <2>3 DEF Exit
<1>5. CASE Cli
  <2>1. CASE SendStop("cli", "ask", "forbid", Addressee)
    BY <2>1, <1>1
  <2>2. CASE Write("cli", "forbid", "idle", "stopped")
    BY <2>2, <1>2
  <2> QED BY <1>5, <2>1, <2>2 DEF Cli
<1> QED BY <1>3, <1>4, <1>5

LEMMA OffKeeps ==
  ASSUME SupervisionInv, Off
  PROVE  SupervisionInv'
<1> USE SupervisionAssumption, LabelsThere, PlacesAreLabels DEF Off, disk, health, Recovery, bounds
<1>1. TypeOK'
  <2>1. pc' \in [Threads -> Labels] /\ after' \in [Threads -> Labels]
    BY DEF SupervisionInv, TypeOK
  <2> QED BY <2>1 DEF SupervisionInv, TypeOK
<1>2. OneDaemon'
  BY DEF SupervisionInv, OneDaemon
<1>3. Probing'
  BY DEF SupervisionInv, Probing, TypeOK
<1>4. Returns' /\ Named'
  BY DEF SupervisionInv, Returns, Named, HasServed
<1>5. Aim'
  BY DEF SupervisionInv, Aim
<1> QED BY <1>1, <1>2, <1>3, <1>4, <1>5 DEF SupervisionInv

LEMMA UserKeeps ==
  ASSUME SupervisionInv, User
  PROVE  SupervisionInv'
<1>1. CASE Launch
  <2>1. TypeOK' /\ OneDaemon' /\ Probing' /\ Returns' /\ Named' /\ Aim'
    BY <1>1 DEF Launch, SupervisionInv, TypeOK, OneDaemon, Probing, Returns, Named, HasServed, Aim,
                health, daemons, threads, bounds
  <2> QED BY <2>1 DEF SupervisionInv
<1>2. CASE \/ Begin("restart", "restart", "ask") \/ Begin("exit", "exit", "forbid") \/ Begin("stop", "cli", "ask")
  <2>1. \E t \in {"restart", "exit", "cli"}, there \in {"ask", "forbid"} : Goto(t, there)
    BY <1>2 DEF Begin
  <2>2. /\ UNCHANGED <<after, seen, shown, target, reason, disk, health, daemons, tray, faults>>
        /\ orders' \in 0..MaxOrders
    BY <1>2, SupervisionAssumption DEF Begin, LocalsKept, Recovery, Order, SupervisionInv, TypeOK
  <2>3. /\ UNCHANGED <<state, daemons, shown, target, reason>>
        /\ seen' \in [Threads -> SUBSET Daemons]
        /\ desired' \in {"running", "stopped"} /\ control' \in Daemons \union {Nobody}
        /\ registry' \in SUBSET Daemons /\ asked' \in Daemons \union {Nobody}
        /\ answers' \in SUBSET {"worker", "publisher"} /\ tray' \in {"up", "down"}
        /\ faults' \in 0..MaxFaults
    BY <2>2 DEF SupervisionInv, TypeOK, disk, health
  <2> QED BY <2>1, <2>2, <2>3, LabelsThere, Moves
<1> QED BY <1>1, <1>2 DEF User

LEMMA NextKeeps == SupervisionInv /\ [Next]_vars => SupervisionInv'
<1> SUFFICES ASSUME SupervisionInv, [Next]_vars PROVE SupervisionInv'
  OBVIOUS
<1>1. CASE \E p \in Daemons : DaemonStep(p) \/ Fail(p) \/ Die(p) \/ Hang(p)
  BY <1>1, AcquireKeeps, WorksKeeps, LeavesKeeps DEF DaemonStep, Advance
<1>2. CASE Ui
  BY <1>2, UiKeeps
<1>3. CASE RecoveryThread
  BY <1>3, RecoveryKeeps
<1>4. CASE Restart \/ Exit \/ Cli
  BY <1>4, OrdersKeep, OffKeeps
<1>5. CASE User
  BY <1>5, UserKeeps
<1>6. CASE UNCHANGED vars
  BY <1>6 DEF vars, disk, health, daemons, threads, bounds, SupervisionInv, TypeOK, OneDaemon,
              Probing, Returns, Named, HasServed, Aim
<1> QED BY <1>1, <1>2, <1>3, <1>4, <1>5, <1>6 DEF Next

THEOREM Invariance == Spec => []SupervisionInv
BY InitInv, NextKeeps, PTL DEF Spec

\* The type invariant of the component.
THEOREM TypesHold == Spec => []TypeOK
<1>1. SupervisionInv => TypeOK
  BY DEF SupervisionInv
<1> QED BY <1>1, Invariance, PTL

\* At most one process of any number is past the lock (service.py: run_daemon),
\* although every probe takes the lock for a moment (locking.py).
THEOREM OneDaemonHolds == Spec => []OneDaemon
<1>1. SupervisionInv => OneDaemon
  BY DEF SupervisionInv
<1> QED BY <1>1, Invariance, PTL

\* A recovery never ends a daemon that is only starting, whatever was started
\* since its snapshot (process.py: recover_unhealthy_daemon).
THEOREM RecoveryAimHolds == Spec => []RecoveryEndsTheHolder
<1>1. SupervisionInv => RecoveryEndsTheHolder
  BY DEF SupervisionInv, RecoveryEndsTheHolder, Aim, Aimed, Named, HasServed, OneDaemon, Alive
<1> QED BY <1>1, Invariance, PTL

=============================================================================
