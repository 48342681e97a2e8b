----------------------------- MODULE Supervision -----------------------------
(***************************************************************************)
(* Who keeps the daemon running: the tray (tray/axp_tray/process.py,       *)
(* state.py, app.py) starts daemon processes, watches their state file and *)
(* their OS lock, challenges one that looks dead, ends it and starts       *)
(* another, as long as desired_state.json says "running".  The user stops, *)
(* restarts and exits meanwhile.  The lock is also probed by taking it     *)
(* (shared/axp_core/locking.py).  Interactive mode: the daemon is a child  *)
(* of the tray.  How long the watchdog waits is left open here.            *)
(***************************************************************************)
EXTENDS Naturals

CONSTANTS
  Daemons,      \* the daemon processes that may ever be started
  Nobody,       \* no process
  MaxFaults,    \* bound: crashes, hangs, failures and late answers
  MaxOrders,    \* bound: what the user does
  Orders        \* the things a run lets the user do

ASSUME SupervisionAssumption ==
  /\ MaxFaults \in Nat /\ MaxOrders \in Nat
  /\ Orders \subseteq {"stop", "restart", "exit", "launch"}
  /\ Nobody \notin Daemons
  /\ Daemons \intersect {"ui", "recovery", "restart", "exit", "cli"} = {}
  /\ Nobody \notin {"ui", "recovery", "restart", "exit", "cli"}

VARIABLES
  desired,   \* desired_state.json
  state,     \* daemon_state.json: the instance and its state
  control,   \* control.json: the instance its stop is meant for
  registry,  \* processes.json: the daemons the tray started
  lock,      \* the OS lock of the catalog: a daemon or a probing thread
  life,      \* each daemon process
  hung,      \* what of it no longer answers
  asked,     \* daemon_health_probe.json: the instance asked, while an answer counts
  answers,   \* who has answered: its worker, its publisher
  tray,      \* the tray process
  pc,        \* the threads of the tray, and the CLI
  after,     \* where a probe of the lock returns to
  seen,      \* a child started and the registry it is added to
  shown,     \* the instance in the state file the UI has read
  target,    \* the instance a recovery is about
  reason,    \* and why
  faults, orders

disk    == <<desired, state, control, registry>>
health  == <<asked, answers>>
daemons == <<lock, life, hung>>
threads == <<pc, after, seen, shown, target, reason>>
bounds  == <<faults, orders>>
vars    == <<disk, health, daemons, tray, threads, bounds>>

TrayThreads == {"ui", "recovery", "restart", "exit"}
Threads == TrayThreads \union {"cli"}

Lives == {"unborn", "booting", "up", "serving", "stopping", "gone"}
Alive(p) == life[p] \notin {"unborn", "gone"}

Labels == {"idle", "release",
           "probe", "probe only", "absent", "present", "declined",
           "recheck", "reprobe", "challenge", "await", "verify", "match", "order",
           "wait end", "last probe", "last look", "spawn", "register", "registered",
           "ask", "wait free", "free", "free again", "late", "late again", "freed",
           "forbid", "forbid again", "grace", "grace again", "off"}

Init ==
  /\ desired = "running"
  /\ state = [inst |-> Nobody, name |-> "stopped"]
  /\ control = Nobody
  /\ registry = {}
  /\ lock = Nobody
  /\ life = [p \in Daemons |-> "unborn"]
  /\ hung = [p \in Daemons |-> "nothing"]
  /\ asked = Nobody /\ answers = {}
  /\ tray = "up"
  /\ pc = [t \in Threads |-> "idle"]
  /\ after = [t \in Threads |-> "idle"]
  /\ seen = [t \in Threads |-> {}]
  /\ shown = Nobody /\ target = Nobody /\ reason = "heartbeat_stale"
  /\ faults = 0 /\ orders = 0

Goto(t, label) == pc' = [pc EXCEPT ![t] = label]
Recovery == <<shown, target, reason>>
LocalsKept == UNCHANGED <<after, seen, Recovery>>

-----------------------------------------------------------------------------
(***************************************************************************)
(* The daemon process.                                                     *)
(***************************************************************************)
Set(p, stage) == life' = [life EXCEPT ![p] = stage]
Fault == faults < MaxFaults /\ faults' = faults + 1 /\ UNCHANGED orders
OthersKept == UNCHANGED <<health, tray, threads, bounds, registry, control>>

\* Faulty variant: the daemon takes no notice of the owner of the lock.
AcquireAnyway(p) ==
  /\ life[p] = "booting"
  /\ lock' = p /\ desired' = "running" /\ Set(p, "up")
  /\ OthersKept /\ UNCHANGED <<state, hung>>

\* run_daemon takes the lock or ends with "already_running".  It writes the
\* desired state, whoever started it and whatever was wanted since.
Acquire(p) ==
  /\ life[p] = "booting"
  /\ IF lock = Nobody
       THEN lock' = p /\ desired' = "running" /\ Set(p, "up")
       ELSE Set(p, "gone") /\ UNCHANGED <<lock, desired>>
  /\ OthersKept /\ UNCHANGED <<state, hung>>

\* publisher.start(): from here on it reads commands.
Serve(p) ==
  /\ life[p] = "up"
  /\ state' = [inst |-> p, name |-> "running"]
  /\ Set(p, "serving")
  /\ OthersKept /\ UNCHANGED <<desired, lock, hung>>

\* poll() reads a stop meant for this instance.
ReadStop(p) ==
  /\ life[p] = "serving" /\ hung[p] = "nothing"
  /\ control = p
  /\ Set(p, "stopping")
  /\ OthersKept /\ UNCHANGED <<desired, state, lock, hung>>

\* The heartbeat may come while the file in hand is finished; that file shows
\* as "scanning" again.
PublishStopping(p) ==
  /\ life[p] = "stopping" /\ hung[p] # "all"
  /\ \E name \in {"stopping", "running"} : state' = [inst |-> p, name |-> name]
  /\ OthersKept /\ UNCHANGED <<desired, daemons>>

\* The process is over and the operating system gives up its lock.
Ended(dead) ==
  /\ life' = [p \in Daemons |-> IF p \in dead THEN "gone" ELSE life[p]]
  /\ lock' = IF lock \in dead THEN Nobody ELSE lock
  /\ hung' = [p \in Daemons |-> IF p \in dead THEN "nothing" ELSE hung[p]]

\* run_daemon returns: publisher.close() writes the last state, the lock is
\* released and the process ends.
Finish(p) ==
  /\ life[p] = "stopping" /\ hung[p] = "nothing"
  /\ state' = [inst |-> p, name |-> "stopped"]
  /\ Ended({p})
  /\ OthersKept /\ UNCHANGED desired

\* It raised: the state stays "error".
Fail(p) ==
  /\ Fault
  /\ life[p] = "serving" /\ hung[p] = "nothing"
  /\ state' = [inst |-> p, name |-> "error"]
  /\ Ended({p})
  /\ UNCHANGED <<desired, control, registry, health, tray, threads>>

\* poll() answers the probe; so does every heartbeat.
WorkerAnswers(p) ==
  /\ life[p] \in {"serving", "stopping"} /\ hung[p] = "nothing"
  /\ asked = p
  /\ answers' = answers \union {"worker"}
  /\ UNCHANGED <<disk, asked, daemons, tray, threads, bounds>>

PublisherAnswers(p) ==
  /\ life[p] \in {"serving", "stopping"} /\ hung[p] # "all"
  /\ asked = p
  /\ answers' = answers \union {"publisher"}
  /\ UNCHANGED <<disk, asked, daemons, tray, threads, bounds>>

Die(p) ==
  /\ Fault
  /\ Alive(p)
  /\ Ended({p})
  /\ UNCHANGED <<disk, health, tray, threads>>

\* The worker hangs in native code, or the whole process does.
Hang(p) ==
  /\ Fault
  /\ life[p] \in {"serving", "stopping"} /\ hung[p] = "nothing"
  /\ \E what \in {"worker", "all"} : hung' = [hung EXCEPT ![p] = what]
  /\ UNCHANGED <<disk, health, lock, life, tray, threads>>

Advance(p) ==
  \/ Acquire(p)
  \/ Serve(p)
  \/ ReadStop(p)
  \/ Finish(p)

DaemonStep(p) ==
  \/ Advance(p)
  \/ PublishStopping(p)
  \/ WorkerAnswers(p)
  \/ PublisherAnswers(p)

-----------------------------------------------------------------------------
(***************************************************************************)
(* Procedures that several threads run.                                    *)
(***************************************************************************)

\* daemon_instance_running(): the lock is taken to see whether it can be.
Probe(t, here, absent, present) ==
  /\ pc[t] = here
  /\ IF lock = Nobody
       THEN /\ lock' = t
            /\ Goto(t, "release")
            /\ after' = [after EXCEPT ![t] = absent]
       ELSE Goto(t, present) /\ UNCHANGED <<lock, after>>
  /\ UNCHANGED <<disk, health, life, hung, tray, seen, Recovery, bounds>>

Release(t) ==
  /\ pc[t] = "release"
  /\ lock' = Nobody
  /\ Goto(t, after[t])
  /\ after' = [after EXCEPT ![t] = "idle"]
  /\ UNCHANGED <<disk, health, life, hung, tray, seen, Recovery, bounds>>

\* A step that only goes on, one that writes desired or control as well.
Step(t, here, there) ==
  /\ pc[t] = here
  /\ Goto(t, there)
  /\ LocalsKept
  /\ UNCHANGED <<state, registry, health, daemons, tray, bounds>>

Write(t, here, there, value) ==
  Step(t, here, there) /\ desired' = value /\ UNCHANGED control

\* The instance a stop is sent to: the one the state file shows; before the
\* first state file, the daemon that has started by then.
Addressee ==
  IF state.inst # Nobody THEN state.inst
  ELSE IF lock \in Daemons /\ life[lock] = "up" THEN lock
  ELSE Nobody

SendStop(t, here, there, p) ==
  Step(t, here, there) /\ control' = p /\ UNCHANGED desired

Look(t, here, yes, no) ==
  Step(t, here, IF desired = "running" THEN yes ELSE no) /\ UNCHANGED <<desired, control>>

\* start_daemon(): the desired state and the process; then its entry, for
\* which register_process reads the registry and writes it anew.
Spawn(t) ==
  /\ pc[t] = "spawn"
  /\ desired' = "running"
  /\ \E p \in Daemons : life[p] = "unborn"
  /\ LET child == CHOOSE p \in Daemons : life[p] = "unborn"
     IN Set(child, "booting") /\ seen' = [seen EXCEPT ![t] = {child}]
  /\ Goto(t, "register")
  /\ UNCHANGED <<state, control, registry, health, lock, hung, tray, after, Recovery, bounds>>

ReadRegistry(t) ==
  /\ pc[t] = "register"
  /\ seen' = [seen EXCEPT ![t] = @ \union registry]
  /\ Goto(t, "registered")
  /\ UNCHANGED <<disk, health, daemons, tray, after, Recovery, bounds>>

\* Faulty variant: the process that registers enters itself.
RegisterItself(t) ==
  /\ pc[t] = "registered"
  /\ registry' = seen[t] \union {t}
  /\ seen' = [seen EXCEPT ![t] = {}]
  /\ Goto(t, "idle")
  /\ UNCHANGED <<desired, state, control, health, daemons, tray, after, Recovery, bounds>>

Register(t) ==
  /\ pc[t] = "registered"
  /\ registry' = seen[t]
  /\ seen' = [seen EXCEPT ![t] = {}]
  /\ Goto(t, "idle")
  /\ UNCHANGED <<desired, state, control, health, daemons, tray, after, Recovery, bounds>>

StartDaemon(t) == Spawn(t) \/ ReadRegistry(t) \/ Register(t)

\* verified_owned_processes(): the live entries of the registry.
Owned == {p \in registry : Alive(p)}

\* cleanup_owned_processes(): verify and terminate, verify and kill; the dead
\* are struck off.  An exit first gives the daemons five seconds to end.
Sweep(t, here, there) ==
  /\ pc[t] = here
  /\ Ended(Owned)
  /\ registry' = {}
  /\ Goto(t, there)
  /\ LocalsKept /\ UNCHANGED <<desired, state, control, health, tray, bounds>>

CleanUp(t, here, again, there) == Sweep(t, here, again) \/ Sweep(t, again, there)

-----------------------------------------------------------------------------
(***************************************************************************)
(* The UI thread polls; it starts a recovery unless one is under way or    *)
(* the watchdog declines (its cooldowns and grace periods).                *)
(***************************************************************************)
Poll ==
  /\ tray = "up" /\ pc["exit"] = "idle" /\ pc["ui"] = "idle"
  /\ desired = "running"
  /\ shown' = state.inst
  /\ Goto("ui", IF state.name = "stopping" THEN "probe only" ELSE "probe")
  /\ UNCHANGED <<disk, health, daemons, tray, after, seen, target, reason, bounds>>

Decline(verdict) ==
  /\ pc["ui"] = verdict
  /\ Goto("ui", "idle")
  /\ shown' = Nobody
  /\ UNCHANGED <<disk, health, daemons, tray, after, seen, target, reason, bounds>>

Recover(verdict, first) ==
  /\ pc["ui"] = verdict /\ pc["recovery"] = "idle"
  /\ pc' = [pc EXCEPT !["ui"] = "idle", !["recovery"] = first]
  /\ shown' = Nobody
  /\ UNCHANGED <<disk, health, daemons, tray, after, seen, bounds>>

RecoverAbsent == Recover("absent", "recheck") /\ UNCHANGED <<target, reason>>

\* A heartbeat may look stale and a worker stalled though nothing is wrong; a
\* heartbeat goes on when only the worker hangs, and ends with the process.
LooksLike(p, symptom) ==
  \/ p \in Daemons /\ hung[p] = "nothing" /\ Alive(p)
  \/ p \in Daemons /\ hung[p] = "worker" /\ Alive(p) /\ symptom = "worker_stalled"
  \/ (p \in Daemons => hung[p] = "all" \/ ~Alive(p)) /\ symptom = "heartbeat_stale"

RecoverUnhealthy ==
  /\ Recover("present", IF shown = Nobody THEN "idle" ELSE "challenge")
  /\ target' = shown
  /\ \E symptom \in {"heartbeat_stale", "worker_stalled"} :
       LooksLike(shown, symptom) /\ reason' = symptom

Ui ==
  \/ Poll
  \/ Probe("ui", "probe", "absent", "present")
  \/ Probe("ui", "probe only", "declined", "declined")
  \/ Release("ui")
  \/ \E verdict \in {"absent", "present", "declined"} : Decline(verdict)
  \/ RecoverAbsent
  \/ RecoverUnhealthy

-----------------------------------------------------------------------------
(***************************************************************************)
(* A recovery: an absent daemon is started; one that looks unhealthy is    *)
(* challenged, ended if it keeps silent, and replaced.                     *)
(***************************************************************************)
Challenge ==
  /\ pc["recovery"] = "challenge"
  /\ asked' = target /\ answers' = {}
  /\ Goto("recovery", "await")
  /\ UNCHANGED <<disk, daemons, tray, after, seen, Recovery, bounds>>

\* Faulty variant: the publisher answers for a worker that hangs.
SpareTheBeating ==
  /\ state.inst # target \/ answers # {}
  /\ pc["recovery"] = "await"
  /\ Goto("recovery", "idle")
  /\ asked' = Nobody /\ answers' = {}
  /\ LocalsKept /\ UNCHANGED <<disk, daemons, tray, bounds>>

\* Another instance, an answer of the worker, or, for a stale heartbeat, one of
\* the publisher ends the recovery.
Spare ==
  /\ \/ state.inst # target
     \/ "worker" \in answers
     \/ reason = "heartbeat_stale" /\ "publisher" \in answers
  /\ pc["recovery"] = "await"
  /\ Goto("recovery", "idle")
  /\ asked' = Nobody /\ answers' = {}
  /\ LocalsKept /\ UNCHANGED <<disk, daemons, tray, bounds>>

\* Five seconds; an answer that comes after the last look is not seen.
Deadline ==
  /\ pc["recovery"] = "await"
  /\ Goto("recovery", "verify")
  /\ IF life[target] \in {"serving", "stopping"} /\ hung[target] = "nothing"
       THEN Fault
       ELSE UNCHANGED bounds
  /\ asked' = Nobody /\ answers' = {}
  /\ LocalsKept /\ UNCHANGED <<disk, daemons, tray>>

Verify ==
  Step("recovery", "verify",
       IF state.inst = target /\ desired = "running" /\ state.name # "stopping"
         THEN "match" ELSE "idle")
  /\ UNCHANGED <<desired, control>>

\* Faulty variant: any other daemon of the registry is taken for the one.
MatchAny ==
  /\ pc["recovery"] = "match"
  /\ registry' = Owned
  /\ IF Owned = {} THEN Goto("recovery", "idle") /\ UNCHANGED target
                   ELSE Goto("recovery", "order") /\ target' \in Owned
  /\ UNCHANGED <<desired, state, control, health, daemons, tray, after, seen, shown, reason, bounds>>

\* Only a daemon of the registry is ended.
Match ==
  /\ pc["recovery"] = "match"
  /\ registry' = Owned
  /\ Goto("recovery", IF target \in Owned THEN "order" ELSE "idle")
  /\ LocalsKept /\ UNCHANGED <<desired, state, control, health, daemons, tray, bounds>>

\* It is given two seconds to obey.
EndTarget ==
  /\ pc["recovery"] = "wait end"
  /\ Ended({target})
  /\ Goto("recovery", "last probe")
  /\ LocalsKept /\ UNCHANGED <<disk, health, tray, bounds>>

RecoveryThread ==
  \/ Look("recovery", "recheck", "reprobe", "idle")
  \/ Probe("recovery", "reprobe", "spawn", "idle")
  \/ Challenge
  \/ Spare
  \/ Deadline
  \/ Verify
  \/ Match
  \/ SendStop("recovery", "order", "wait end", target)
  \/ EndTarget
  \/ Probe("recovery", "last probe", "last look", "idle")
  \/ Look("recovery", "last look", "spawn", "idle")
  \/ Release("recovery")
  \/ StartDaemon("recovery")

-----------------------------------------------------------------------------
(***************************************************************************)
(* The user: a restart, an exit, a launch, a stop from the command line.   *)
(***************************************************************************)
Restart ==
  \/ SendStop("restart", "ask", "wait free", Addressee)
  \/ Probe("restart", "wait free", "free", "wait free")
  \/ Step("restart", "wait free", "late") /\ UNCHANGED <<desired, control>>
  \/ CleanUp("restart", "free", "free again", "spawn")
  \/ CleanUp("restart", "late", "late again", "freed")
  \/ Probe("restart", "freed", "spawn", "idle")
  \/ Release("restart")
  \/ StartDaemon("restart")

\* The process of the tray ends, its threads with it.
Off ==
  /\ pc["exit"] = "off"
  /\ tray' = "down"
  /\ pc' = [t \in Threads |-> IF t = "cli" THEN pc[t] ELSE "idle"]
  /\ after' = [t \in Threads |-> "idle"]
  /\ seen' = [t \in Threads |-> {}]
  /\ lock' = IF lock \in TrayThreads THEN Nobody ELSE lock
  /\ UNCHANGED <<disk, health, life, hung, Recovery, bounds>>

Exit ==
  \/ Write("exit", "forbid", "ask", "stopped")
  \/ SendStop("exit", "ask", "forbid again", Addressee)
  \/ Write("exit", "forbid again", "grace", "stopped")
  \/ CleanUp("exit", "grace", "grace again", "off")
  \/ Off

Cli ==
  \/ SendStop("cli", "ask", "forbid", Addressee)
  \/ Write("cli", "forbid", "idle", "stopped")

Order(name) == name \in Orders /\ orders < MaxOrders /\ orders' = orders + 1 /\ UNCHANGED faults

Begin(name, t, first) ==
  /\ Order(name)
  /\ t \in TrayThreads => tray = "up"
  /\ pc[t] = "idle"
  /\ Goto(t, first)
  /\ LocalsKept /\ UNCHANGED <<disk, health, daemons, tray>>

\* establish_startup_desired()
Launch ==
  /\ "launch" \in Orders
  /\ tray = "down"
  /\ tray' = "up" /\ desired' = "running"
  /\ UNCHANGED <<state, control, registry, health, daemons, threads, bounds>>

User ==
  \/ Begin("restart", "restart", "ask")
  \/ Begin("exit", "exit", "forbid")
  \/ Begin("stop", "cli", "ask")
  \/ Launch

-----------------------------------------------------------------------------
Next ==
  \/ \E p \in Daemons : DaemonStep(p) \/ Fail(p) \/ Die(p) \/ Hang(p)
  \/ Ui
  \/ RecoveryThread
  \/ Restart
  \/ Exit
  \/ Cli
  \/ User

Spec == Init /\ [][Next]_vars

(***************************************************************************)
(* Every process and thread goes on, its waits end, the UI polls, and the  *)
(* watchdog does not decline for ever.                                     *)
(***************************************************************************)
FairSpec ==
  /\ Spec
  /\ \A p \in Daemons : WF_vars(Advance(p)) /\ WF_vars(WorkerAnswers(p)) /\ WF_vars(PublisherAnswers(p))
  /\ WF_vars(Ui) /\ SF_vars(RecoverAbsent) /\ SF_vars(RecoverUnhealthy)
  /\ WF_vars(RecoveryThread) /\ WF_vars(Restart) /\ WF_vars(Exit) /\ WF_vars(Cli)

-----------------------------------------------------------------------------
(* The types of the variables, for a reader and the other properties. *)
TypeOK ==
  /\ desired \in {"running", "stopped"}
  /\ state \in [inst : Daemons \union {Nobody}, name : {"running", "stopping", "stopped", "error"}]
  /\ control \in Daemons \union {Nobody} /\ asked \in Daemons \union {Nobody}
  /\ registry \subseteq Daemons /\ answers \subseteq {"worker", "publisher"}
  /\ lock \in Daemons \union TrayThreads \union {Nobody}
  /\ life \in [Daemons -> Lives] /\ hung \in [Daemons -> {"nothing", "worker", "all"}]
  /\ tray \in {"up", "down"}
  /\ pc \in [Threads -> Labels] /\ after \in [Threads -> Labels]
  /\ seen \in [Threads -> SUBSET Daemons]
  /\ shown \in Daemons \union {Nobody} /\ target \in Daemons \union {Nobody}
  /\ reason \in {"heartbeat_stale", "worker_stalled"}
  /\ faults \in 0..MaxFaults /\ orders \in 0..MaxOrders

\* One daemon per catalog: whatever the watchdog, a restart and a launch start
\* at once, a process past the lock is its only owner until it has ended
\* (locking.py, service.py: run_daemon).
OneDaemon ==
  \A p \in Daemons : life[p] \in {"up", "serving", "stopping"} => lock = p

\* A recovery sends a stop to, and ends, only the daemon that holds the lock,
\* or one that has ended by itself since: never one that is still starting,
\* whatever was started while it waited (process.py: recover_unhealthy_daemon).
RecoveryEndsTheHolder ==
  (pc["recovery"] \in {"order", "wait end"} /\ Alive(target)) => lock = target

Serving == \E p \in Daemons : life[p] = "serving" /\ hung[p] = "nothing"
\* The bound on the processes has been met.
Exhausted == (\E t \in Threads : pc[t] = "spawn") /\ \A p \in Daemons : life[p] # "unborn"

\* The tray is up and the daemon wanted; and a probe, which holds the lock for
\* a moment, does not meet the probe of every recovery.
Wanted == tray = "up" /\ desired = "running"
Collision == pc["recovery"] = "reprobe" /\ lock \in TrayThreads

\* While a daemon is wanted, the state file does not say "stopping" and no
\* daemon is missing from the registry, the watchdog brings a working daemon
\* back after a crash or a hang (app.py: _poll; process.py: recover_unhealthy_daemon).
ServiceReturns ==
  <>[](/\ Wanted /\ ~Collision /\ state.name # "stopping"
       /\ \A p \in Daemons : Alive(p) => p \in registry)
    => []<>(Serving \/ Exhausted)

\* What the repository says and the code does not keep; TLC finds the statement
\* violated. The README describes each disagreement.

\* "Launch AXPIndexerNG again and confirm that the daemon starts normally"
\* (docs/MANUAL_ACCEPTANCE.md:18): while the tray is up and the daemon wanted,
\* a daemon serves again and again.
LaunchStartsDaemon ==
  <>[](Wanted /\ ~Collision) => []<>(Serving \/ Exhausted)

=============================================================================
