----------------------------- MODULE RagService -----------------------------
(***************************************************************************)
(* Ask AXP: RagService (client/axp_client/rag/service.py) with the single  *)
(* generation lane (_generation_lock), the executor of native operations   *)
(* (operations.py), the llama.cpp backend they run on, the handlers of     *)
(* /api/ask/stream, /api/ask/cancel and /api/ask/model/retry (server.py),  *)
(* the thread that loads and warms the model at startup (ClientRuntime),   *)
(* and the administration that replaces the backend when the lane is idle  *)
(* (activation, qualification).                                            *)
(*                                                                         *)
(* Retrieval, prompts, token budgets and citation rules are choices: what  *)
(* is kept is which outcome each can have and what the service does then.  *)
(* A thread that emits an event writes to a socket; when the client has    *)
(* hung up, a write may still succeed or raise.                            *)
(***************************************************************************)
EXTENDS Integers, FiniteSets

CONSTANTS
  Asks,         \* handler threads, one /api/ask/stream request each
  Nobody,
  MaxSwaps,     \* backends made by activations and qualifications
  MaxCancels,   \* cancel requests accepted
  MaxRetries    \* retry requests

ASSUME RagAssumption ==
  /\ IsFiniteSet(Asks)
  /\ Asks \cap {"native", "startup", "admin", "runner"} = {}
  /\ Nobody \notin Asks \union {"native", "startup", "admin", "runner"}
  /\ MaxSwaps \in Nat /\ MaxCancels \in Nat /\ MaxRetries \in Nat

VARIABLES
  pc,         \* where ask() is, per request
  line,       \* the requests whose client still reads
  told,       \* the terminal event of each stream
  lane,       \* _generation_lock: the thread that holds it
  job,        \* whose operation the executor runs
  doing,      \* that operation: ensure_loaded or generate
  run,        \* where each thread is inside the backend
  model,      \* _model_state of the current backend
  loader,     \* the thread inside _load_lock
  backend,    \* identity of the current backend
  cancel,     \* _cancel_event
  active,     \* _progress["active"]
  aimed,      \* ghost: the threads whose generation ran when a cancel was accepted
  ai,         \* the startup thread, and local_ai.state as the handler reads it
  admin,      \* the administration request
  qualifying, \* qualification_active
  cancels, retries

askVars == <<pc, line, told>>
nativeVars == <<run, model, loader, cancel, active, aimed>>
vars == <<pc, line, told, lane, job, doing, run, model, loader, backend,
          cancel, active, aimed, ai, admin, qualifying, cancels, retries>>

Users == Asks \union {"startup", "admin"}
Threads == Asks \union {"native", "startup", "runner"}

Inside == {"load", "starting", "cleared", "streaming"}
Over == {"ok", "failed", "cancelled"}
\* operations.busy: the future of the current operation is not done.
Busy == run["native"] \in Inside
(***************************************************************************)
(* Faulty variants, each a slip a change could make.  No action uses them: *)
(* they show which slip each property catches.                             *)
(***************************************************************************)
IdleLane == lane = Nobody   \* the executor is not looked at

Idle == lane = Nobody /\ ~Busy

TypeOK ==
  /\ pc \in [Asks -> {"new", "search", "take", "load", "loading", "context",
                      "ready", "begin", "generating", "validate", "repair",
                      "retake", "repairing", "done"}]
  /\ line \subseteq Asks
  /\ told \in [Asks -> {"nothing", "final", "cancelled", "error"}]
  /\ lane \in Users \union {Nobody} /\ job \in Asks \union {Nobody}
  /\ doing \in {"load", "generate"}
  /\ run \in [Threads -> Inside \union Over \union {"none"}]
  /\ model \in {"unloaded", "loading", "loaded", "failed"}
  /\ loader \in Threads \union {Nobody}
  /\ backend \in 0..MaxSwaps
  /\ cancel \in BOOLEAN /\ active \in BOOLEAN /\ aimed \subseteq Threads
  /\ ai \in {"start", "loading", "grace", "warming", "ready", "failed"}
  /\ admin \in {"idle", "swap", "qualify"} /\ qualifying \in BOOLEAN
  /\ cancels \in 0..MaxCancels /\ retries \in 0..MaxRetries

Init ==
  /\ pc = [u \in Asks |-> "new"]
  /\ line = Asks
  /\ told = [u \in Asks |-> "nothing"]
  /\ lane = Nobody /\ job = Nobody /\ doing = "load"
  /\ run = [t \in Threads |-> "none"]
  /\ model = "unloaded" /\ loader = Nobody /\ backend = 0
  /\ cancel = FALSE /\ active = FALSE /\ aimed = {}
  /\ ai \in {"start", "ready"}   \* the CPU device is ready without a load
  /\ admin = "idle" /\ qualifying = FALSE
  /\ cancels = 0 /\ retries = 0

(***************************************************************************)
(* Inside the backend (llama_cpp_backend.py).  A thread enters with "load" *)
(* because generate() and count_tokens() call ensure_loaded() first.       *)
(***************************************************************************)
Wants(t) == IF t = "native" THEN doing
            ELSE IF t = "startup" THEN (IF ai = "loading" THEN "load" ELSE "generate")
            ELSE IF pc[t] = "repair" THEN "load" ELSE "generate"

Advance(t, at) == run' = [run EXCEPT ![t] = at]

\* ensure_loaded: a load fails for good, later calls raise without a try.
BeginLoad(t) ==
  /\ run[t] = "load" /\ loader = Nobody /\ model = "unloaded"
  /\ loader' = t /\ model' = "loading"
  /\ UNCHANGED <<run, cancel, active, aimed>>

EndLoad(t) ==
  /\ loader = t /\ loader' = Nobody
  /\ model' \in {"loaded", "failed"}
  /\ UNCHANGED <<run, cancel, active, aimed>>

Loaded(t) ==
  /\ run[t] = "load" /\ loader = Nobody
  /\ \/ model = "loaded" /\ Advance(t, IF Wants(t) = "load" THEN "ok" ELSE "starting")
     \/ model = "failed" /\ Advance(t, "failed")
  /\ UNCHANGED <<model, loader, cancel, active, aimed>>

\* Faulty: the event of the last cancellation stays set.
KeepCancel(t) ==
  /\ run[t] = "starting" /\ Advance(t, "cleared")
  /\ aimed' = aimed \ {t}
  /\ UNCHANGED <<model, loader, cancel, active>>

ClearCancel(t) ==
  /\ run[t] = "starting" /\ Advance(t, "cleared")
  /\ cancel' = FALSE /\ aimed' = aimed \ {t}
  /\ UNCHANGED <<model, loader, active>>

Activate(t) ==
  /\ run[t] = "cleared" /\ Advance(t, "streaming")
  /\ active' = TRUE
  /\ UNCHANGED <<model, loader, cancel, aimed>>

\* A chunk arrives and the event is set; the flag belongs to the backend,
\* not to the generation.
StreamCancelled(t) ==
  /\ run[t] = "streaming" /\ cancel /\ Advance(t, "cancelled")
  /\ active' = FALSE
  /\ UNCHANGED <<model, loader, cancel, aimed>>

StreamEnds(t) ==
  /\ run[t] = "streaming"
  /\ \E result \in {"ok", "failed"} : Advance(t, result)
  /\ active' = FALSE
  /\ UNCHANGED <<model, loader, cancel, aimed>>

Native(t) ==
  /\ \/ BeginLoad(t) \/ EndLoad(t) \/ Loaded(t)
     \/ ClearCancel(t) \/ Activate(t) \/ StreamCancelled(t) \/ StreamEnds(t)
  /\ job' = IF t = "native" /\ run'[t] \in Over THEN Nobody ELSE job
  /\ UNCHANGED <<askVars, lane, doing, backend, ai, admin, qualifying, cancels, retries>>

(***************************************************************************)
(* ask(): a request is one handler thread.                                 *)
(***************************************************************************)
Goto(u, label) == pc' = [pc EXCEPT ![u] = label]
Say(u, event) == told' = [told EXCEPT ![u] = event]
End(u, event) == Goto(u, "done") /\ Say(u, event)
Release == lane' = Nobody

adminVars == <<backend, ai, admin, qualifying, cancels, retries>>
lockVars == <<lane, job, doing>>

\* The handler refuses while local_ai is not ready; ask() looks at the flag,
\* the executor and the lane (it takes the lane and gives it back at once),
\* then at the backend's health.
Enter(u) ==
  /\ pc[u] = "new"
  /\ IF ai = "ready" /\ ~qualifying /\ Idle /\ model # "failed"
     THEN Goto(u, "search") /\ UNCHANGED told
     ELSE End(u, "error")
  /\ UNCHANGED <<line, lockVars, nativeVars, adminVars>>

\* Retrieval and the gate: an exception, a refusal, or evidence.
Search(u) ==
  /\ pc[u] = "search"
  /\ \/ End(u, "error") \/ End(u, "final")
     \/ Goto(u, "take") /\ UNCHANGED told
  /\ UNCHANGED <<line, lockVars, nativeVars, adminVars>>

\* The lane only: neither the flag nor the executor is looked at again.
Take(u) ==
  /\ pc[u] = "take"
  /\ IF lane = Nobody
     THEN Goto(u, "load") /\ lane' = u /\ UNCHANGED told
     ELSE End(u, "error") /\ UNCHANGED lane
  /\ UNCHANGED <<line, job, doing, nativeVars, adminVars>>

\* Faulty: the pending future is replaced without a look.
SubmitAnyway(u, operation) ==
  /\ job' = u /\ doing' = operation
  /\ run' = [run EXCEPT !["native"] = "load"]
  /\ UNCHANGED <<model, loader, cancel, active, aimed>>

\* NativeOperationSupervisor.run: refused while another operation runs.
Submit(u, operation) ==
  /\ run["native"] \notin Inside
  /\ job' = u /\ doing' = operation
  /\ run' = [run EXCEPT !["native"] = "load"]
  /\ UNCHANGED <<model, loader, cancel, active, aimed>>

RefusedByExecutor(u) ==
  /\ Busy
  /\ End(u, "error") /\ Release
  /\ UNCHANGED <<job, doing, nativeVars>>

Load(u) ==
  /\ pc[u] = "load"
  /\ \/ /\ model = "loaded" /\ Goto(u, "context")
        /\ UNCHANGED <<told, lockVars, nativeVars>>
     \/ /\ model # "loaded" /\ Submit(u, "load") /\ Goto(u, "loading")
        /\ UNCHANGED <<told, lane>>
     \/ model # "loaded" /\ RefusedByExecutor(u)
  /\ UNCHANGED <<line, adminVars>>

\* The observer reads the result of its operation.
Read(result) == run["native"] = result /\ run' = [run EXCEPT !["native"] = "none"]

AwaitLoad(u) ==
  /\ pc[u] = "loading"
  /\ \/ Read("ok") /\ Goto(u, "context") /\ UNCHANGED <<told, lane>>
     \/ Read("failed") /\ End(u, "error") /\ Release
  /\ UNCHANGED <<line, job, doing, model, loader, cancel, active, aimed, adminVars>>

\* Faulty: the early returns forget the lane.
ContextKeeps(u) ==
  /\ pc[u] = "context"
  /\ \/ Goto(u, "ready") /\ UNCHANGED told
     \/ \E event \in {"error", "final"} : End(u, event)
  /\ UNCHANGED <<line, lockVars, nativeVars, adminVars>>

\* Token counts and the blocks: an exception, no block or no time leave.
Context(u) ==
  /\ pc[u] = "context"
  /\ \/ Goto(u, "ready") /\ UNCHANGED <<told, lane>>
     \/ \E event \in {"error", "final"} : End(u, event) /\ Release
  /\ UNCHANGED <<line, job, doing, nativeVars, adminVars>>

Announce(u) ==
  /\ pc[u] = "ready" /\ Goto(u, "begin")
  /\ UNCHANGED <<line, told, lockVars, nativeVars, adminVars>>

Generate(u) ==
  /\ pc[u] = "begin"
  /\ \/ Submit(u, "generate") /\ Goto(u, "generating") /\ UNCHANGED <<told, lane>>
     \/ RefusedByExecutor(u)
  /\ UNCHANGED <<line, adminVars>>

\* Faulty: nothing is written for a cancelled generation.
AwaitAnswerSilent(u) ==
  /\ pc[u] = "generating" /\ Release
  /\ \/ Read("ok") /\ Goto(u, "validate") /\ UNCHANGED told
     \/ Read("failed") /\ End(u, "error")
     \/ Read("cancelled") /\ Goto(u, "done") /\ UNCHANGED told
  /\ UNCHANGED <<line, job, doing, model, loader, cancel, active, aimed, adminVars>>

AwaitAnswer(u) ==
  /\ pc[u] = "generating" /\ Release
  /\ \/ Read("ok") /\ Goto(u, "validate") /\ UNCHANGED told
     \/ Read("failed") /\ End(u, "error")
     \/ Read("cancelled") /\ End(u, "cancelled")
  /\ UNCHANGED <<line, job, doing, model, loader, cancel, active, aimed, adminVars>>

\* Valid, declined or ungrounded; a missing citation may be repaired: the
\* tokens of the answer are counted without the lane.
Validate(u) ==
  /\ pc[u] = "validate"
  /\ \/ End(u, "final") /\ UNCHANGED run
     \/ Goto(u, "repair") /\ Advance(u, "load") /\ UNCHANGED told
  /\ UNCHANGED <<line, lockVars, model, loader, cancel, active, aimed, adminVars>>

Repair(u) ==
  /\ pc[u] = "repair" /\ run[u] \in Over
  /\ Advance(u, "none")
  /\ \/ run[u] = "failed" /\ End(u, "error")
     \/ run[u] = "ok" /\ Goto(u, "retake") /\ UNCHANGED told
     \/ run[u] = "ok" /\ End(u, "final")   \* the prefill would take too long
  /\ UNCHANGED <<line, lockVars, model, loader, cancel, active, aimed, adminVars>>

\* The repair generates in the handler's own thread, not in the executor.
Retake(u) ==
  /\ pc[u] = "retake"
  /\ IF lane = Nobody
     THEN Goto(u, "repairing") /\ lane' = u /\ Advance(u, "load") /\ UNCHANGED told
     ELSE End(u, "error") /\ UNCHANGED <<lane, run>>
  /\ UNCHANGED <<line, job, doing, model, loader, cancel, active, aimed, adminVars>>

\* Faulty: no finally around the repair; the native state as the event.
RepairedKeeps(u) ==
  /\ pc[u] = "repairing" /\ run[u] \in Over
  /\ Advance(u, "none")
  /\ End(u, IF run[u] = "ok" THEN "final" ELSE "error")
  /\ UNCHANGED <<line, lockVars, model, loader, cancel, active, aimed, adminVars>>
RepairedRaw(u) ==
  /\ pc[u] = "repairing" /\ run[u] \in Over
  /\ Advance(u, "none") /\ Release
  /\ End(u, run[u])
  /\ UNCHANGED <<line, job, doing, model, loader, cancel, active, aimed, adminVars>>

\* GenerationCancelled is an Exception here: the stream says validation_failed.
Repaired(u) ==
  /\ pc[u] = "repairing" /\ run[u] \in Over
  /\ Advance(u, "none") /\ Release
  /\ End(u, IF run[u] = "ok" THEN "final" ELSE "error")
  /\ UNCHANGED <<line, job, doing, model, loader, cancel, active, aimed, adminVars>>

(***************************************************************************)
(* A write raises because the client has gone.  Inside the try blocks the  *)
(* lane is given back; a native operation the request waits for goes on.   *)
(* The write of context_ready is in no try block.                          *)
(***************************************************************************)
Guarded == {"load", "loading", "context", "begin", "generating"}
Writing == Guarded \union {"search", "ready", "validate"}

WriteFails(u) ==
  /\ u \notin line /\ pc[u] \in Writing
  /\ Goto(u, "done")
  /\ lane' = IF pc[u] \in Guarded THEN Nobody ELSE lane
  /\ UNCHANGED <<line, told, job, doing, nativeVars, adminVars>>

Ask(u) ==
  \/ Enter(u) \/ Search(u) \/ Take(u) \/ Load(u) \/ AwaitLoad(u) \/ Context(u)
  \/ Announce(u) \/ Generate(u) \/ AwaitAnswer(u) \/ Validate(u) \/ Repair(u)
  \/ Retake(u) \/ Repaired(u)

(***************************************************************************)
(* The other requests and threads.                                         *)
(***************************************************************************)
HangUp(u) ==
  /\ u \in line /\ pc[u] # "done"
  /\ line' = line \ {u}
  /\ UNCHANGED <<pc, told, lockVars, nativeVars, adminVars>>

\* request_cancel: only while the backend says that a generation is active.
Cancel ==
  /\ active /\ cancels < MaxCancels
  /\ cancel' = TRUE
  /\ aimed' = aimed \union {t \in Threads \ {"runner"} : run[t] \in {"cleared", "streaming"}}
  /\ cancels' = cancels + 1
  /\ UNCHANGED <<askVars, lockVars, run, model, loader, active, backend, ai, admin,
                 qualifying, retries>>

\* retry_load waits for the load lock and forgets a failure.
Retry ==
  /\ retries < MaxRetries /\ loader = Nobody
  /\ model' = IF model = "loaded" THEN model ELSE "unloaded"
  /\ retries' = retries + 1
  /\ UNCHANGED <<askVars, lockVars, run, loader, cancel, active, aimed, backend, ai,
                 admin, qualifying, cancels>>

\* run_when_idle(ensure_loaded), the grace period, and run_when_idle(warm).
StartupTakes(from, to, refused) ==
  /\ ai = from
  /\ \/ ~Idle /\ ai' = refused /\ UNCHANGED <<lane, run>>
     \/ /\ Idle /\ lane' = "startup" /\ ai' = to
        /\ run' = [run EXCEPT !["startup"] = "load"]

Startup ==
  /\ \/ StartupTakes("start", "loading", "failed")
     \/ StartupTakes("grace", "warming", "ready")
     \/ ai = "grace" /\ ai' = "ready" /\ UNCHANGED <<lane, run>>   \* user activity
     \/ /\ run["startup"] \in Over /\ Advance("startup", "none") /\ Release
        /\ ai' = IF ai = "warming" THEN "ready"
                 ELSE IF run["startup"] = "ok" THEN "grace" ELSE "failed"
  /\ UNCHANGED <<askVars, job, doing, model, loader, cancel, active, aimed, backend,
                 admin, qualifying, cancels, retries>>

\* run_when_idle of an activation, a device change or a qualification.
AdminTakes ==
  /\ admin = "idle" /\ Idle /\ ~qualifying /\ backend < MaxSwaps
  /\ lane' = "admin" /\ admin' \in {"swap", "qualify"}
  /\ UNCHANGED <<askVars, job, doing, nativeVars, backend, ai, qualifying, cancels, retries>>

\* The old backend closes under its load lock; the new one is not loaded.
Replace ==
  /\ loader = Nobody
  /\ model' = "unloaded" /\ backend' = backend + 1
  /\ UNCHANGED <<run, loader, cancel, active, aimed>>

AdminDoes ==
  /\ admin # "idle" /\ admin' = "idle" /\ Release
  /\ \/ admin = "swap" /\ Replace /\ UNCHANGED qualifying
     \/ /\ admin = "qualify" /\ loader = Nobody /\ model' = "unloaded"
        /\ qualifying' = TRUE
        /\ UNCHANGED <<run, loader, cancel, active, aimed, backend>>
  /\ UNCHANGED <<askVars, job, doing, ai, cancels, retries>>

\* The qualification's own backends, one after the other, then restore():
\* activation without the lane, then the flag.
RunnerMoves(from, to) ==
  /\ qualifying /\ run["runner"] = from /\ Advance("runner", to)
  /\ UNCHANGED <<askVars, lockVars, model, loader, cancel, active, aimed, adminVars>>

Restore ==
  /\ qualifying /\ run["runner"] = "ok" /\ Advance("runner", "none")
  /\ loader = Nobody /\ model' = "unloaded" /\ backend' = backend + 1
  /\ qualifying' = FALSE
  /\ UNCHANGED <<askVars, lockVars, loader, cancel, active, aimed, ai, admin, cancels,
                 retries>>

Runner ==
  \/ RunnerMoves("none", "streaming")
  \/ RunnerMoves("streaming", "ok")
  \/ Restore

Finished ==
  /\ \A u \in Asks : pc[u] = "done"
  /\ ai \in {"ready", "failed"} /\ ~Busy /\ admin = "idle" /\ ~qualifying
  /\ UNCHANGED vars

Next ==
  \/ \E u \in Asks : Ask(u) \/ WriteFails(u) \/ HangUp(u)
  \/ \E t \in Threads \ {"runner"} : Native(t)
  \/ Cancel \/ Retry \/ Startup \/ AdminTakes \/ AdminDoes \/ Runner \/ Finished

\* Every thread runs on; a native call returns; users owe nothing.
Fairness ==
  /\ \A u \in Asks : WF_vars(Ask(u))
  /\ \A t \in Threads \ {"runner"} : WF_vars(Native(t))
  /\ WF_vars(Startup) /\ WF_vars(AdminDoes) /\ WF_vars(Runner)

Spec == Init /\ [][Next]_vars /\ Fairness
(***************************************************************************)
(* Properties.                                                             *)
(***************************************************************************)

\* RagService implements the lane: one owner, jobs started by the owner only
\* and one at a time (_generation_lock with NativeOperationSupervisor.run),
\* whatever users, administration, startup and broken connections do.
Lane == INSTANCE GenerationLane WITH owner <- lane
LaneSpec == Lane!Spec

\* The lane is held by a request that is at work; the one exception is the
\* request whose client hung up at context_ready (service.py:463), which
\* ends and keeps the lane.
LaneHeldByWorkers ==
  \A u \in Asks : lane = u =>
    \/ pc[u] \in Guarded \union {"ready", "repairing"}
    \/ pc[u] = "done" /\ u \notin line /\ told[u] = "nothing"

\* While an activation or a qualification start replaces or closes the
\* backend, and while the new one is published, no request is between its
\* load and its answer and the executor is idle (run_when_idle).  The
\* backends a qualification restores are not covered.
SwapSparesAsks ==
  [][backend' # backend /\ ~qualifying =>
       ~Busy /\ \A u \in Asks : pc[u] \notin Guarded \union {"repairing"}]_vars

\* A cancellation ends only a generation that was running when the request
\* was accepted: the event never carries over to a later one.
CancelHitsItsTarget == \A t \in Threads : run[t] = "cancelled" => t \in aimed

\* Every request ends, with a terminal event unless its client hung up.
EveryAskEnds == \A u \in Asks : pc[u] = "search" ~>
                  pc[u] = "done" /\ (told[u] # "nothing" \/ u \notin line)

\* Whoever takes the lane gives it back, except the request of
\* LaneHeldByWorkers.
LaneComesBack == \A u \in Users : lane = u ~>
                   lane # u \/ (u \in Asks /\ pc[u] = "done" /\ u \notin line)

\* What the repository says and the code does not keep; TLC finds the three statements
\* violated. The README describes each disagreement.

\* docs/rag.md:104: one generation at a time.
OneGeneration == Cardinality({t \in Threads : run[t] = "streaming"}) <= 1

\* docs/rag.md:149: Retry model lets the next Ask attempt a fresh load.
RetryReopensAsk == retries > 0 /\ model # "failed" => ai # "failed"

\* service.py:104: runtime administration is serialized against load and
\* generation.
AdministrationIsSerialized ==
  [][backend' # backend => ~Busy]_vars

=============================================================================
