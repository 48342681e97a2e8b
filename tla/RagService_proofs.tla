-------------------------- MODULE RagService_proofs --------------------------
(***************************************************************************)
(* The lane of RagService for any number of requests, cancellations,       *)
(* retries and replaced backends.  The invariants are statements about who *)
(* may be inside the backend; each is preserved by every action because    *)
(* the actions of the other threads need the lane.                         *)
(***************************************************************************)
EXTENDS RagService, TLAPS

Working == Guarded \union {"ready", "repairing"}

\* Who holds the lane, from where each thread is.
LaneInv ==
  /\ \A u \in Asks : pc[u] \in Working => lane = u
  /\ ai \in {"loading", "warming"} => lane = "startup"
  /\ admin # "idle" => lane = "admin"
  /\ \A u \in Asks : pc[u] # "done" => told[u] = "nothing"

\* Who may be inside the backend.
RunInv ==
  /\ run["startup"] # "none" => ai \in {"loading", "warming"}
  /\ run["runner"] \in {"none", "streaming", "ok"}

\* The executor's operation has an owner; nobody replaces the backend then.
JobInv ==
  /\ Busy => job \in Asks
  /\ ~Busy => job = Nobody
  /\ admin # "idle" => ~Busy

\* A backend is still to be made for whoever asked for it.
SwapInv ==
  /\ admin # "idle" => ~qualifying /\ backend < MaxSwaps
  /\ qualifying => backend < MaxSwaps

CancelInv ==
  /\ CancelHitsItsTarget
  /\ cancel => \A t \in Threads \ {"runner"} :
       run[t] \in {"cleared", "streaming"} => t \in aimed

IInv == TypeOK /\ LaneInv /\ RunInv /\ JobInv /\ SwapInv /\ LaneHeldByWorkers /\ CancelInv
\* What a step inside the backend leaves alone.
AroundNative(t) ==
  /\ job' = IF t = "native" /\ run'[t] \in Over THEN Nobody ELSE job
  /\ UNCHANGED <<askVars, lane, doing, backend, ai, admin, qualifying, cancels, retries>>

USE DEF Users, Threads, Inside, Over, Busy, Idle, Working, Guarded, Goto, Say, End, Release, Advance, lockVars, nativeVars, adminVars, askVars

LEMMA EnterPreserves ==
  ASSUME IInv, NEW u \in Asks, Enter(u) PROVE IInv'
<1> USE RagAssumption DEF Enter
<1>1. TypeOK'
  BY DEF IInv, TypeOK, SwapInv
<1>2. LaneInv' /\ LaneHeldByWorkers'
  BY DEF IInv, TypeOK, LaneInv, LaneHeldByWorkers, JobInv, RunInv
<1>3. RunInv' /\ JobInv' /\ SwapInv'
  BY DEF IInv, TypeOK, LaneInv, RunInv, JobInv, SwapInv
<1>4. CancelInv'
  BY DEF IInv, TypeOK, RunInv, CancelInv, CancelHitsItsTarget
<1> QED BY <1>1, <1>2, <1>3, <1>4 DEF IInv

LEMMA SearchPreserves ==
  ASSUME IInv, NEW u \in Asks, Search(u) PROVE IInv'
<1> USE RagAssumption DEF Search
<1>1. TypeOK'
  BY DEF IInv, TypeOK, SwapInv
<1>2. LaneInv' /\ LaneHeldByWorkers'
  BY DEF IInv, TypeOK, LaneInv, LaneHeldByWorkers, JobInv, RunInv
<1>3. RunInv' /\ JobInv' /\ SwapInv'
  BY DEF IInv, TypeOK, LaneInv, RunInv, JobInv, SwapInv
<1>4. CancelInv'
  BY DEF IInv, TypeOK, RunInv, CancelInv, CancelHitsItsTarget
<1> QED BY <1>1, <1>2, <1>3, <1>4 DEF IInv

LEMMA TakePreserves ==
  ASSUME IInv, NEW u \in Asks, Take(u) PROVE IInv'
<1> USE RagAssumption DEF Take
<1>1. TypeOK'
  BY DEF IInv, TypeOK, SwapInv
<1>2. LaneInv' /\ LaneHeldByWorkers'
  BY DEF IInv, TypeOK, LaneInv, LaneHeldByWorkers, JobInv, RunInv
<1>3. RunInv' /\ JobInv' /\ SwapInv'
  BY DEF IInv, TypeOK, LaneInv, RunInv, JobInv, SwapInv
<1>4. CancelInv'
  BY DEF IInv, TypeOK, RunInv, CancelInv, CancelHitsItsTarget
<1> QED BY <1>1, <1>2, <1>3, <1>4 DEF IInv

LEMMA LoadPreserves ==
  ASSUME IInv, NEW u \in Asks, Load(u) PROVE IInv'
<1> USE RagAssumption DEF Load, Submit, RefusedByExecutor
<1>1. TypeOK'
  BY DEF IInv, TypeOK, SwapInv
<1>2. LaneInv' /\ LaneHeldByWorkers'
  BY DEF IInv, TypeOK, LaneInv, LaneHeldByWorkers, JobInv, RunInv
<1>3. RunInv' /\ JobInv' /\ SwapInv'
  BY DEF IInv, TypeOK, LaneInv, RunInv, JobInv, SwapInv
<1>4. CancelInv'
  BY DEF IInv, TypeOK, RunInv, CancelInv, CancelHitsItsTarget
<1> QED BY <1>1, <1>2, <1>3, <1>4 DEF IInv

LEMMA AwaitLoadPreserves ==
  ASSUME IInv, NEW u \in Asks, AwaitLoad(u) PROVE IInv'
<1> USE RagAssumption DEF AwaitLoad, Read
<1>1. TypeOK'
  BY DEF IInv, TypeOK, SwapInv
<1>2. LaneInv' /\ LaneHeldByWorkers'
  BY DEF IInv, TypeOK, LaneInv, LaneHeldByWorkers, JobInv, RunInv
<1>3. RunInv' /\ JobInv' /\ SwapInv'
  BY DEF IInv, TypeOK, LaneInv, RunInv, JobInv, SwapInv
<1>4. CancelInv'
  BY DEF IInv, TypeOK, RunInv, CancelInv, CancelHitsItsTarget
<1> QED BY <1>1, <1>2, <1>3, <1>4 DEF IInv

LEMMA ContextPreserves ==
  ASSUME IInv, NEW u \in Asks, Context(u) PROVE IInv'
<1> USE RagAssumption DEF Context
<1>1. TypeOK'
  BY DEF IInv, TypeOK, SwapInv
<1>2. LaneInv' /\ LaneHeldByWorkers'
  BY DEF IInv, TypeOK, LaneInv, LaneHeldByWorkers, JobInv, RunInv
<1>3. RunInv' /\ JobInv' /\ SwapInv'
  BY DEF IInv, TypeOK, LaneInv, RunInv, JobInv, SwapInv
<1>4. CancelInv'
  BY DEF IInv, TypeOK, RunInv, CancelInv, CancelHitsItsTarget
<1> QED BY <1>1, <1>2, <1>3, <1>4 DEF IInv

LEMMA AnnouncePreserves ==
  ASSUME IInv, NEW u \in Asks, Announce(u) PROVE IInv'
<1> USE RagAssumption DEF Announce
<1>1. TypeOK'
  BY DEF IInv, TypeOK, SwapInv
<1>2. LaneInv' /\ LaneHeldByWorkers'
  BY DEF IInv, TypeOK, LaneInv, LaneHeldByWorkers, JobInv, RunInv
<1>3. RunInv' /\ JobInv' /\ SwapInv'
  BY DEF IInv, TypeOK, LaneInv, RunInv, JobInv, SwapInv
<1>4. CancelInv'
  BY DEF IInv, TypeOK, RunInv, CancelInv, CancelHitsItsTarget
<1> QED BY <1>1, <1>2, <1>3, <1>4 DEF IInv

LEMMA GeneratePreserves ==
  ASSUME IInv, NEW u \in Asks, Generate(u) PROVE IInv'
<1> USE RagAssumption DEF Generate, Submit, RefusedByExecutor
<1>1. TypeOK'
  BY DEF IInv, TypeOK, SwapInv
<1>2. LaneInv' /\ LaneHeldByWorkers'
  BY DEF IInv, TypeOK, LaneInv, LaneHeldByWorkers, JobInv, RunInv
<1>3. RunInv' /\ JobInv' /\ SwapInv'
  BY DEF IInv, TypeOK, LaneInv, RunInv, JobInv, SwapInv
<1>4. CancelInv'
  BY DEF IInv, TypeOK, RunInv, CancelInv, CancelHitsItsTarget
<1> QED BY <1>1, <1>2, <1>3, <1>4 DEF IInv

LEMMA AwaitAnswerPreserves ==
  ASSUME IInv, NEW u \in Asks, AwaitAnswer(u) PROVE IInv'
<1> USE RagAssumption DEF AwaitAnswer, Read
<1>1. TypeOK'
  BY DEF IInv, TypeOK, SwapInv
<1>2. LaneInv' /\ LaneHeldByWorkers'
  BY DEF IInv, TypeOK, LaneInv, LaneHeldByWorkers, JobInv, RunInv
<1>3. RunInv' /\ JobInv' /\ SwapInv'
  BY DEF IInv, TypeOK, LaneInv, RunInv, JobInv, SwapInv
<1>4. CancelInv'
  BY DEF IInv, TypeOK, RunInv, CancelInv, CancelHitsItsTarget
<1> QED BY <1>1, <1>2, <1>3, <1>4 DEF IInv

LEMMA ValidatePreserves ==
  ASSUME IInv, NEW u \in Asks, Validate(u) PROVE IInv'
<1> USE RagAssumption DEF Validate
<1>1. TypeOK'
  BY DEF IInv, TypeOK, SwapInv
<1>2. LaneInv' /\ LaneHeldByWorkers'
  BY DEF IInv, TypeOK, LaneInv, LaneHeldByWorkers, JobInv, RunInv
<1>3. RunInv' /\ JobInv' /\ SwapInv'
  BY DEF IInv, TypeOK, LaneInv, RunInv, JobInv, SwapInv
<1>4. CancelInv'
  BY DEF IInv, TypeOK, RunInv, CancelInv, CancelHitsItsTarget
<1> QED BY <1>1, <1>2, <1>3, <1>4 DEF IInv

LEMMA RepairPreserves ==
  ASSUME IInv, NEW u \in Asks, Repair(u) PROVE IInv'
<1> USE RagAssumption DEF Repair
<1>1. TypeOK'
  BY DEF IInv, TypeOK, SwapInv
<1>2. LaneInv' /\ LaneHeldByWorkers'
  BY DEF IInv, TypeOK, LaneInv, LaneHeldByWorkers, JobInv, RunInv
<1>3. RunInv' /\ JobInv' /\ SwapInv'
  BY DEF IInv, TypeOK, LaneInv, RunInv, JobInv, SwapInv
<1>4. CancelInv'
  BY DEF IInv, TypeOK, RunInv, CancelInv, CancelHitsItsTarget
<1> QED BY <1>1, <1>2, <1>3, <1>4 DEF IInv

LEMMA RetakePreserves ==
  ASSUME IInv, NEW u \in Asks, Retake(u) PROVE IInv'
<1> USE RagAssumption DEF Retake
<1>1. TypeOK'
  BY DEF IInv, TypeOK, SwapInv
<1>2. LaneInv' /\ LaneHeldByWorkers'
  BY DEF IInv, TypeOK, LaneInv, LaneHeldByWorkers, JobInv, RunInv
<1>3. RunInv' /\ JobInv' /\ SwapInv'
  BY DEF IInv, TypeOK, LaneInv, RunInv, JobInv, SwapInv
<1>4. CancelInv'
  BY DEF IInv, TypeOK, RunInv, CancelInv, CancelHitsItsTarget
<1> QED BY <1>1, <1>2, <1>3, <1>4 DEF IInv

LEMMA RepairedPreserves ==
  ASSUME IInv, NEW u \in Asks, Repaired(u) PROVE IInv'
<1> USE RagAssumption DEF Repaired
<1>1. TypeOK'
  BY DEF IInv, TypeOK, SwapInv
<1>2. LaneInv' /\ LaneHeldByWorkers'
  BY DEF IInv, TypeOK, LaneInv, LaneHeldByWorkers, JobInv, RunInv
<1>3. RunInv' /\ JobInv' /\ SwapInv'
  BY DEF IInv, TypeOK, LaneInv, RunInv, JobInv, SwapInv
<1>4. CancelInv'
  BY DEF IInv, TypeOK, RunInv, CancelInv, CancelHitsItsTarget
<1> QED BY <1>1, <1>2, <1>3, <1>4 DEF IInv

LEMMA WriteFailsPreserves ==
  ASSUME IInv, NEW u \in Asks, WriteFails(u) PROVE IInv'
<1> USE RagAssumption DEF WriteFails, Writing
<1>1. TypeOK'
  BY DEF IInv, TypeOK, SwapInv
<1>2. LaneInv' /\ LaneHeldByWorkers'
  BY DEF IInv, TypeOK, LaneInv, LaneHeldByWorkers, JobInv, RunInv
<1>3. RunInv' /\ JobInv' /\ SwapInv'
  BY DEF IInv, TypeOK, LaneInv, RunInv, JobInv, SwapInv
<1>4. CancelInv'
  BY DEF IInv, TypeOK, RunInv, CancelInv, CancelHitsItsTarget
<1> QED BY <1>1, <1>2, <1>3, <1>4 DEF IInv

LEMMA HangUpPreserves ==
  ASSUME IInv, NEW u \in Asks, HangUp(u) PROVE IInv'
<1> USE RagAssumption DEF HangUp
<1>1. TypeOK'
  BY DEF IInv, TypeOK, SwapInv
<1>2. LaneInv' /\ LaneHeldByWorkers'
  BY DEF IInv, TypeOK, LaneInv, LaneHeldByWorkers, JobInv, RunInv
<1>3. RunInv' /\ JobInv' /\ SwapInv'
  BY DEF IInv, TypeOK, LaneInv, RunInv, JobInv, SwapInv
<1>4. CancelInv'
  BY DEF IInv, TypeOK, RunInv, CancelInv, CancelHitsItsTarget
<1> QED BY <1>1, <1>2, <1>3, <1>4 DEF IInv

LEMMA BeginLoadPreserves ==
  ASSUME IInv, NEW t \in Threads \ {"runner"}, AroundNative(t), BeginLoad(t) PROVE IInv'
<1> USE RagAssumption DEF AroundNative, BeginLoad
<1>1. TypeOK'
  BY DEF IInv, TypeOK, SwapInv
<1>2. LaneInv' /\ LaneHeldByWorkers'
  BY DEF IInv, TypeOK, LaneInv, LaneHeldByWorkers, JobInv, RunInv
<1>3. RunInv' /\ JobInv' /\ SwapInv'
  BY DEF IInv, TypeOK, LaneInv, RunInv, JobInv, SwapInv
<1>4. CancelInv'
  BY DEF IInv, TypeOK, RunInv, CancelInv, CancelHitsItsTarget
<1> QED BY <1>1, <1>2, <1>3, <1>4 DEF IInv

LEMMA EndLoadPreserves ==
  ASSUME IInv, NEW t \in Threads \ {"runner"}, AroundNative(t), EndLoad(t) PROVE IInv'
<1> USE RagAssumption DEF AroundNative, EndLoad
<1>1. TypeOK'
  BY DEF IInv, TypeOK, SwapInv
<1>2. LaneInv' /\ LaneHeldByWorkers'
  BY DEF IInv, TypeOK, LaneInv, LaneHeldByWorkers, JobInv, RunInv
<1>3. RunInv' /\ JobInv' /\ SwapInv'
  BY DEF IInv, TypeOK, LaneInv, RunInv, JobInv, SwapInv
<1>4. CancelInv'
  BY DEF IInv, TypeOK, RunInv, CancelInv, CancelHitsItsTarget
<1> QED BY <1>1, <1>2, <1>3, <1>4 DEF IInv

LEMMA LoadedPreserves ==
  ASSUME IInv, NEW t \in Threads \ {"runner"}, AroundNative(t), Loaded(t) PROVE IInv'
<1> USE RagAssumption DEF AroundNative, Loaded, Wants
<1>1. TypeOK'
  BY DEF IInv, TypeOK, SwapInv
<1>2. LaneInv' /\ LaneHeldByWorkers'
  BY DEF IInv, TypeOK, LaneInv, LaneHeldByWorkers, JobInv, RunInv
<1>3. RunInv' /\ JobInv' /\ SwapInv'
  BY DEF IInv, TypeOK, LaneInv, RunInv, JobInv, SwapInv
<1>4. CancelInv'
  BY DEF IInv, TypeOK, RunInv, CancelInv, CancelHitsItsTarget
<1> QED BY <1>1, <1>2, <1>3, <1>4 DEF IInv

LEMMA ClearCancelPreserves ==
  ASSUME IInv, NEW t \in Threads \ {"runner"}, AroundNative(t), ClearCancel(t) PROVE IInv'
<1> USE RagAssumption DEF AroundNative, ClearCancel
<1>1. TypeOK'
  <2>1. run' \in [Threads -> Inside \union Over \union {"none"}]
    BY DEF IInv, TypeOK
  <2>2. job' \in Asks \union {Nobody} /\ aimed' \subseteq Threads
    BY DEF IInv, TypeOK
  <2>3. backend' \in 0..MaxSwaps
    BY DEF IInv, TypeOK, SwapInv
  <2>4. cancel' \in BOOLEAN /\ active' \in BOOLEAN
    BY Zenon DEF IInv, TypeOK
  <2>5. UNCHANGED <<pc, line, told, lane, doing, model, loader, ai, admin, qualifying,
                    cancels, retries>>
    OBVIOUS
  <2> HIDE DEF AroundNative, ClearCancel
  <2> QED BY <2>1, <2>2, <2>3, <2>4, <2>5 DEF IInv, TypeOK
<1>2. LaneInv' /\ LaneHeldByWorkers'
  BY DEF IInv, TypeOK, LaneInv, LaneHeldByWorkers, JobInv, RunInv
<1>3. RunInv' /\ JobInv' /\ SwapInv'
  BY DEF IInv, TypeOK, LaneInv, RunInv, JobInv, SwapInv
<1>4. CancelInv'
  BY DEF IInv, TypeOK, RunInv, CancelInv, CancelHitsItsTarget
<1> QED BY <1>1, <1>2, <1>3, <1>4 DEF IInv

LEMMA ActivatePreserves ==
  ASSUME IInv, NEW t \in Threads \ {"runner"}, AroundNative(t), Activate(t) PROVE IInv'
<1> USE RagAssumption DEF AroundNative, Activate
<1>1. TypeOK'
  BY DEF IInv, TypeOK, SwapInv
<1>2. LaneInv' /\ LaneHeldByWorkers'
  BY DEF IInv, TypeOK, LaneInv, LaneHeldByWorkers, JobInv, RunInv
<1>3. RunInv' /\ JobInv' /\ SwapInv'
  BY DEF IInv, TypeOK, LaneInv, RunInv, JobInv, SwapInv
<1>4. CancelInv'
  BY DEF IInv, TypeOK, RunInv, CancelInv, CancelHitsItsTarget
<1> QED BY <1>1, <1>2, <1>3, <1>4 DEF IInv

LEMMA StreamCancelledPreserves ==
  ASSUME IInv, NEW t \in Threads \ {"runner"}, AroundNative(t), StreamCancelled(t) PROVE IInv'
<1> USE RagAssumption DEF AroundNative, StreamCancelled
<1>1. TypeOK'
  <2>1. run' \in [Threads -> Inside \union Over \union {"none"}]
    BY DEF IInv, TypeOK
  <2>2. job' \in Asks \union {Nobody} /\ aimed' \subseteq Threads
    BY DEF IInv, TypeOK
  <2>3. backend' \in 0..MaxSwaps
    BY DEF IInv, TypeOK, SwapInv
  <2>4. cancel' \in BOOLEAN /\ active' \in BOOLEAN
    BY Zenon DEF IInv, TypeOK
  <2>5. UNCHANGED <<pc, line, told, lane, doing, model, loader, ai, admin, qualifying,
                    cancels, retries>>
    OBVIOUS
  <2> HIDE DEF AroundNative, StreamCancelled
  <2> QED BY <2>1, <2>2, <2>3, <2>4, <2>5 DEF IInv, TypeOK
<1>2. LaneInv' /\ LaneHeldByWorkers'
  BY DEF IInv, TypeOK, LaneInv, LaneHeldByWorkers, JobInv, RunInv
<1>3. RunInv' /\ JobInv' /\ SwapInv'
  BY DEF IInv, TypeOK, LaneInv, RunInv, JobInv, SwapInv
<1>4. CancelInv'
  BY DEF IInv, TypeOK, RunInv, CancelInv, CancelHitsItsTarget
<1> QED BY <1>1, <1>2, <1>3, <1>4 DEF IInv

LEMMA StreamEndsPreserves ==
  ASSUME IInv, NEW t \in Threads \ {"runner"}, AroundNative(t), StreamEnds(t) PROVE IInv'
<1> USE RagAssumption DEF AroundNative, StreamEnds
<1>1. TypeOK'
  <2>1. run' \in [Threads -> Inside \union Over \union {"none"}]
    BY DEF IInv, TypeOK
  <2>2. job' \in Asks \union {Nobody} /\ aimed' \subseteq Threads
    BY DEF IInv, TypeOK
  <2>3. backend' \in 0..MaxSwaps
    BY DEF IInv, TypeOK, SwapInv
  <2>4. cancel' \in BOOLEAN /\ active' \in BOOLEAN
    BY Zenon DEF IInv, TypeOK
  <2>5. UNCHANGED <<pc, line, told, lane, doing, model, loader, ai, admin, qualifying,
                    cancels, retries>>
    OBVIOUS
  <2> HIDE DEF AroundNative, StreamEnds
  <2> QED BY <2>1, <2>2, <2>3, <2>4, <2>5 DEF IInv, TypeOK
<1>2. LaneInv' /\ LaneHeldByWorkers'
  BY DEF IInv, TypeOK, LaneInv, LaneHeldByWorkers, JobInv, RunInv
<1>3. RunInv' /\ JobInv' /\ SwapInv'
  BY DEF IInv, TypeOK, LaneInv, RunInv, JobInv, SwapInv
<1>4. CancelInv'
  BY DEF IInv, TypeOK, RunInv, CancelInv, CancelHitsItsTarget
<1> QED BY <1>1, <1>2, <1>3, <1>4 DEF IInv

LEMMA CancelPreserves ==
  ASSUME IInv, Cancel PROVE IInv'
<1> USE RagAssumption DEF Cancel
<1>1. TypeOK'
  BY DEF IInv, TypeOK, SwapInv
<1>2. LaneInv' /\ LaneHeldByWorkers'
  BY DEF IInv, TypeOK, LaneInv, LaneHeldByWorkers, JobInv, RunInv
<1>3. RunInv' /\ JobInv' /\ SwapInv'
  BY DEF IInv, TypeOK, LaneInv, RunInv, JobInv, SwapInv
<1>4. CancelInv'
  BY DEF IInv, TypeOK, RunInv, CancelInv, CancelHitsItsTarget
<1> QED BY <1>1, <1>2, <1>3, <1>4 DEF IInv

LEMMA RetryPreserves ==
  ASSUME IInv, Retry PROVE IInv'
<1> USE RagAssumption DEF Retry
<1>1. TypeOK'
  BY DEF IInv, TypeOK, SwapInv
<1>2. LaneInv' /\ LaneHeldByWorkers'
  BY DEF IInv, TypeOK, LaneInv, LaneHeldByWorkers, JobInv, RunInv
<1>3. RunInv' /\ JobInv' /\ SwapInv'
  BY DEF IInv, TypeOK, LaneInv, RunInv, JobInv, SwapInv
<1>4. CancelInv'
  BY DEF IInv, TypeOK, RunInv, CancelInv, CancelHitsItsTarget
<1> QED BY <1>1, <1>2, <1>3, <1>4 DEF IInv

LEMMA StartupPreserves ==
  ASSUME IInv, Startup PROVE IInv'
<1> USE RagAssumption DEF Startup, StartupTakes
<1>1. TypeOK'
  BY DEF IInv, TypeOK, SwapInv
<1>2. LaneInv' /\ LaneHeldByWorkers'
  BY DEF IInv, TypeOK, LaneInv, LaneHeldByWorkers, JobInv, RunInv
<1>3. RunInv' /\ JobInv' /\ SwapInv'
  BY DEF IInv, TypeOK, LaneInv, RunInv, JobInv, SwapInv
<1>4. CancelInv'
  BY DEF IInv, TypeOK, RunInv, CancelInv, CancelHitsItsTarget
<1> QED BY <1>1, <1>2, <1>3, <1>4 DEF IInv

LEMMA AdminTakesPreserves ==
  ASSUME IInv, AdminTakes PROVE IInv'
<1> USE RagAssumption DEF AdminTakes
<1>1. TypeOK'
  BY DEF IInv, TypeOK, SwapInv
<1>2. LaneInv' /\ LaneHeldByWorkers'
  BY DEF IInv, TypeOK, LaneInv, LaneHeldByWorkers, JobInv, RunInv
<1>3. RunInv' /\ JobInv' /\ SwapInv'
  BY DEF IInv, TypeOK, LaneInv, RunInv, JobInv, SwapInv
<1>4. CancelInv'
  BY DEF IInv, TypeOK, RunInv, CancelInv, CancelHitsItsTarget
<1> QED BY <1>1, <1>2, <1>3, <1>4 DEF IInv

LEMMA AdminDoesPreserves ==
  ASSUME IInv, AdminDoes PROVE IInv'
<1> USE RagAssumption DEF AdminDoes, Replace
<1>1. TypeOK'
  <2>1. run' \in [Threads -> Inside \union Over \union {"none"}]
    BY DEF IInv, TypeOK
  <2>2. job' \in Asks \union {Nobody} /\ aimed' \subseteq Threads
    BY DEF IInv, TypeOK
  <2>3. backend' \in 0..MaxSwaps
    BY DEF IInv, TypeOK, SwapInv
  <2> QED BY <2>1, <2>2, <2>3 DEF IInv, TypeOK
<1>2. LaneInv' /\ LaneHeldByWorkers'
  BY DEF IInv, TypeOK, LaneInv, LaneHeldByWorkers, JobInv, RunInv
<1>3. RunInv' /\ JobInv' /\ SwapInv'
  BY DEF IInv, TypeOK, LaneInv, RunInv, JobInv, SwapInv
<1>4. CancelInv'
  BY DEF IInv, TypeOK, RunInv, CancelInv, CancelHitsItsTarget
<1> QED BY <1>1, <1>2, <1>3, <1>4 DEF IInv

LEMMA RunnerMovesPreserves ==
  ASSUME IInv, NEW from \in {"none", "streaming"}, NEW to \in {"streaming", "ok"},
         RunnerMoves(from, to)
  PROVE  IInv'
<1> USE RagAssumption DEF RunnerMoves
<1>1. TypeOK'
  <2>1. run' \in [Threads -> Inside \union Over \union {"none"}]
    BY DEF IInv, TypeOK
  <2>2. job' \in Asks \union {Nobody} /\ aimed' \subseteq Threads
    BY DEF IInv, TypeOK
  <2>3. backend' \in 0..MaxSwaps
    BY DEF IInv, TypeOK, SwapInv
  <2> QED BY <2>1, <2>2, <2>3 DEF IInv, TypeOK
<1>2. LaneInv' /\ LaneHeldByWorkers'
  BY DEF IInv, TypeOK, LaneInv, LaneHeldByWorkers, JobInv, RunInv
<1>3. RunInv' /\ JobInv' /\ SwapInv'
  BY DEF IInv, TypeOK, LaneInv, RunInv, JobInv, SwapInv
<1>4. CancelInv'
  BY DEF IInv, TypeOK, RunInv, CancelInv, CancelHitsItsTarget
<1> QED BY <1>1, <1>2, <1>3, <1>4 DEF IInv

LEMMA RestorePreserves ==
  ASSUME IInv, Restore PROVE IInv'
<1> USE RagAssumption DEF Restore
<1>1. TypeOK'
  <2>1. run' \in [Threads -> Inside \union Over \union {"none"}]
    BY DEF IInv, TypeOK
  <2>2. job' \in Asks \union {Nobody} /\ aimed' \subseteq Threads
    BY DEF IInv, TypeOK
  <2>3. backend' \in 0..MaxSwaps
    BY DEF IInv, TypeOK, SwapInv
  <2> QED BY <2>1, <2>2, <2>3 DEF IInv, TypeOK
<1>2. LaneInv' /\ LaneHeldByWorkers'
  BY DEF IInv, TypeOK, LaneInv, LaneHeldByWorkers, JobInv, RunInv
<1>3. RunInv' /\ JobInv' /\ SwapInv'
  BY DEF IInv, TypeOK, LaneInv, RunInv, JobInv, SwapInv
<1>4. CancelInv'
  BY DEF IInv, TypeOK, RunInv, CancelInv, CancelHitsItsTarget
<1> QED BY <1>1, <1>2, <1>3, <1>4 DEF IInv

LEMMA InitInv == Init => IInv
<1> SUFFICES ASSUME Init PROVE IInv
  OBVIOUS
<1> USE RagAssumption DEF Init
<1>1. TypeOK
  <2>1. 0 \in 0..MaxSwaps /\ 0 \in 0..MaxCancels /\ 0 \in 0..MaxRetries
    OBVIOUS
  <2>2. cancel \in BOOLEAN /\ active \in BOOLEAN /\ qualifying \in BOOLEAN
    BY Zenon
  <2>3. /\ run \in [Threads -> Inside \union Over \union {"none"}]
        /\ pc \in [Asks -> {"new"}] /\ told \in [Asks -> {"nothing"}]
    OBVIOUS
  <2> QED BY <2>1, <2>2, <2>3 DEF TypeOK
<1>2. LaneInv /\ LaneHeldByWorkers /\ RunInv /\ JobInv /\ SwapInv
  BY DEF LaneInv, LaneHeldByWorkers, RunInv, JobInv, SwapInv
<1>3. CancelInv
  BY DEF CancelInv, CancelHitsItsTarget
<1> QED BY <1>1, <1>2, <1>3 DEF IInv

LEMMA StutterPreserves == ASSUME IInv, UNCHANGED vars PROVE IInv'
BY DEF IInv, TypeOK, LaneInv, LaneHeldByWorkers, RunInv, JobInv, SwapInv, CancelInv,
       CancelHitsItsTarget, vars

LEMMA NextPreserves == IInv /\ [Next]_vars => IInv'
<1> SUFFICES ASSUME IInv, [Next]_vars PROVE IInv'
  OBVIOUS
<1>1. ASSUME NEW u \in Asks, Ask(u) PROVE IInv'
  BY <1>1, EnterPreserves, SearchPreserves, TakePreserves, LoadPreserves, AwaitLoadPreserves, ContextPreserves, AnnouncePreserves, GeneratePreserves, AwaitAnswerPreserves, ValidatePreserves, RepairPreserves, RetakePreserves, RepairedPreserves
     DEF Ask
<1>2. ASSUME NEW u \in Asks, WriteFails(u) \/ HangUp(u) PROVE IInv'
  BY <1>2, WriteFailsPreserves, HangUpPreserves
<1>3. ASSUME NEW t \in Threads \ {"runner"}, Native(t) PROVE IInv'
  <2>1. AroundNative(t)
    BY <1>3 DEF Native, AroundNative
  <2> QED BY <1>3, <2>1, BeginLoadPreserves, EndLoadPreserves, LoadedPreserves, ClearCancelPreserves, ActivatePreserves, StreamCancelledPreserves, StreamEndsPreserves DEF Native
<1>4. ASSUME Cancel \/ Retry \/ Startup \/ AdminTakes \/ AdminDoes PROVE IInv'
  BY <1>4, CancelPreserves, RetryPreserves, StartupPreserves, AdminTakesPreserves,
     AdminDoesPreserves
<1>5. ASSUME Runner PROVE IInv'
  BY <1>5, RunnerMovesPreserves, RestorePreserves DEF Runner
<1>6. ASSUME Finished \/ UNCHANGED vars PROVE IInv'
  BY <1>6, StutterPreserves DEF Finished
<1> HIDE DEF Users, Threads
<1> QED BY <1>1, <1>2, <1>3, <1>4, <1>5, <1>6 DEF Next

\* The inductive invariant of the service holds.
THEOREM Invariance == Spec => []IInv
BY InitInv, NextPreserves, PTL DEF Spec

\* Types, for any number of requests.
THEOREM TypesHold == Spec => []TypeOK
<1>1. IInv => TypeOK
  BY DEF IInv
<1> QED BY <1>1, Invariance, PTL

\* Only a request at work holds the lane, or the one that was cut off while
\* it wrote context_ready.
THEOREM LaneIsHeldByWorkers == Spec => []LaneHeldByWorkers
<1>1. IInv => LaneHeldByWorkers
  BY DEF IInv
<1> QED BY <1>1, Invariance, PTL

\* A cancellation hits no later generation.
THEOREM CancelAim == Spec => []CancelHitsItsTarget
<1>1. IInv => CancelHitsItsTarget
  BY DEF IInv, CancelInv
<1> QED BY <1>1, Invariance, PTL

\* An administrative request replaces the backend only while no request is
\* between its load and its answer.
THEOREM SwapsSpareAsks == Spec => SwapSparesAsks
<1>1. ASSUME IInv, Next PROVE backend' # backend /\ ~qualifying =>
        ~Busy /\ \A u \in Asks : pc[u] \notin Guarded \union {"repairing"}
  <2> SUFFICES ASSUME backend' # backend, ~qualifying
               PROVE  ~Busy /\ \A u \in Asks : pc[u] \notin Guarded \union {"repairing"}
    OBVIOUS
  <2>1. AdminDoes
    BY <1>1 DEF Next, Ask, Enter, Search, Take, Load, AwaitLoad, Context, Announce,
      Generate, AwaitAnswer, Validate, Repair, Retake, Repaired, WriteFails, HangUp,
      Native, Cancel, Retry, Startup, AdminTakes, Runner, RunnerMoves, Restore,
      Finished, vars
  <2> QED BY <1>1, <2>1, RagAssumption DEF AdminDoes, IInv, LaneInv, JobInv
<1> QED BY <1>1, Invariance, PTL DEF Spec, SwapSparesAsks

LEMMA LaneSteps == IInv /\ [Next]_vars => [Lane!Next]_<<lane, job>>
<1> SUFFICES ASSUME IInv, [Next]_vars, ~UNCHANGED <<lane, job>> PROVE Lane!Next
  OBVIOUS
<1> USE RagAssumption DEF Lane!Next, Lane!Take, Lane!Give, Lane!Start, Lane!Finish
<1>1. ASSUME NEW u \in Asks, Ask(u) PROVE Lane!Next
  BY <1>1 DEF Ask, Enter, Search, Take, Load, Submit, RefusedByExecutor, AwaitLoad, Read,
    Context, Announce, Generate, AwaitAnswer, Validate, Repair, Retake, Repaired,
    IInv, LaneInv, JobInv
<1>2. ASSUME NEW u \in Asks, WriteFails(u) \/ HangUp(u) PROVE Lane!Next
  BY <1>2 DEF WriteFails, HangUp, IInv, LaneInv
<1>3. ASSUME NEW t \in Threads \ {"runner"}, Native(t) PROVE Lane!Next
  BY <1>3 DEF Native
<1>4. ASSUME Startup PROVE Lane!Next
  BY <1>4 DEF Startup, StartupTakes, IInv, RunInv, LaneInv
<1>5. ASSUME AdminTakes \/ AdminDoes PROVE Lane!Next
  BY <1>5 DEF AdminTakes, AdminDoes, IInv, LaneInv
<1>6. ~(Cancel \/ Retry \/ Runner \/ Finished \/ UNCHANGED vars)
  BY DEF Cancel, Retry, Runner, RunnerMoves, Restore, Finished, vars
<1> QED BY <1>1, <1>2, <1>3, <1>4, <1>5, <1>6 DEF Next

\* RagService implements the abstract lane.
THEOREM Refinement == Spec => LaneSpec
<1>1. Init => Lane!Init
  BY DEF Init, Lane!Init
<1> QED BY <1>1, LaneSteps, Invariance, PTL DEF Spec, LaneSpec, Lane!Spec
=============================================================================
