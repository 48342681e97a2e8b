-------------------------- MODULE SearchReaderPool --------------------------
(***************************************************************************)
(* SearchReaderPool of shared/axp_core/database.py: a lazy pool of at most *)
(* Size read-only SQLite connections that search and Ask requests borrow   *)
(* one at a time.  Every request is one thread of the client's HTTP server *)
(* and goes through acquire() once.  The pool's Condition makes the body   *)
(* of each `with self._condition` block atomic; everything between two     *)
(* such blocks interleaves.                                                *)
(*                                                                         *)
(* Requests of /api/search run under a Trace whose `cancelled` event the   *)
(* cancel endpoint may set at any time; span() and Trace.check() then      *)
(* raise SearchCancelled in the request's thread.  Requests of Ask carry   *)
(* no trace.                                                               *)
(***************************************************************************)
EXTENDS Integers, FiniteSets

CONSTANTS
  Requests,   \* request threads, each acquires once
  Traced,     \* the requests that run under a cancellable Trace
  Readers,    \* identities of SQLite connections
  Size,       \* the pool's size argument
  NoReader    \* a request that holds no connection

ASSUME PoolAssumption ==
  /\ IsFiniteSet(Requests)
  /\ Traced \subseteq Requests
  /\ IsFiniteSet(Readers)
  /\ Size \in Nat \ {0}
  /\ NoReader \notin Readers

VARIABLES
  pc,         \* where each request is in acquire()
  held,       \* the connection in the local variable con of each request
  cancelled,  \* Trace.cancelled of each request
  available,  \* _available: idle connections
  created,    \* _created: reserved slots
  closed,     \* _closed
  lost        \* ghost: slots still counted in _created that nobody can return

vars == <<pc, held, cancelled, available, created, closed, lost>>

PC == {"new", "waiting", "parked", "popped", "opening", "borrowed", "done"}

\* The requests that occupy a slot of the pool.
Users == {r \in Requests : pc[r] \in {"popped", "opening", "borrowed"}}
Holders == {r \in Requests : held[r] # NoReader}

\* Connections that exist now.
Live == available \union {held[r] : r \in Holders}

Init ==
  /\ pc = [r \in Requests |-> "new"]
  /\ held = [r \in Requests |-> NoReader]
  /\ cancelled = [r \in Requests |-> FALSE]
  /\ available = {}
  /\ created = 0
  /\ closed = FALSE
  /\ lost = 0

Goto(r, label) == pc' = [pc EXCEPT ![r] = label]
Drop(r) == held' = [held EXCEPT ![r] = NoReader]

(***************************************************************************)
(* Faulty variants of the actions below, each a slip a change to the pool  *)
(* could make.  No action uses them: they show which slip each property    *)
(* catches.                                                                *)
(***************************************************************************)

\* The connection is lent without leaving the idle list.
PeekIdle(r) ==
  /\ pc[r] = "waiting" /\ ~closed
  /\ \E c \in available : held' = [held EXCEPT ![r] = c]
  /\ Goto(r, "popped")
  /\ UNCHANGED <<cancelled, available, created, closed, lost>>

\* A failed open forgets its reservation.
OpenFailsKeepsSlot(r) ==
  /\ pc[r] = "opening"
  /\ Goto(r, "done")
  /\ UNCHANGED <<held, cancelled, available, created, closed, lost>>

\* close() forgets the slots of the connections it closes.
CloseKeepsCount ==
  /\ ~closed
  /\ closed' = TRUE
  /\ available' = {}
  /\ UNCHANGED <<pc, held, cancelled, created, lost>>

-----------------------------------------------------------------------------

\* POST /api/search/cancel: only a running search is found in the registry.
Cancel(r) ==
  /\ r \in Traced
  /\ pc[r] # "done"
  /\ ~cancelled[r]
  /\ cancelled' = [cancelled EXCEPT ![r] = TRUE]
  /\ UNCHANGED <<pc, held, available, created, closed, lost>>

\* acquire() is entered; the first span checks the trace.
Enter(r) ==
  /\ pc[r] = "new"
  /\ Goto(r, IF cancelled[r] THEN "done" ELSE "waiting")
  /\ UNCHANGED <<held, cancelled, available, created, closed, lost>>

\* The while loop: nothing idle and no slot left, so wait(.05) on the condition.
Park(r) ==
  /\ pc[r] = "waiting"
  /\ ~closed
  /\ available = {}
  /\ created >= Size
  /\ Goto(r, "parked")
  /\ UNCHANGED <<held, cancelled, available, created, closed, lost>>

\* The wait ends by a notify or after 50 ms, so it needs no notification; the
\* trace is checked before the loop condition is evaluated again.
Wake(r) ==
  /\ pc[r] = "parked"
  /\ Goto(r, IF cancelled[r] THEN "done" ELSE "waiting")
  /\ UNCHANGED <<held, cancelled, available, created, closed, lost>>

\* "Search reader pool is closed".
Reject(r) ==
  /\ pc[r] = "waiting"
  /\ closed
  /\ Goto(r, "done")
  /\ UNCHANGED <<held, cancelled, available, created, closed, lost>>

\* An idle connection is popped; the condition is released before the request
\* reaches the try block that returns it.
PopIdle(r) ==
  /\ pc[r] = "waiting"
  /\ ~closed
  /\ \E c \in available :
       /\ available' = available \ {c}
       /\ held' = [held EXCEPT ![r] = c]
  /\ Goto(r, "popped")
  /\ UNCHANGED <<cancelled, created, closed, lost>>

\* Nothing idle but a slot left: the slot is reserved before the open.
Reserve(r) ==
  /\ pc[r] = "waiting"
  /\ ~closed
  /\ available = {}
  /\ created < Size
  /\ created' = created + 1
  /\ Goto(r, "opening")
  /\ UNCHANGED <<held, cancelled, available, closed, lost>>

\* The span that records the reuse checks the trace outside any try block: the
\* connection is dropped and its slot stays counted.
LendReused(r) ==
  /\ pc[r] = "popped"
  /\ IF cancelled[r]
       THEN Goto(r, "done") /\ Drop(r) /\ lost' = lost + 1
       ELSE Goto(r, "borrowed") /\ UNCHANGED <<held, lost>>
  /\ UNCHANGED <<cancelled, available, created, closed>>

OpenSucceeds(r) ==
  /\ pc[r] = "opening"
  /\ \E c \in Readers \ Live : held' = [held EXCEPT ![r] = c]
  /\ Goto(r, "borrowed")
  /\ UNCHANGED <<cancelled, available, created, closed, lost>>

\* connect(), the reader's pragmas or a span raise: the slot is given back.
OpenFails(r) ==
  /\ pc[r] = "opening"
  /\ created' = created - 1
  /\ Goto(r, "done")
  /\ UNCHANGED <<held, cancelled, available, closed, lost>>

\* The finally block: a closed pool closes the connection, an open one keeps it.
GiveBack(r) ==
  /\ pc[r] = "borrowed"
  /\ IF closed
       THEN created' = created - 1 /\ UNCHANGED available
       ELSE available' = available \union {held[r]} /\ UNCHANGED created
  /\ Drop(r)
  /\ Goto(r, "done")
  /\ UNCHANGED <<cancelled, closed, lost>>

\* close(): idle connections are closed, borrowed ones close on return.
Close ==
  /\ ~closed
  /\ closed' = TRUE
  /\ available' = {}
  /\ created' = created - Cardinality(available)
  /\ UNCHANGED <<pc, held, cancelled, lost>>

Proceed(r) ==
  \/ Enter(r)
  \/ Park(r)
  \/ Wake(r)
  \/ Reject(r)
  \/ PopIdle(r)
  \/ Reserve(r)
  \/ LendReused(r)
  \/ OpenSucceeds(r)
  \/ OpenFails(r)
  \/ GiveBack(r)

Next ==
  \/ \E r \in Requests : Proceed(r) \/ Cancel(r)
  \/ Close

\* Each request is a thread of its own: once started it keeps running, an open
\* and a search end, and the timed wait ends.
Spec == Init /\ [][Next]_vars

FairSpec == Spec /\ \A r \in Requests : WF_vars(Proceed(r))

-----------------------------------------------------------------------------

TypeOK ==
  /\ pc \in [Requests -> PC]
  /\ held \in [Requests -> Readers \union {NoReader}]
  /\ cancelled \in [Requests -> BOOLEAN]
  /\ available \in SUBSET Readers
  /\ created \in Nat
  /\ closed \in BOOLEAN
  /\ lost \in Nat

\* A connection is held by at most one request and never idle while held: the
\* reuse path pops before it lends, and a closed pool takes nothing back.
ExclusiveBorrow ==
  /\ \A r, s \in Requests : r # s /\ held[r] # NoReader => held[r] # held[s]
  /\ \A r \in Requests : held[r] \notin available

\* _created counts exactly the idle connections, the requests between their
\* reservation and their return, and the slots that were lost: open failures,
\* close() and returns to a closed pool all keep the account.
SlotAccount == created = Cardinality(available) + Cardinality(Users) + lost

\* The pool never opens more connections than its size, however the opens
\* interleave.
BoundedReaders == created <= Size

\* A closed pool keeps no idle connection: what was idle at close() is closed
\* there, what was borrowed is closed on return.
ClosedKeepsNothing == closed => available = {}

\* Holds only when no request can be cancelled: a cancelled search may lose its
\* slot, and TLC finds that.
\* Once nobody is between reservation and return, every slot the pool still
\* counts is an idle connection that the next request can borrow.
SlotsReturn == Users = {} => created = Cardinality(available)

\* Every slot of the pool was lost by a cancelled search: nothing is idle, nothing
\* is lent and nothing can be opened any more.
AllSlotsLost == lost = Size

\* Every request that entered acquire() leaves it, served, failed or rejected,
\* unless cancelled searches have lost every slot of the pool: from then on an
\* Ask waits in the loop of wait(.05) for ever, and TLC finds that without the
\* exception.  It takes as many cancellable searches as slots (LossIsBounded).
EveryRequestEnds ==
  \A r \in Requests : pc[r] = "waiting" ~> (pc[r] = "done" \/ AllSlotsLost)

-----------------------------------------------------------------------------

\* A request holds a connection exactly from the pop or the open to the return.
HoldsWhileUsing ==
  \A r \in Requests : held[r] # NoReader <=> pc[r] \in {"popped", "borrowed"}

\* The searches that may have lost a slot.
Ended == {r \in Traced : pc[r] = "done"}

\* Only a cancellation loses a slot, and each search loses at most one.
LossNeedsCancel ==
  /\ \A r \in Requests : cancelled[r] => r \in Traced
  /\ lost <= Cardinality(Ended)

\* The inductive invariant of the proofs.
PoolInv ==
  /\ TypeOK
  /\ HoldsWhileUsing
  /\ ExclusiveBorrow
  /\ SlotAccount
  /\ BoundedReaders
  /\ ClosedKeepsNothing
  /\ LossNeedsCancel

=============================================================================
