---------------------- MODULE SearchReaderPool_proofs ----------------------
(***************************************************************************)
(* Proofs about SearchReaderPool: whatever the number of requests, of      *)
(* connections and the size of the pool, connections are lent exclusively, *)
(* slots are accounted for and bounded, and only a cancelled search can    *)
(* lose one.                                                               *)
(***************************************************************************)
EXTENDS SearchReaderPool, FiniteSetTheorems, TLAPS

USE PoolAssumption

(***************************************************************************)
(* How the set of slot users changes when one request moves.               *)
(***************************************************************************)
LEMMA UsersFinite == IsFiniteSet(Users) /\ Cardinality(Users) \in Nat
  <1>1. Users \in SUBSET Requests
    BY DEF Users
  <1>2. QED
    BY <1>1, FS_Subset, FS_CardinalityType

LEMMA UsersSame ==
  ASSUME NEW r \in Requests, NEW l, pc \in [Requests -> PC], Goto(r, l),
         pc[r] \in {"popped", "opening", "borrowed"}
                    <=> l \in {"popped", "opening", "borrowed"}
  PROVE  Users' = Users
  BY DEF Users, Goto

LEMMA UsersGrow ==
  ASSUME NEW r \in Requests, NEW l \in {"popped", "opening", "borrowed"},
         pc \in [Requests -> PC], Goto(r, l),
         pc[r] \notin {"popped", "opening", "borrowed"}
  PROVE  Cardinality(Users') = Cardinality(Users) + 1
  <1>1. Users' = Users \union {r} /\ r \notin Users
    BY DEF Users, Goto
  <1>2. QED
    BY <1>1, UsersFinite, FS_AddElement

LEMMA UsersShrink ==
  ASSUME NEW r \in Requests, pc \in [Requests -> PC], Goto(r, "done"),
         pc[r] \in {"popped", "opening", "borrowed"}
  PROVE  Cardinality(Users') = Cardinality(Users) - 1
  <1>1. Users' = Users \ {r} /\ r \in Users
    BY DEF Users, Goto
  <1>2. QED
    BY <1>1, UsersFinite, FS_RemoveElement

LEMMA EndedFinite == IsFiniteSet(Ended) /\ Cardinality(Ended) \in Nat
  <1>1. Ended \in SUBSET Requests
    BY DEF Ended
  <1>2. QED
    BY <1>1, FS_Subset, FS_CardinalityType

\* A search that ends joins the searches that may have lost a slot.
LEMMA EndedGrow ==
  ASSUME NEW r \in Traced, pc \in [Requests -> PC], Goto(r, "done"),
         pc[r] # "done"
  PROVE  Cardinality(Ended') = Cardinality(Ended) + 1
  <1>1. Ended' = Ended \union {r} /\ r \notin Ended
    BY DEF Ended, Goto
  <1>2. QED
    BY <1>1, EndedFinite, FS_AddElement

\* No other step makes them fewer.
LEMMA EndedStays ==
  ASSUME PoolInv, [Next]_vars
  PROVE  Cardinality(Ended) <= Cardinality(Ended')
  <1>1. Ended \subseteq Ended'
    BY DEF PoolInv, TypeOK, Ended, vars, Next, Proceed, Cancel, Enter, Park, Wake,
           Reject, PopIdle, Reserve, LendReused, OpenSucceeds, OpenFails, GiveBack,
           Close, Goto
  <1>2. IsFiniteSet(Ended')
    <2>1. Ended' \in SUBSET Requests
      BY DEF Ended
    <2>2. QED
      BY <2>1, FS_Subset
  <1>3. QED
    BY <1>1, <1>2, FS_Subset

LEMMA IdleFinite ==
  ASSUME available \in SUBSET Readers
  PROVE  IsFiniteSet(available) /\ Cardinality(available) \in Nat
  BY FS_Subset, FS_CardinalityType

-----------------------------------------------------------------------------

LEMMA InitInv == Init => PoolInv
  <1> SUFFICES ASSUME Init PROVE PoolInv
    OBVIOUS
  <1>1. Users = {} /\ available = {}
    BY DEF Init, Users
  <1>2. SlotAccount
    BY <1>1, FS_EmptySet DEF Init, SlotAccount
  <1>3. TypeOK
    BY DEF Init, TypeOK, PC
  <1>4. HoldsWhileUsing /\ ExclusiveBorrow
    BY DEF Init, HoldsWhileUsing, ExclusiveBorrow
  <1>5. BoundedReaders /\ ClosedKeepsNothing /\ LossNeedsCancel
    BY EndedFinite DEF Init, BoundedReaders, ClosedKeepsNothing, LossNeedsCancel
  <1>6. QED
    BY <1>2, <1>3, <1>4, <1>5 DEF PoolInv

\* Every step keeps the types, who holds what, and the lending exclusive.
LEMMA HoldingStep == PoolInv /\ [Next]_vars =>
                       TypeOK' /\ HoldsWhileUsing' /\ ExclusiveBorrow'
  <1> SUFFICES ASSUME PoolInv, [Next]_vars
               PROVE  TypeOK' /\ HoldsWhileUsing' /\ ExclusiveBorrow'
    OBVIOUS
  <1> USE DEF PoolInv, TypeOK, PC, HoldsWhileUsing, ExclusiveBorrow, Goto, Drop
  <1>1. ASSUME NEW r \in Requests, Cancel(r)
        PROVE  TypeOK' /\ HoldsWhileUsing' /\ ExclusiveBorrow'
    BY <1>1 DEF Cancel
  <1>2. ASSUME NEW r \in Requests, Enter(r) \/ Park(r) \/ Wake(r) \/ Reject(r)
        PROVE  TypeOK' /\ HoldsWhileUsing' /\ ExclusiveBorrow'
    BY <1>2 DEF Enter, Park, Wake, Reject
  <1>3. ASSUME NEW r \in Requests, PopIdle(r)
        PROVE  TypeOK' /\ HoldsWhileUsing' /\ ExclusiveBorrow'
    BY <1>3 DEF PopIdle
  <1>4. ASSUME NEW r \in Requests, Reserve(r)
        PROVE  TypeOK' /\ HoldsWhileUsing' /\ ExclusiveBorrow'
    BY <1>4 DEF Reserve
  <1>5. ASSUME NEW r \in Requests, LendReused(r)
        PROVE  TypeOK' /\ HoldsWhileUsing' /\ ExclusiveBorrow'
    <2>1. CASE cancelled[r]
      BY <1>5, <2>1 DEF LendReused
    <2>2. CASE ~cancelled[r]
      BY <1>5, <2>2 DEF LendReused
    <2>3. QED
      BY <2>1, <2>2
  <1>6. ASSUME NEW r \in Requests, OpenSucceeds(r)
        PROVE  TypeOK' /\ HoldsWhileUsing' /\ ExclusiveBorrow'
    BY <1>6 DEF OpenSucceeds, Live, Holders
  <1>7. ASSUME NEW r \in Requests, OpenFails(r)
        PROVE  TypeOK' /\ HoldsWhileUsing' /\ ExclusiveBorrow'
    <2>1. r \in Users /\ created >= 1
      <3>1. r \in Users
        BY <1>7 DEF OpenFails, Users
      <3>2. Cardinality(Users) # 0
        BY <3>1, UsersFinite, FS_EmptySet
      <3>3. QED
        BY <3>1, <3>2, UsersFinite, IdleFinite DEF SlotAccount
    <2>2. QED
      BY <1>7, <2>1 DEF OpenFails
  <1>8. ASSUME NEW r \in Requests, GiveBack(r)
        PROVE  TypeOK' /\ HoldsWhileUsing' /\ ExclusiveBorrow'
    <2>1. r \in Users /\ created >= 1
      <3>1. r \in Users
        BY <1>8 DEF GiveBack, Users
      <3>2. Cardinality(Users) # 0
        BY <3>1, UsersFinite, FS_EmptySet
      <3>3. QED
        BY <3>1, <3>2, UsersFinite, IdleFinite DEF SlotAccount
    <2>2. CASE closed
      BY <1>8, <2>1, <2>2 DEF GiveBack
    <2>3. CASE ~closed
      BY <1>8, <2>3 DEF GiveBack
    <2>4. QED
      BY <2>2, <2>3
  <1>9. ASSUME Close
        PROVE  TypeOK' /\ HoldsWhileUsing' /\ ExclusiveBorrow'
    <2>1. created - Cardinality(available) \in Nat
      BY UsersFinite, IdleFinite DEF SlotAccount
    <2>2. QED
      BY <1>9, <2>1 DEF Close
  <1>10. CASE UNCHANGED vars
    BY <1>10 DEF vars
  <1>11. QED
    BY <1>1, <1>2, <1>3, <1>4, <1>5, <1>6, <1>7, <1>8, <1>9, <1>10
       DEF Next, Proceed

\* Every step keeps the account of slots and its bound.
LEMMA AccountStep == PoolInv /\ [Next]_vars => SlotAccount' /\ BoundedReaders'
  <1> SUFFICES ASSUME PoolInv, [Next]_vars
               PROVE  SlotAccount' /\ BoundedReaders'
    OBVIOUS
  <1> USE DEF SlotAccount, BoundedReaders
  <1>a. TypeOK /\ IsFiniteSet(available) /\ Cardinality(available) \in Nat
    BY IdleFinite DEF PoolInv, TypeOK
  <1>b. created \in Nat /\ lost \in Nat /\ Cardinality(Users) \in Nat
        /\ created = Cardinality(available) + Cardinality(Users) + lost
        /\ created <= Size /\ pc \in [Requests -> PC]
    BY <1>a, UsersFinite DEF PoolInv, TypeOK
  <1>1. ASSUME NEW r \in Requests, Cancel(r)
        PROVE  SlotAccount' /\ BoundedReaders'
    BY <1>b, <1>1 DEF Cancel, Users
  <1>2. ASSUME NEW r \in Requests, Enter(r) \/ Park(r) \/ Wake(r) \/ Reject(r)
        PROVE  SlotAccount' /\ BoundedReaders'
    <2>1. Users' = Users
      BY <1>b, <1>2 DEF Enter, Park, Wake, Reject, Users, Goto
    <2>2. QED
      BY <1>b, <1>2, <2>1 DEF Enter, Park, Wake, Reject
  <1>3. ASSUME NEW r \in Requests, PopIdle(r)
        PROVE  SlotAccount' /\ BoundedReaders'
    <2>1. PICK c \in available : available' = available \ {c}
      BY <1>3 DEF PopIdle
    <2>2. Cardinality(available') = Cardinality(available) - 1
      BY <1>a, <2>1, FS_RemoveElement
    <2>3. Cardinality(Users') = Cardinality(Users) + 1
      BY <1>b, <1>3, UsersGrow DEF PopIdle
    <2>4. created' = created /\ lost' = lost
      BY <1>3 DEF PopIdle
    <2>5. QED
      BY <1>a, <1>b, <2>2, <2>3, <2>4
  <1>4. ASSUME NEW r \in Requests, Reserve(r)
        PROVE  SlotAccount' /\ BoundedReaders'
    <2>1. Cardinality(Users') = Cardinality(Users) + 1
      BY <1>b, <1>4, UsersGrow DEF Reserve
    <2>2. created' = created + 1 /\ lost' = lost /\ available' = available
          /\ created < Size
      BY <1>4 DEF Reserve
    <2>3. QED
      BY <1>a, <1>b, <2>1, <2>2
  <1>5. ASSUME NEW r \in Requests, LendReused(r)
        PROVE  SlotAccount' /\ BoundedReaders'
    <2>1. created' = created /\ available' = available
      BY <1>5 DEF LendReused
    <2>2. CASE cancelled[r]
      <3>1. Cardinality(Users') = Cardinality(Users) - 1
        BY <1>b, <1>5, <2>2, UsersShrink DEF LendReused
      <3>2. lost' = lost + 1
        BY <1>5, <2>2 DEF LendReused
      <3>3. QED
        BY <1>a, <1>b, <2>1, <3>1, <3>2
    <2>3. CASE ~cancelled[r]
      <3>1. Users' = Users
        BY <1>b, <1>5, <2>3, UsersSame DEF LendReused
      <3>2. lost' = lost
        BY <1>5, <2>3 DEF LendReused
      <3>3. QED
        BY <1>a, <1>b, <2>1, <3>1, <3>2
    <2>4. QED
      BY <2>2, <2>3
  <1>6. ASSUME NEW r \in Requests, OpenSucceeds(r)
        PROVE  SlotAccount' /\ BoundedReaders'
    <2>1. Users' = Users
      BY <1>b, <1>6, UsersSame DEF OpenSucceeds
    <2>2. QED
      BY <1>b, <1>6, <2>1 DEF OpenSucceeds
  <1>7. ASSUME NEW r \in Requests, OpenFails(r)
        PROVE  SlotAccount' /\ BoundedReaders'
    <2>1. Cardinality(Users') = Cardinality(Users) - 1
      BY <1>b, <1>7, UsersShrink DEF OpenFails
    <2>2. created' = created - 1 /\ lost' = lost /\ available' = available
      BY <1>7 DEF OpenFails
    <2>3. QED
      BY <1>a, <1>b, <2>1, <2>2
  <1>8. ASSUME NEW r \in Requests, GiveBack(r)
        PROVE  SlotAccount' /\ BoundedReaders'
    <2>1. Cardinality(Users') = Cardinality(Users) - 1
      BY <1>b, <1>8, UsersShrink DEF GiveBack
    <2>2. lost' = lost
      BY <1>8 DEF GiveBack
    <2>3. CASE closed
      <3>1. created' = created - 1 /\ available' = available
        BY <1>8, <2>3 DEF GiveBack
      <3>2. QED
        BY <1>a, <1>b, <2>1, <2>2, <3>1
    <2>4. CASE ~closed
      <3>1. created' = created /\ available' = available \union {held[r]}
        BY <1>8, <2>4 DEF GiveBack
      <3>2. held[r] \notin available
        BY <1>8 DEF PoolInv, ExclusiveBorrow
      <3>3. Cardinality(available') = Cardinality(available) + 1
        BY <1>a, <3>1, <3>2, FS_AddElement
      <3>4. QED
        BY <1>a, <1>b, <2>1, <2>2, <3>1, <3>3
    <2>5. QED
      BY <2>3, <2>4
  <1>9. ASSUME Close
        PROVE  SlotAccount' /\ BoundedReaders'
    <2>1. Users' = Users /\ lost' = lost /\ available' = {}
          /\ created' = created - Cardinality(available)
      BY <1>9 DEF Close, Users
    <2>2. QED
      BY <1>a, <1>b, <2>1, FS_EmptySet
  <1>10. CASE UNCHANGED vars
    BY <1>b, <1>10 DEF vars, Users
  <1>11. QED
    BY <1>1, <1>2, <1>3, <1>4, <1>5, <1>6, <1>7, <1>8, <1>9, <1>10
       DEF Next, Proceed

\* Every step keeps a closed pool empty.
LEMMA ClosedStep == PoolInv /\ [Next]_vars => ClosedKeepsNothing'
  <1> SUFFICES ASSUME PoolInv, [Next]_vars
               PROVE  ClosedKeepsNothing'
    OBVIOUS
  <1> USE DEF PoolInv, TypeOK, ClosedKeepsNothing, Goto, Drop
  <1>1. ASSUME NEW r \in Requests, Proceed(r)
        PROVE  ClosedKeepsNothing'
    <2>1. CASE GiveBack(r)
      BY <2>1 DEF GiveBack
    <2>2. CASE ~GiveBack(r)
      BY <1>1, <2>2
         DEF Proceed, Enter, Park, Wake, Reject, PopIdle, Reserve, LendReused,
             OpenSucceeds, OpenFails
    <2>3. QED
      BY <2>1, <2>2
  <1>2. CASE Close
    BY <1>2 DEF Close
  <1>3. ASSUME NEW r \in Requests, Cancel(r)
        PROVE  ClosedKeepsNothing'
    BY <1>3 DEF Cancel
  <1>4. CASE UNCHANGED vars
    BY <1>4 DEF vars
  <1>5. QED
    BY <1>1, <1>2, <1>3, <1>4 DEF Next

\* Every step keeps the losses below the searches that have ended: the only step
\* that loses a slot ends a cancelled search.
LEMMA LossStep == PoolInv /\ [Next]_vars => LossNeedsCancel'
  <1> SUFFICES ASSUME PoolInv, [Next]_vars
               PROVE  LossNeedsCancel'
    OBVIOUS
  <1>a. pc \in [Requests -> PC] /\ cancelled \in [Requests -> BOOLEAN] /\ lost \in Nat
    BY DEF PoolInv, TypeOK
  <1>b. /\ \A r \in Requests : cancelled[r] => r \in Traced
        /\ lost <= Cardinality(Ended)
    BY DEF PoolInv, LossNeedsCancel
  <1>1. \A r \in Requests : cancelled'[r] => r \in Traced
    BY <1>a, <1>b DEF vars, Next, Proceed, Cancel, Enter, Park, Wake, Reject, PopIdle,
       Reserve, LendReused, OpenSucceeds, OpenFails, GiveBack, Close
  <1>2. lost' <= Cardinality(Ended')
    <2>1. ASSUME NEW r \in Requests, LendReused(r), cancelled[r]
          PROVE  lost' <= Cardinality(Ended')
      <3>1. Cardinality(Ended') = Cardinality(Ended) + 1
        BY <1>a, <1>b, <2>1, EndedGrow DEF LendReused
      <3>2. lost' = lost + 1
        BY <2>1 DEF LendReused
      <3>3. QED
        BY <1>a, <1>b, <3>1, <3>2, EndedFinite
    <2>2. CASE ~(\E r \in Requests : LendReused(r) /\ cancelled[r])
      <3>1. lost' = lost
        BY <2>2 DEF vars, Next, Proceed, Cancel, Enter, Park, Wake, Reject, PopIdle,
           Reserve, LendReused, OpenSucceeds, OpenFails, GiveBack, Close
      <3>2. Cardinality(Ended') \in Nat
        <4>1. Ended' \in SUBSET Requests
          BY DEF Ended
        <4>2. QED
          BY <4>1, FS_Subset, FS_CardinalityType
      <3>3. QED
        BY <1>a, <1>b, <3>1, <3>2, EndedStays, EndedFinite
    <2>3. QED
      BY <2>1, <2>2
  <1>3. QED
    BY <1>1, <1>2 DEF LossNeedsCancel

THEOREM PoolInvariant == Spec => []PoolInv
  <1>1. PoolInv /\ [Next]_vars => PoolInv'
    BY HoldingStep, AccountStep, ClosedStep, LossStep DEF PoolInv
  <1>2. QED
    BY InitInv, <1>1, PTL DEF Spec

-----------------------------------------------------------------------------

\* A connection of acquire() is lent to one request at a time and is never on
\* the idle list while lent.
THEOREM BorrowIsExclusive == Spec => []ExclusiveBorrow
  <1>1. PoolInv => ExclusiveBorrow
    BY DEF PoolInv
  <1>2. QED
    BY PoolInvariant, <1>1, PTL

\* The slots counted in _created are the idle connections, the requests
\* between reservation and return, and the slots lost to cancellation.
THEOREM SlotsAreAccountedFor == Spec => []SlotAccount
  <1>1. PoolInv => SlotAccount
    BY DEF PoolInv
  <1>2. QED
    BY PoolInvariant, <1>1, PTL

\* Concurrent first searches never open more connections than the size.
THEOREM ReadersAreBounded == Spec => []BoundedReaders
  <1>1. PoolInv => BoundedReaders
    BY DEF PoolInv
  <1>2. QED
    BY PoolInvariant, <1>1, PTL

\* close() leaves no idle connection behind, and no later return adds one.
THEOREM ClosedPoolIsEmpty == Spec => []ClosedKeepsNothing
  <1>1. PoolInv => ClosedKeepsNothing
    BY DEF PoolInv
  <1>2. QED
    BY PoolInvariant, <1>1, PTL

\* The cancelled searches lose at most one slot each.
THEOREM LossIsBounded == Spec => [](lost <= Cardinality(Traced))
  <1>1. PoolInv => lost <= Cardinality(Traced)
    <2> SUFFICES ASSUME PoolInv PROVE lost <= Cardinality(Traced)
      OBVIOUS
    <2>1. IsFiniteSet(Traced) /\ Ended \in SUBSET Traced
      BY FS_Subset DEF Ended
    <2>2. Cardinality(Ended) <= Cardinality(Traced) /\ Cardinality(Traced) \in Nat
      BY <2>1, FS_Subset, FS_CardinalityType
    <2>3. QED
      BY <2>2, EndedFinite DEF PoolInv, LossNeedsCancel, TypeOK
  <1>2. QED
    BY PoolInvariant, <1>1, PTL

\* With fewer cancellable searches than slots a slot is always left: the
\* exception of EveryRequestEnds never applies.
THEOREM SomeSlotIsLeft ==
  ASSUME Cardinality(Traced) < Size
  PROVE  Spec => []~AllSlotsLost
  <1>1. PoolInv /\ lost <= Cardinality(Traced) => ~AllSlotsLost
    <2>1. IsFiniteSet(Traced)
      BY FS_Subset
    <2>2. QED
      BY <2>1, FS_CardinalityType DEF PoolInv, TypeOK, AllSlotsLost
  <1>2. QED
    BY PoolInvariant, LossIsBounded, <1>1, PTL

\* Without cancellable traces (the Ask requests) every slot comes back: a pool
\* that nobody uses has an idle connection for each slot it counts.
THEOREM UncancelledSlotsReturn ==
  ASSUME Traced = {}
  PROVE  Spec => []SlotsReturn
  <1>1. PoolInv => SlotsReturn
    <2> SUFFICES ASSUME PoolInv, Users = {}
                 PROVE  created = Cardinality(available)
      BY DEF SlotsReturn
    <2>1. lost = 0
      <3>1. Ended = {}
        BY DEF Ended
      <3>2. QED
        BY <3>1, FS_EmptySet DEF PoolInv, LossNeedsCancel, TypeOK
    <2>2. Cardinality(Users) = 0 /\ Cardinality(available) \in Nat
      BY FS_EmptySet, IdleFinite DEF PoolInv, TypeOK
    <2>3. QED
      BY <2>1, <2>2 DEF PoolInv, SlotAccount
  <1>2. QED
    BY PoolInvariant, <1>1, PTL

=============================================================================
