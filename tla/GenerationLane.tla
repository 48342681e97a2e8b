--------------------------- MODULE GenerationLane ---------------------------
(***************************************************************************)
(* What RagService promises about the local model: one owner at a time of  *)
(* the lane, native jobs started by the owner only and one after another.  *)
(* A job may outlive the ownership of the user that started it (the        *)
(* observer of a native operation may leave), and then the lane may change *)
(* hands but no second job starts.                                         *)
(***************************************************************************)
CONSTANTS
  Users,    \* threads that may own the lane
  Nobody    \* not one of them

VARIABLES
  owner,    \* who owns the lane
  job       \* who started the native job that runs

TypeOK == owner \in Users \union {Nobody} /\ job \in Users \union {Nobody}

Init == owner = Nobody /\ job = Nobody

Take(u) == owner = Nobody /\ owner' = u /\ UNCHANGED job
Give(u) == owner = u /\ owner' = Nobody /\ UNCHANGED job
Start(u) == owner = u /\ job = Nobody /\ job' = u /\ UNCHANGED owner
Finish == job # Nobody /\ job' = Nobody /\ UNCHANGED owner

Next == Finish \/ \E u \in Users : Take(u) \/ Give(u) \/ Start(u)

Spec == Init /\ [][Next]_<<owner, job>>
=============================================================================
