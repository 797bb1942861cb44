---------------------------- MODULE DriftReport ----------------------------
(***************************************************************************)
(* What /drift promises its caller, without workers, chunks or lines: the   *)
(* answers to the batch arrive in the order of the request, none twice,     *)
(* none missing in between, and the run is called complete only when every  *)
(* lineup has been answered ("Order is preserved in the response",          *)
(* DriftRequest in internal/simulate/drift.go; streamDrift in              *)
(* cmd/server/drift.go). A run may also fail, with a prefix delivered.      *)
(***************************************************************************)
EXTENDS Integers

CONSTANT N    \* lineups in the request, a positive number

VARIABLES delivered,   \* the lineups whose answers the caller has, in order
          status       \* running, complete or failed

InOrder(n) == [i \in 1..n |-> i]

Init == delivered = InOrder(0) /\ status = "running"

Deliver ==
  /\ status = "running"
  /\ \E m, n \in 0..N : m < n /\ delivered = InOrder(m) /\ delivered' = InOrder(n)
  /\ UNCHANGED status

Complete ==
  /\ status = "running"
  /\ delivered = InOrder(N)
  /\ status' = "complete"
  /\ UNCHANGED delivered

Fail ==
  /\ status = "running"
  /\ status' = "failed"
  /\ UNCHANGED delivered

Next == Deliver \/ Complete \/ Fail

Spec == Init /\ [][Next]_<<delivered, status>>
=============================================================================
