-------------------------- MODULE MCLatestPointer --------------------------
(***************************************************************************)
(* Model values for LatestPointer. Three refreshers: one on the network,    *)
(* one that still has its channel to close, one whose channel a request     *)
(* that has not run again yet still names.                                  *)
(***************************************************************************)
EXTENDS LatestPointer

CONSTANTS c1, c2, r1, r2, r3

TwoCallers      == {c1, c2}
ThreeRefreshers == {r1, r2, r3}
=============================================================================
