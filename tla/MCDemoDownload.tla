--------------------------- MODULE MCDemoDownload ---------------------------
(***************************************************************************)
(* Model values for DemoDownload: two requests to one host.                 *)
(***************************************************************************)
EXTENDS DemoDownload, TLC

CONSTANTS q1, q2, h1

TwoRequests == {q1, q2}
OneHost     == {h1}
SameHost    == [r \in TwoRequests |-> h1]

Symmetry == Permutations(TwoRequests)
=============================================================================
