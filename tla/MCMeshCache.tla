---------------------------- MODULE MCMeshCache ----------------------------
(***************************************************************************)
(* Model values for MeshCache. Three entries are enough: at a lookup that   *)
(* makes one, the other loader and the other URL reference one each.        *)
(***************************************************************************)
EXTENDS MeshCache

CONSTANTS l1, l2, u1, u2, e1, e2, e3

TwoLoaders   == {l1, l2}
TwoUrls      == {u1, u2}
ThreeEntries == {e1, e2, e3}
=============================================================================
