--------------------------- MODULE MCMapEndpoints ---------------------------
(***************************************************************************)
(* Model values for MapEndpoints: one slot per pool, which is the default   *)
(* of /drift and /discover, so that two requests of one kind contend.       *)
(*                                                                          *)
(* Build 1 is the pinned one, with a flat layout. The first manifest of     *)
(* build 2 lists no hull for the map, so its world has the pinned hull and  *)
(* clips of its own; the second lists both, rebuilt.                        *)
(*                                                                          *)
(* No request names build 1: it would be one that the default reference     *)
(* gives while latest.json has not been read; no drift names build 2 twice. *)
(* The requests are alike: of two behaviours that differ in which of them   *)
(* asks what, one is enough, that in which the first asks what comes first  *)
(* in an order of the questions. (Symmetry would not be sound for the       *)
(* liveness.)                                                               *)
(***************************************************************************)
EXTENDS MapEndpoints

CONSTANTS r1, r2

TwoRequests == {r1, r2}
OneSlotEach == [p \in Pools |-> 1]

TwoRevisions ==
    << [build |-> 2, hull |-> None, clip |-> 2], [build |-> 2, hull |-> 2, clip |-> 3] >>

Question(r) ==
    LET base(ref) == IF ref = Default THEN 0 ELSE 1
    IN  2 * (2 * (CASE kind[r] = "drift" -> 0 [] kind[r] = "geometry" -> 1
                    [] kind[r] = "discover" -> 2 [] kind[r] = "floor" -> 3)
             + base(refs[r][1])) + base(refs[r][2])

MCInit ==
    /\ Init
    /\ \A r \in Requests : /\ 1 \notin {refs[r][1], refs[r][2]}
                           /\ kind[r] = "drift" => Default \in {refs[r][1], refs[r][2]}
    /\ Question(r1) <= Question(r2)

MCSpec == MCInit /\ [][Next]_vars /\ Fairness
=============================================================================
