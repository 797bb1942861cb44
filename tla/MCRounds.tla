------------------------------ MODULE MCRounds ------------------------------
(* Small instances of Rounds for TLC. *)
EXTENDS Rounds

CONSTANT p1
MCPlayers == {p1}
=============================================================================
