------------------------------- MODULE Bombs --------------------------------
(***************************************************************************)
(* The bomb's timeline and the blasts that hold smoke open                 *)
(* (internal/parser/bombs.go, and recordBlast in smoke.go).                *)
(*                                                                         *)
(* Bomb events of every round make one list.  An explosion says where it   *)
(* was, and displaces smoke there: at the bomb or, as the bomb's entity is *)
(* gone by then in some demos, where the list says it was planted.  Blasts *)
(* are kept until the round after.                                         *)
(***************************************************************************)
EXTENDS ParseClock, SequencesExt

CONSTANTS
    Sites,      \* where a bomb may be planted
    MaxBombs    \* bound: bomb events of the recording

ASSUME BombsAssumption == Sites \subseteq Nat \ {0} /\ MaxBombs \in Nat

VARIABLES
    bomb,           \* of the game: what is being done to the bomb
    planted,        \* of the game: where it was planted in this round, or 0
    bombs,          \* Result.Bombs; 0 is a row without a place
    blasts,         \* as the place and round of an explosion
    exploded        \* of the game: the explosions of this round that have a place

bombVars == <<bomb, planted, bombs, blasts, exploded>>

Nowhere == 0

BombsInit ==
    /\ bomb = "carried" /\ planted = Nowhere
    /\ bombs = <<>>
    /\ blasts = {} /\ exploded = {}

\* liveBombPos of a bomb that is at a place: the place, or no place although
\* the game knows the bomb, or nothing.
LiveBombPos(at) == {[ok |-> TRUE, at |-> at], [ok |-> TRUE, at |-> Nowhere],
                    [ok |-> FALSE, at |-> Nowhere]}

\* A row; real is where the bomb of this round was planted, which the code
\* does not know.  The places of drops are left out.
Row(type, at) ==
    /\ Len(bombs) < MaxBombs
    /\ bombs' = Append(bombs, [tick |-> tick, type |-> type, at |-> at, real |-> planted'])

\* The events that only add a row: what the bomb was, the row, what it is then.
Steps == {<<"carried", "plant_begin", "planting">>, <<"planting", "plant_abort", "carried">>,
          <<"planted", "defuse_begin", "defusing">>, <<"defusing", "defuse_abort", "planted">>,
          <<"defusing", "defused", "over">>, <<"carried", "dropped", "dropped">>,
          <<"dropped", "pickup", "carried">>}

\* onBombPlantBegin, onBombPlantAborted, onBombDefuseStart, onBombDefuseAborted,
\* onBombDefused, onBombDropped and onBombPickup.
OnBombStep ==
    /\ Parsing /\ phase = "play"
    /\ UNCHANGED <<planted, blasts, exploded>>
    /\ \E step \in Steps :
        /\ bomb = step[1]
        /\ bomb' = step[3]
        /\ Row(step[2], Nowhere)

OnBombPlanted ==
    /\ Parsing /\ phase = "play" /\ bomb = "planting"
    /\ \E at \in Sites :
        /\ planted' = at
        /\ \E seen \in LiveBombPos(at) : Row("planted", seen.at)
    /\ bomb' = "planted"
    /\ UNCHANGED <<blasts, exploded>>

Plants == {i \in DOMAIN bombs : bombs[i].type = "planted"}

\* Wrong: a plant without a place is passed over for an earlier one.
LastPlacedPlant ==
    LET placed == {i \in Plants : bombs[i].at # Nowhere}
    IN  IF placed = {} THEN Nowhere
        ELSE bombs[CHOOSE i \in placed : \A j \in placed : j <= i].at

\* lastPlantPos: the last of the whole list, not of the round's.
LastPlantPos ==
    IF Plants = {} THEN Nowhere
    ELSE bombs[CHOOSE i \in Plants : \A j \in Plants : j <= i].at

\* recordBlast.
RecordBlast(at) ==
    blasts' = IF at = Nowhere THEN blasts
              ELSE blasts \cup {[at |-> at, tick |-> tick, round |-> currentRound]}

\* onBombExplode.
OnBombExplode ==
    /\ Parsing /\ phase = "play" /\ bomb \in {"planted", "defusing"}
    /\ UNCHANGED planted
    /\ \E seen \in LiveBombPos(planted) :
        LET at == IF seen.ok THEN seen.at ELSE LastPlantPos
        IN  /\ RecordBlast(at)
            /\ Row("exploded", at)
            /\ exploded' = IF at = Nowhere THEN exploded
                           ELSE exploded \cup {[at |-> planted, tick |-> tick]}
    /\ bomb' = "over"

\* onHeExplode's blast, at the place that the detonation's row gives, and where
\* the grenade is: no sites, so below 0.
HeBlast(at, real) ==
    /\ RecordBlast(at)
    /\ exploded' = exploded \cup {[at |-> real, tick |-> tick]}
    /\ UNCHANGED <<bomb, planted, bombs>>

\* Wrong: the clouds of a round are forgotten and its blasts are not.
KeepBlasts == UNCHANGED blasts

\* resetSmokes' part.
ForgetBlasts == blasts' = {}

RoundStartBombs ==
    /\ ForgetBlasts
    /\ bomb' = "carried" /\ planted' = Nowhere /\ exploded' = {}
    /\ UNCHANGED bombs

BombsTypeOK ==
    /\ bomb \in {"carried", "dropped", "planting", "planted", "defusing", "over"}
    /\ planted \in Sites \cup {Nowhere}
    /\ \A i \in DOMAIN bombs : bombs[i].at \in Sites \cup {Nowhere} /\ bombs[i].tick \in Ticks
    /\ Len(bombs) <= MaxBombs

\* The blasts that hold smoke open are the explosions of this round, every
\* one that has a place and where it was, although the list a bomb's place is
\* recovered from is that of every round, and a plant may be in it without its
\* place (bombs.go: "from the round's own bomb timeline").  An explosion
\* in the result is where the bomb of its round was planted, or nowhere.
BlastsAreTheRounds ==
    /\ BombsTypeOK
    /\ {[at |-> b.at, tick |-> b.tick] : b \in blasts} = exploded
    /\ \A b \in blasts : b.round = currentRound
    /\ \A i \in DOMAIN bombs : bombs[i].type = "exploded" => bombs[i].at \in {Nowhere, bombs[i].real}
=============================================================================
