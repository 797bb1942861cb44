------------------------------ MODULE Infernos ------------------------------
(***************************************************************************)
(* Fires on the ground (internal/parser/inferno.go).                       *)
(*                                                                         *)
(* An inferno is a set of flames, each lit and put out in its own time,    *)
(* and its entity outlives the last of them.  The parser looks at them     *)
(* every few ticks, in the frames that are there, and in the end emits a   *)
(* row for every inferno it has seen burn.                                 *)
(*                                                                         *)
(* Assumed of the game: a new round removes every inferno before its first *)
(* frame.                                                                  *)
(***************************************************************************)
EXTENDS ParseClock

CONSTANTS
    Flames,         \* <<inferno, flame>>: what may burn in the recording
    InfernoEvery    \* infernoSampleTicks

ASSUME InfernosAssumption == InfernoEvery \in Nat \ {0}

VARIABLES
    lit,            \* of the game: flame -> whether it burns, the first and the last
                    \* frame it burned in (0 for none), and the round it was lit in
    present,        \* of the game: the infernos whose entity is there
    lastInfernoSample,
    infernos,       \* inferno -> the round it has, of those looked at
    fires,          \* flame -> the first and the last tick, of those seen
    emitted         \* Result.Infernos

infernoVars == <<lit, present, lastInfernoSample, infernos, fires, emitted>>

InfernosInit ==
    /\ lit = <<>>
    /\ present = {}
    /\ lastInfernoSample = 0
    /\ infernos = <<>> /\ fires = <<>>
    /\ emitted = {}

Lit == DOMAIN lit
Of(id) == {f \in Lit : f[1] = id}

\* The game: a flame is lit, the first with its inferno; one goes out; an
\* inferno is removed when nothing of it burns any more.
Light(flames) ==
    /\ Parsing /\ phase # "freeze"
    /\ \E f \in flames \ Lit :
        /\ f[1] \in present \/ Of(f[1]) = {}
        /\ lit' = [g \in Lit \cup {f} |->
             IF g = f THEN [burns |-> TRUE, first |-> 0, last |-> 0, round |-> currentRound]
             ELSE lit[g]]
        /\ present' = present \cup {f[1]}
    /\ UNCHANGED <<lastInfernoSample, infernos, fires, emitted>>

PutOut ==
    /\ Parsing
    /\ \E f \in Lit : lit[f].burns /\ lit' = [lit EXCEPT ![f].burns = FALSE]
    /\ UNCHANGED <<present, lastInfernoSample, infernos, fires, emitted>>

RemoveInferno ==
    /\ Parsing
    /\ \E id \in present :
        /\ \A f \in Of(id) : ~ lit[f].burns
        /\ present' = present \ {id}
    /\ UNCHANGED <<lit, lastInfernoSample, infernos, fires, emitted>>

\* The game's part of a frame.
Burned ==
    [f \in Lit |-> IF lit[f].burns
                   THEN [lit[f] EXCEPT !.first = IF @ = 0 THEN tick ELSE @, !.last = tick]
                   ELSE lit[f]]

\* Wrong: every flame of an inferno that is there counts as burning.
ThereOf == {f \in Lit : f[1] \in present}

\* What a look at the infernos that are there finds burning.
Burning == {f \in Lit : f[1] \in present /\ lit[f].burns}

\* trackInfernos, of onFrameDone.
TrackInfernos ==
    /\ lit' = Burned
    /\ \/ /\ tick - lastInfernoSample < InfernoEvery
          /\ UNCHANGED <<lastInfernoSample, infernos, fires>>
       \/ /\ tick - lastInfernoSample >= InfernoEvery
          /\ lastInfernoSample' = tick
          /\ infernos' = [id \in DOMAIN infernos \cup present |->
               IF id \in DOMAIN infernos THEN infernos[id] ELSE currentRound]
          /\ fires' = [f \in DOMAIN fires \cup Burning |->
               [first |-> IF f \in DOMAIN fires THEN fires[f].first ELSE tick,
                last |-> IF f \in Burning THEN tick ELSE fires[f].last]]
    /\ UNCHANGED <<present, emitted>>

\* A new round removes every inferno.
RoundStartInfernos ==
    /\ present' = {}
    /\ lit' = [f \in Lit |-> [lit[f] EXCEPT !.burns = FALSE]]
    /\ UNCHANGED <<lastInfernoSample, infernos, fires, emitted>>

Seen(id) == {f \in DOMAIN fires : f[1] = id}

\* flushInfernos, of finalize: no row for one that was never seen burning.
FlushInfernos ==
    /\ emitted' = {[id |-> id, round |-> infernos[id],
                    first |-> CHOOSE t \in {fires[f].first : f \in Seen(id)} :
                                 \A f \in Seen(id) : t <= fires[f].first,
                    last |-> CHOOSE t \in {fires[f].last : f \in Seen(id)} :
                                 \A f \in Seen(id) : t >= fires[f].last,
                    fires |-> Seen(id)]
                   : id \in {i \in DOMAIN infernos : Seen(i) # {}}}
    /\ infernos' = <<>>
    /\ UNCHANGED <<lit, present, lastInfernoSample, fires>>

InfernosTypeOK ==
    /\ Lit \subseteq Flames /\ present \subseteq {f[1] : f \in Lit}
    /\ lastInfernoSample \in 0 .. MaxTick
    /\ \A id \in DOMAIN infernos : infernos[id] \in 1 .. MaxRounds
    /\ \A f \in DOMAIN fires : fires[f] \in [first : Ticks, last : Ticks]

\* What is kept of a flame is within what it burned, and begins and ends less
\* than a look away from it; a flame that burned for longer than the looks are
\* apart is never missed, nor is its inferno, which has the round it
\* was lit in and ends with its flames, not with its entity (inferno.go: "the
\* burn's end has to come from the flames themselves").
InfernosAreTheGames ==
    LET apart == InfernoEvery + MaxGap - 1
    IN  /\ InfernosTypeOK
        /\ \A f \in DOMAIN fires :
             /\ lit[f].first <= fires[f].first /\ fires[f].last <= lit[f].last
             /\ fires[f].first - lit[f].first < apart
             /\ lit[f].last - fires[f].last < apart
        /\ \A f \in Lit \ DOMAIN fires : lit[f].last - lit[f].first < apart
        /\ finalized => \A f \in DOMAIN fires : \E e \in emitted : e.id = f[1] /\ f \in e.fires
        /\ \A e \in emitted : \A f \in e.fires :
             /\ e.round = lit[f].round
             /\ \E g, h \in e.fires : /\ lit[g].first <= e.first /\ e.first <= fires[f].first
                                      /\ e.last <= lit[h].last /\ e.last >= fires[f].last
=============================================================================
