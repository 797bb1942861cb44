----------------------------- MODULE Positions ------------------------------
(***************************************************************************)
(* The position rows of the replay (internal/parser/shots.go).             *)
(*                                                                         *)
(* Every live frame stages its rows in a slot of a short ring, indexed by  *)
(* the tick modulo its length.  A frame emits its slot when the 4 Hz clock *)
(* comes round or a throw's window is open; a throw also emits the slots   *)
(* of the ticks behind it, which are then older than rows already out, so  *)
(* finalize sorts.  The rows of one tick are one row here.                 *)
(***************************************************************************)
EXTENDS ParseClock, Orders

CONSTANTS
    Burst,          \* throwBurstTicks
    SampleEvery     \* ticks of the 4 Hz clock: int(tickRate / 4), at least 1

ASSUME PositionsAssumption == Burst \in Nat /\ SampleEvery \in Nat \ {0}

VARIABLES
    posRing,                    \* slot -> tick, emitted, rows staged or not
    burstUntilTick, bursts,     \* bursts: positionBursts > 0
    lastPositionSampleTick,
    positions,                  \* Result.Positions, by tick
    thrown,                     \* the ticks of throws in live play
    captured                    \* the ticks whose live frame has been parsed

posVars == <<posRing, burstUntilTick, bursts, lastPositionSampleTick,
             positions, thrown, captured>>

Slots == 0 .. Burst
Slot(t) == t % (Burst + 1)

PosTypeOK ==
    /\ posRing \in [Slots -> [tick : 0 .. MaxTick, emitted : BOOLEAN, rows : BOOLEAN]]
    /\ burstUntilTick \in 0 .. MaxTick + Burst
    /\ bursts \in BOOLEAN
    /\ lastPositionSampleTick \in 0 .. MaxTick
    /\ positions \in Seq(Ticks)
    /\ thrown \subseteq Ticks
    /\ captured \subseteq Ticks

PosInit ==
    /\ posRing = [i \in Slots |-> [tick |-> 0, emitted |-> FALSE, rows |-> FALSE]]
    /\ burstUntilTick = 0
    /\ bursts = FALSE
    /\ lastPositionSampleTick = 0
    /\ positions = <<>>
    /\ thrown = {}
    /\ captured = {}

-----------------------------------------------------------------------------
\* Wrong: a slot is emitted again.
BehindEmittedToo(t) == {u \in t - Burst .. t : u >= 0 /\ posRing[Slot(u)].tick = u}

\* Wrong: the window behind is one tick short.
BehindShort(t) == {u \in t - Burst + 1 .. t :
                     /\ u >= 0
                     /\ posRing[Slot(u)].tick = u
                     /\ ~ posRing[Slot(u)].emitted}

\* A throw emits what the ring still holds of the ticks behind it: a slot of
\* its tick that has rows and has not been emitted.
Behind(t) == {u \in t - Burst .. t :
                /\ u >= 0
                /\ posRing[Slot(u)].tick = u
                /\ ~ posRing[Slot(u)].emitted}

\* The rows of a set of slots, oldest first.
RowsOf(us) == SubSequence([i \in Ticks |-> i], {u \in Ticks : u \in us /\ posRing[Slot(u)].rows})

Later(a, b) == IF a > b THEN a ELSE b

\* burstPositions(tick), called from the handler of a throw.
BurstPositions ==
    \/ /\ ~ liveRound
       /\ UNCHANGED posVars
    \/ /\ liveRound
       /\ positions' = positions \o RowsOf(Behind(tick))
       /\ posRing' = [i \in Slots |-> [posRing[i] EXCEPT
                        !.emitted = @ \/ posRing[i].tick \in Behind(tick)]]
       /\ burstUntilTick' = Later(tick + Burst, burstUntilTick)
       /\ bursts' = TRUE
       /\ thrown' = thrown \cup {tick}
       /\ UNCHANGED <<lastPositionSampleTick, captured>>

\* positionSampleDue(tick).
Due == lastPositionSampleTick = 0 \/ tick - lastPositionSampleTick >= SampleEvery

\* Wrong: the slot keeps the flag of the tick that was in it.
StagedKeepingFlag(emit) == [posRing EXCEPT ![Slot(tick)] =
                   [tick |-> tick, emitted |-> emit \/ @.emitted, rows |-> TRUE]]

\* Wrong: the frame emits without marking its slot.
StagedUnmarked(emit) == [posRing EXCEPT ![Slot(tick)] =
                   [tick |-> tick, emitted |-> FALSE, rows |-> TRUE]]

\* stagePositionSlot, capturePositions and, of the same frame, emitPositions.
Staged(emit) == [posRing EXCEPT ![Slot(tick)] =
                   [tick |-> tick, emitted |-> emit, rows |-> TRUE]]

\* A frame emits its own slot.
Emits == Due \/ tick <= burstUntilTick

\* onFrameDone, from the 4 Hz clock on: the clock is asked before the gate of
\* the live window, so that it keeps its phase.
FramePositions ==
    /\ lastPositionSampleTick' = IF Due THEN tick ELSE lastPositionSampleTick
    /\ \/ /\ ~ liveRound
          /\ UNCHANGED <<posRing, positions, captured>>
       \/ /\ liveRound
          /\ posRing' = Staged(Emits)
          /\ positions' = IF Emits THEN Append(positions, tick) ELSE positions
          /\ captured' = captured \cup {tick}
    /\ UNCHANGED <<burstUntilTick, bursts, thrown>>

\* Wrong: the rows stay in the order they were emitted in.
SortNothing == UNCHANGED posVars

\* The order of two rows, by tick.
RowBefore(i, j) ==
    \/ positions[i] < positions[j]
    \/ positions[i] = positions[j] /\ i < j

\* finalize: sortPositions.
SortPositions ==
    /\ LET rows == DOMAIN positions
       IN  positions' = IF bursts
                        THEN Ordered(positions, {x \in rows \X rows : RowBefore(x[1], x[2])})
                        ELSE positions
    /\ UNCHANGED <<posRing, burstUntilTick, bursts, lastPositionSampleTick,
                   thrown, captured>>

-----------------------------------------------------------------------------
Emitted == {positions[i] : i \in DOMAIN positions}

Increasing(s) == \A i, j \in DOMAIN s : i < j => s[i] < s[j]

\* The ticks a throw's window covers.
InWindow(t) == \E u \in thrown : u - Burst <= t /\ t <= u + Burst

\* No tick reaches the result twice, none that was not live, and every live
\* tick within a burst of a throw does, before it and after it
\* (TestPositionBurstCoversTheThrowWindow, TestOverlappingThrowsDoNotDuplicateRows):
\* although slots are reused, windows overlap, and the 4 Hz clock may come round
\* inside them.  Unless a throw has put older rows behind newer ones the rows
\* are in order, and in the result they always are (EventPosition: "rows stay
\* sorted by tick").
PositionsAreWhole ==
    /\ PosTypeOK
    /\ Emitted \subseteq captured
    /\ \A i, j \in DOMAIN positions : positions[i] = positions[j] => i = j
    /\ \A t \in captured : InWindow(t) => t \in Emitted
    /\ ~ bursts \/ finalized => Increasing(positions)
=============================================================================
