----------------------------- MODULE ParseClock -----------------------------
(***************************************************************************)
(* What the handlers of the parser's frames and game events share          *)
(* (internal/parser): the tick the demo is at, the round counter and the   *)
(* live window.  Rounds.tla checks how these come about; here the match    *)
(* has started and its rounds follow each other.                           *)
(*                                                                         *)
(* A recording is a sequence of frames.  The events of a frame are         *)
(* dispatched while it is parsed and FrameDone closes it, so every handler *)
(* of a tick runs before the FrameDone of that tick.  Frames may be        *)
(* missing, so the tick may move on by more than one.                      *)
(***************************************************************************)
EXTENDS Integers, Sequences, FiniteSets

CONSTANTS
    MaxTick,    \* bound: the length of the recording
    MaxGap,     \* bound: ticks from one frame to the next (gap is at most that)
    MaxRounds   \* bound: rounds of the recording

ASSUME ClockAssumption == {MaxTick, MaxGap, MaxRounds} \subseteq Nat \ {0}

VARIABLES
    tick,           \* GameState().IngameTick()
    currentRound,
    phase,          \* "freeze", "play" or "closed" after RoundEndOfficial
    starts,         \* the tick each round started on
    finalized       \* finalize has run

clock == <<tick, currentRound, phase, starts, finalized>>

Ticks == 1 .. MaxTick

ClockTypeOK ==
    /\ tick \in 1 .. MaxTick + MaxGap
    /\ currentRound \in 1 .. MaxRounds
    /\ phase \in {"freeze", "play", "closed"}
    /\ starts \in Seq(Ticks)
    /\ finalized \in BOOLEAN

\* The state after MatchStart and the first RoundStart.
ClockInit ==
    /\ tick = 1
    /\ currentRound = 1
    /\ phase = "freeze"
    /\ starts = <<1>>
    /\ finalized = FALSE

\* The demo still has something to say at this tick.
Parsing == ~ finalized /\ tick <= MaxTick

liveRound == phase = "play"

\* FrameDone's part: the next frame is of a later tick, at most gap on.
ClockFrame(gap) ==
    /\ Parsing
    /\ tick' \in tick + 1 .. tick + gap
    /\ UNCHANGED <<currentRound, phase, starts, finalized>>

\* onRoundStart's part; also in mid-round, as a restart is.
ClockRoundStart ==
    /\ Parsing
    /\ tick > starts[currentRound]
    /\ currentRound < MaxRounds
    /\ currentRound' = currentRound + 1
    /\ phase' = "freeze"
    /\ starts' = Append(starts, tick)
    /\ UNCHANGED <<tick, finalized>>

\* onRoundFreezetimeEnd's part.
ClockFreezeEnd ==
    /\ Parsing
    /\ phase = "freeze"
    /\ phase' = "play"
    /\ UNCHANGED <<tick, currentRound, starts, finalized>>

\* onRoundEndOfficial's part.
ClockEndOfficial ==
    /\ Parsing
    /\ phase = "play"
    /\ phase' = "closed"
    /\ UNCHANGED <<tick, currentRound, starts, finalized>>

\* ParseToEnd returns, anywhere in the recording, and finalize runs.
ClockFinalize ==
    /\ ~ finalized
    /\ finalized' = TRUE
    /\ UNCHANGED <<tick, currentRound, phase, starts>>
=============================================================================
