------------------------------- MODULE Rounds -------------------------------
(***************************************************************************)
(* The round bookkeeping of the demo parser (internal/parser/rounds.go and *)
(* the round part of finalize in parser.go).                               *)
(*                                                                         *)
(* The demo library dispatches the events of a recorded game, in order, to *)
(* handlers that share one state struct.  From MatchStart, RoundStart,     *)
(* RoundFreezetimeEnd, RoundEnd and RoundEndOfficial the parser builds the *)
(* table of rounds (Result.RoundTicks) and the number it stamps on every   *)
(* row of every other table.  The recording does not begin with the match: *)
(* there is a warmup, sometimes a knife round, and MatchStart may be       *)
(* announced before the knife round and once more after it.  It may also   *)
(* stop anywhere: a truncated demo is finalized with what was seen.        *)
(*                                                                         *)
(* The game itself (stage, phase, tick, team) is external, and so is the   *)
(* scoreboard the users see (board, opened): the properties compare the    *)
(* parser's tables with it.                                                *)
(***************************************************************************)
EXTENDS Integers, Sequences, FiniteSets

CONSTANTS
    Players,    \* the players with a SteamID
    Buffer,     \* int(rate * 5), the freeze delay added to the last RoundEnd
    MaxTick,    \* bound: the length of the recording
    MaxRounds,  \* bound: RoundStart events in the recording
    MaxRows     \* bound: rows of the other tables

ASSUME RoundsAssumption ==
    /\ IsFiniteSet(Players)
    /\ Buffer \in Nat
    /\ {MaxTick, MaxRounds, MaxRows} \subseteq Nat \ {0}

Sides == {"ct", "t"}
None == ""          \* no side, no winner yet

VARIABLES
    \* the game being replayed
    tick,       \* the tick the demo library is at
    stage,      \* "warmup", "knife" or "match"
    phase,      \* "idle" between rounds, "freeze", "play", or "over" once won
    team,       \* the side each player is on
    played,     \* RoundStart events so far
    board,      \* the scoreboard: the rounds of the match, when and by whom won
    opened,     \* the side each player first played the match on
    \* the parser's state
    matchStarted, currentRound, maxTick, lastRoundEndTick, liveRound,
    roundTicks,         \* Result.RoundTicks
    playerStartSides,
    engagements,        \* engagements still open, stamped when they opened
    rows,               \* the stamped rows of the other tables of Result
    done                \* finalize has run

game == <<tick, stage, phase, team, played, board, opened>>
parser == <<matchStarted, currentRound, maxTick, lastRoundEndTick, liveRound,
            roundTicks, playerStartSides, engagements, rows, done>>
vars == <<game, parser>>

RoundTick == [round : 1 .. MaxRounds, start : 1 .. MaxTick,
              freezeEnd : 0 .. MaxTick, end : 0 .. MaxTick,
              winner : Sides \cup {None}]

\* A row: the round stamped on it, its tick, and the scoreboard round it
\* really happened in (0 outside the match).
Row == [round : 0 .. MaxRounds, tick : 1 .. MaxTick, real : 0 .. MaxRounds]

TypeOK ==
    /\ tick \in 1 .. MaxTick
    /\ stage \in {"warmup", "knife", "match"}
    /\ phase \in {"idle", "freeze", "play", "over"}
    /\ team \in [Players -> Sides \cup {None}]
    /\ played \in 0 .. MaxRounds
    /\ board \in Seq([won : 0 .. MaxTick, winner : Sides \cup {None}])
    /\ opened \in [Players -> Sides \cup {None}]
    /\ matchStarted \in BOOLEAN
    /\ currentRound \in 0 .. MaxRounds
    /\ maxTick \in 0 .. MaxTick
    /\ lastRoundEndTick \in 0 .. MaxTick
    /\ liveRound \in BOOLEAN
    /\ roundTicks \in Seq(RoundTick)
    /\ playerStartSides \in [Players -> Sides \cup {None}]
    /\ engagements \in SUBSET Row
    /\ rows \in SUBSET Row
    /\ done \in BOOLEAN

NoSides == [p \in Players |-> None]

Init ==
    /\ tick = 1
    /\ stage = "warmup"
    /\ phase = "idle"
    /\ team = NoSides
    /\ played = 0
    /\ board = <<>>
    /\ opened = NoSides
    /\ matchStarted = FALSE
    /\ currentRound = 0
    /\ maxTick = 0
    /\ lastRoundEndTick = 0
    /\ liveRound = FALSE
    /\ roundTicks = <<>>
    /\ playerStartSides = NoSides
    /\ engagements = {}
    /\ rows = {}
    /\ done = FALSE

-----------------------------------------------------------------------------
(* The game, as far as the parser depends on it.                           *)

\* The recording moves on.
Tick ==
    /\ ~ done
    /\ tick < MaxTick
    /\ tick' = tick + 1
    /\ UNCHANGED <<stage, phase, team, played, board, opened, parser>>

\* A player takes a side for the first time.
Join(p) ==
    /\ ~ done
    /\ team[p] = None
    /\ \E s \in Sides : team' = [team EXCEPT ![p] = s]
    /\ UNCHANGED <<tick, stage, phase, played, board, opened, parser>>

\* The sides are swapped: at half-time, or as the knife round's winner chose.
SwapSides ==
    /\ ~ done
    /\ phase = "idle"
    /\ team' = [p \in Players |-> CASE team[p] = "ct" -> "t"
                                    [] team[p] = "t"  -> "ct"
                                    [] OTHER          -> None]
    /\ UNCHANGED <<tick, stage, phase, played, board, opened, parser>>

\* A knife round that no MatchStart announces.
KnifeUnannounced ==
    /\ ~ done
    /\ stage = "warmup"
    /\ phase \in {"idle", "over"}
    /\ stage' = "knife"
    /\ phase' = "idle"
    /\ UNCHANGED <<tick, team, played, board, opened, parser>>

-----------------------------------------------------------------------------
(* The handlers.                                                           *)

\* captureMaxTick.
CaptureMaxTick == IF tick > maxTick THEN tick ELSE maxTick

\* Wrong: the knife round stays counted.
ForgetSidesOnly ==
    /\ playerStartSides' = NoSides
    /\ UNCHANGED <<currentRound, roundTicks>>

\* Wrong: the knife round's sides stay recorded.
ForgetCountOnly ==
    /\ currentRound' = 0
    /\ roundTicks' = <<>>
    /\ UNCHANGED playerStartSides

\* What onMatchStart forgets: the count, the table and the sides.
Forget ==
    /\ currentRound' = 0
    /\ roundTicks' = <<>>
    /\ playerStartSides' = NoSides

\* onMatchStart.  The match always begins with it; a knife round sometimes does.
MatchStart ==
    /\ ~ done
    /\ phase \in {"idle", "over"}
    /\ \/ stage = "warmup" /\ stage' = "knife" /\ UNCHANGED <<board, opened>>
       \/ stage # "match"  /\ stage' = "match" /\ board' = <<>> /\ opened' = NoSides
    /\ phase' = "idle"
    /\ matchStarted' = TRUE
    /\ Forget
    /\ UNCHANGED <<tick, team, played, maxTick, lastRoundEndTick, liveRound,
                   engagements, rows, done>>

\* recordPlayerStartSide over every participant: only the first write sticks,
\* and a player without a side waits for a later round.
Recorded(sides) == [p \in Players |-> IF sides[p] = None THEN team[p] ELSE sides[p]]

\* Wrong: written with the round that is just beginning.
CloseIntoNextRound ==
    /\ rows' = rows \cup {[r EXCEPT !.round = currentRound + 1] : r \in engagements}
    /\ engagements' = {}

\* Wrong: forgotten without being written.
DropAllEngagements ==
    /\ rows' = rows
    /\ engagements' = {}

\* closeAllEngagements: what is still open is written, as it was stamped.
CloseAllEngagements ==
    /\ rows' = rows \cup engagements
    /\ engagements' = {}

\* onRoundStart.  Nothing has happened yet in the tick a round starts on.
RoundStart ==
    /\ ~ done
    /\ phase = "idle"
    /\ played < MaxRounds
    /\ \A r \in rows \cup engagements : r.tick < tick
    /\ phase' = "freeze"
    /\ played' = played + 1
    /\ IF stage = "match"
       THEN /\ board' = Append(board, [won |-> 0, winner |-> None])
            /\ opened' = Recorded(opened)
       ELSE UNCHANGED <<board, opened>>
    /\ maxTick' = CaptureMaxTick
    /\ IF ~ matchStarted
       THEN UNCHANGED <<currentRound, liveRound, roundTicks, playerStartSides,
                        engagements, rows>>
       ELSE /\ playerStartSides' = Recorded(playerStartSides)
            /\ currentRound' = currentRound + 1
            /\ liveRound' = FALSE
            /\ CloseAllEngagements
            /\ roundTicks' = Append(roundTicks,
                   [round |-> currentRound', start |-> tick, freezeEnd |-> 0,
                    end |-> 0, winner |-> None])
    /\ UNCHANGED <<tick, stage, team, matchStarted, lastRoundEndTick, done>>

\* What a handler writes now: stamped with the round the parser counts.
RowNow == [round |-> currentRound, tick |-> tick,
           real  |-> IF stage = "match" THEN Len(board) ELSE 0]

\* The bound on rows leaves room for one more.
RoomForARow == Cardinality(rows \cup engagements) < MaxRows

\* onRoundFreezetimeEnd: opens the live window and writes the inventories of
\* the players, if any carries something.
RoundFreezetimeEnd ==
    /\ ~ done
    /\ phase = "freeze"
    /\ phase' = "play"
    /\ IF ~ matchStarted
       THEN UNCHANGED <<liveRound, roundTicks, rows>>
       ELSE /\ liveRound' = TRUE
            /\ roundTicks' = IF roundTicks = <<>> THEN roundTicks
                             ELSE [roundTicks EXCEPT ![Len(roundTicks)].freezeEnd = tick]
            /\ \/ rows' = rows
               \/ RoomForARow /\ rows' = rows \cup {RowNow}
    /\ UNCHANGED <<tick, stage, team, played, board, opened, matchStarted, currentRound,
                   maxTick, lastRoundEndTick, playerStartSides, engagements, done>>

\* onRoundEnd: the win condition is met.  The live window stays open.
RoundEnd ==
    /\ ~ done
    /\ phase = "play"
    /\ phase' = "over"
    /\ \E w \in Sides :
        /\ board' = IF stage # "match" THEN board
                    ELSE [board EXCEPT ![Len(board)] = [won |-> tick, winner |-> w]]
        /\ IF ~ matchStarted \/ roundTicks = <<>>
           THEN UNCHANGED <<lastRoundEndTick, roundTicks>>
           ELSE /\ lastRoundEndTick' = tick
                /\ roundTicks' = [roundTicks EXCEPT ![Len(roundTicks)].winner = w]
    /\ UNCHANGED <<tick, stage, team, played, opened, matchStarted, currentRound, maxTick,
                   liveRound, playerStartSides, engagements, rows, done>>

\* Wrong: the first row.
FirstClosed(t) == [roundTicks EXCEPT ![1].end = t]

\* The table with its last row closed at tick t.
LastClosed(t) == [roundTicks EXCEPT ![Len(roundTicks)].end = t]

\* onRoundEndOfficial: the freeze delay after RoundEnd is over.  The engine
\* never fires it for the match-winning round.
RoundEndOfficial ==
    /\ ~ done
    /\ phase = "over"
    /\ phase' = "idle"
    /\ maxTick' = CaptureMaxTick
    /\ liveRound' = FALSE
    /\ roundTicks' = IF ~ matchStarted \/ roundTicks = <<>> THEN roundTicks
                     ELSE LastClosed(tick)
    /\ UNCHANGED <<tick, stage, team, played, board, opened, matchStarted, currentRound,
                   lastRoundEndTick, playerStartSides, engagements, rows, done>>

-----------------------------------------------------------------------------
(* The handlers that stamp rows with the current round.                    *)

\* onPlayerHurt writes a damage row once a round is counted.
PlayerHurt ==
    /\ ~ done
    /\ phase \in {"freeze", "play", "over"}
    /\ matchStarted
    /\ currentRound # 0
    /\ RoomForARow
    /\ rows' = rows \cup {RowNow}
    /\ UNCHANGED <<game, matchStarted, currentRound, maxTick, lastRoundEndTick, liveRound,
                   roundTicks, playerStartSides, engagements, done>>

\* onFrameDone writes the positions of every live tick.
FrameDone ==
    /\ ~ done
    /\ matchStarted
    /\ liveRound
    /\ RoomForARow
    /\ rows' = rows \cup {RowNow}
    /\ UNCHANGED <<game, matchStarted, currentRound, maxTick, lastRoundEndTick, liveRound,
                   roundTicks, playerStartSides, engagements, done>>

\* openEngagement: stamped now, written to the result when it closes.
OpenEngagement ==
    /\ ~ done
    /\ phase \in {"play", "over"}
    /\ matchStarted
    /\ liveRound
    /\ RoomForARow
    /\ engagements' = engagements \cup {RowNow}
    /\ UNCHANGED <<game, matchStarted, currentRound, maxTick, lastRoundEndTick, liveRound,
                   roundTicks, playerStartSides, rows, done>>

\* Wrong: the end of the recording, cinematic and all.
BackfilledToTheEnd == CaptureMaxTick

\* The end finalize gives a last round that has none: the last RoundEnd and
\* the buffer, but never past the recording, and the recording's end when no
\* round was won.
Backfilled ==
    LET end == lastRoundEndTick + Buffer
    IN  IF lastRoundEndTick = 0 \/ end > CaptureMaxTick THEN CaptureMaxTick ELSE end

\* finalize, at the end of the recording or where it breaks off.
Finalize ==
    /\ ~ done
    /\ done' = TRUE
    /\ maxTick' = CaptureMaxTick
    /\ roundTicks' = IF roundTicks = <<>> \/ roundTicks[Len(roundTicks)].end # 0
                     THEN roundTicks
                     ELSE LastClosed(Backfilled)
    /\ CloseAllEngagements
    /\ UNCHANGED <<game, matchStarted, currentRound, lastRoundEndTick, liveRound,
                   playerStartSides>>

\* The parse has returned.
Returned == done /\ UNCHANGED vars

Next ==
    \/ Tick
    \/ \E p \in Players : Join(p)
    \/ SwapSides
    \/ KnifeUnannounced
    \/ MatchStart
    \/ RoundStart
    \/ RoundFreezetimeEnd
    \/ RoundEnd
    \/ RoundEndOfficial
    \/ PlayerHurt
    \/ FrameDone
    \/ OpenEngagement
    \/ Finalize
    \/ Returned

Spec == Init /\ [][Next]_vars

-----------------------------------------------------------------------------
(* What the tables promise.                                                *)

\* The rounds of the table are those of the match, under the same numbers, each
\* won by the side that won it, within the window the table gives it.
RoundsAreScoreboard ==
    stage = "match" =>
        /\ matchStarted
        /\ currentRound = Len(board)
        /\ Len(roundTicks) = Len(board)
        /\ \A i \in 1 .. Len(board) :
            /\ roundTicks[i].round = i
            /\ roundTicks[i].winner = board[i].winner
            /\ board[i].won # 0 => roundTicks[i].start <= board[i].won
            /\ board[i].won # 0 /\ roundTicks[i].end # 0 => board[i].won <= roundTicks[i].end

\* A recorded starting side is the one the player first played the match on,
\* not the one of a knife round whose winner then swapped.
SidesAreScoreboard == stage = "match" => playerStartSides = opened

\* Once the match is under way the table and the sides are the scoreboard's:
\* however many warmup and knife rounds came first, and whether or not
\* MatchStart announced the knife round.
TableIsScoreboard == RoundsAreScoreboard /\ SidesAreScoreboard

\* roundOf of computeTrades: the round a tick belongs to by the table.
RoundOf(t) ==
    LET started == {i \in 1 .. Len(roundTicks) : roundTicks[i].start <= t}
    IN  IF started = {} THEN 0
        ELSE roundTicks[CHOOSE i \in started : \A j \in started : j <= i].round

\* The two ways a consumer finds the round of a row agree with the game: a row
\* of the match is stamped with the scoreboard round it happened in, and the
\* table puts its tick in that round.  Also for an engagement written only
\* when the next round has begun.
RowsAreInTheirRound ==
    \A r \in rows \cup engagements :
        r.real # 0 => r.round = r.real /\ RoundOf(r.tick) = r.real

\* The windows of the table follow each other: a round starts, unfreezes and
\* ends in this order, before the next one starts.  The last round of a
\* recording that breaks off before it is won is FinalRoundIsAfterItsStart's.
WindowsInOrder ==
    \A i \in 1 .. Len(roundTicks) :
        LET rt == roundTicks[i]
        IN  /\ rt.freezeEnd # 0 => rt.start <= rt.freezeEnd
            /\ i < Len(roundTicks) => rt.end # 0 /\ rt.end <= roundTicks[i + 1].start
            /\ rt.end # 0 /\ rt.winner # None => rt.start <= rt.end /\ rt.freezeEnd <= rt.end

\* The final round is not stretched over the post-match cinematic: once it was
\* won, its window closes no later than the buffer after the win, and inside
\* the recording.
FinalRoundIsTight ==
    done /\ stage = "match" /\ phase = "over" =>
        LET end == roundTicks[Len(roundTicks)].end
        IN  /\ end <= board[Len(board)].won + Buffer
            /\ end <= maxTick

\* No row is captured into a round the table has closed: while the live window
\* is open, the round being counted has unfrozen and has no end.
LiveRoundIsOpen ==
    liveRound /\ ~ done /\ roundTicks # <<>> =>
        LET rt == roundTicks[Len(roundTicks)]
        IN  rt.round = currentRound /\ rt.freezeEnd # 0 /\ rt.end = 0

\* The table's windows, the live window and the end of the last round fit
\* together, whether or not MatchStart announces a knife round, the last round
\* gets its official end, or the recording breaks off.
WindowsCoherent == TypeOK /\ WindowsInOrder /\ LiveRoundIsOpen /\ FinalRoundIsTight

\* Nothing gets out of the result again: a row, once written, stays; and the
\* engagements still open when the parse returns have all been written.
RowsAreKept == [][rows \subseteq rows' /\ engagements \subseteq engagements' \cup rows']_vars

-----------------------------------------------------------------------------
(* What the comments say and the code does not do.                         *)

\* parser.go:309-310: the final round is backfilled "from the RoundEnd tick
\* (when the win condition was met) plus a buffer".  In a recording that
\* breaks off in an unwon round the last RoundEnd is an earlier round's.
FinalRoundIsAfterItsStart ==
    done /\ roundTicks # <<>> =>
        roundTicks[Len(roundTicks)].start <= roundTicks[Len(roundTicks)].end

\* rounds.go:8-10: counting warmup and knife rounds "as rounds 1..N would
\* mismatch the user's scoreboard".  What an announced knife round wrote stays
\* in the result, stamped with round 1, when MatchStart resets the count.
KnifeRoundIsForgotten ==
    stage = "match" => \A r \in rows \cup engagements : r.round # 0 => r.real # 0
=============================================================================
