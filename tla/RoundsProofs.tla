----------------------------- MODULE RoundsProofs -----------------------------
(***************************************************************************)
(* Proofs about Rounds, for any players, freeze delay and length of the     *)
(* recording: table, sides, windows and rows are those of the scoreboard.   *)
(***************************************************************************)
EXTENDS Rounds, SequenceTheorems, TLAPS

Indices == 1 .. Len(roundTicks)
Last    == roundTicks[Len(roundTicks)]
LastWon == board[Len(board)].won

\* What is counted, and that nothing of it is ahead of the recording.
Counts ==
    /\ currentRound = Len(roundTicks)
    /\ Len(roundTicks) <= played
    /\ Len(board) <= played
    /\ stage = "warmup" => ~ matchStarted
    /\ ~ matchStarted => roundTicks = <<>> /\ ~ liveRound /\ stage # "match"
    /\ stage = "match" => Len(board) = Len(roundTicks) /\ playerStartSides = opened
    /\ stage # "match" => board = <<>>
    /\ maxTick <= tick
    /\ lastRoundEndTick <= tick

\* The rows of the table, each by itself.
EachWindow ==
    \A i \in Indices :
      /\ roundTicks[i].round = i
      /\ roundTicks[i].start <= tick
      /\ roundTicks[i].freezeEnd <= tick
      /\ roundTicks[i].end <= tick
      /\ roundTicks[i].freezeEnd # 0 => roundTicks[i].start <= roundTicks[i].freezeEnd
      /\ roundTicks[i].end # 0 /\ roundTicks[i].winner # None =>
           /\ roundTicks[i].start <= roundTicks[i].end
           /\ roundTicks[i].freezeEnd <= roundTicks[i].end

\* One row after the other: all but the last are closed, none after a later starts.
Succession ==
    \A i, j \in Indices : i < j =>
      /\ roundTicks[i].start <= roundTicks[j].start
      /\ roundTicks[i].end # 0
      /\ roundTicks[i].end <= roundTicks[j].start

\* The table and the scoreboard, row by row.
Scores ==
    stage = "match" => \A i \in Indices :
      /\ roundTicks[i].winner = board[i].winner
      /\ board[i].won # 0 =>
           /\ roundTicks[i].start <= board[i].won
           /\ roundTicks[i].end # 0 => board[i].won <= roundTicks[i].end

\* While the parse runs, the last row is as far as the round is.
LastRow ==
    ~ done =>
      /\ matchStarted /\ phase # "idle" => roundTicks # <<>>
      /\ roundTicks # <<>> =>
          /\ phase = "idle"   => Last.end # 0 /\ ~ liveRound
          /\ phase = "freeze" =>
               /\ Last.end = 0 /\ Last.freezeEnd = 0 /\ Last.winner = None /\ ~ liveRound
               /\ stage = "match" => LastWon = 0
          /\ phase = "play" =>
               /\ Last.end = 0 /\ Last.freezeEnd # 0 /\ Last.winner = None
               /\ stage = "match" => LastWon = 0
          /\ phase = "over" =>
               /\ Last.end = 0 /\ Last.freezeEnd # 0
               /\ lastRoundEndTick # 0
               /\ Last.start <= lastRoundEndTick
               /\ Last.freezeEnd <= lastRoundEndTick
               /\ stage = "match" => LastWon = lastRoundEndTick

\* A row of the match is of a round of the table, and of no later one.
Stamped(r) ==
    r.real # 0 =>
      /\ stage = "match"
      /\ r.round = r.real
      /\ r.real \in Indices
      /\ roundTicks[r.real].start <= r.tick
      /\ \A j \in Indices : r.real < j => r.tick < roundTicks[j].start

Stamps == \A r \in rows \cup engagements : r.tick <= tick /\ Stamped(r)

IInv ==
    /\ TypeOK
    /\ Counts
    /\ EachWindow
    /\ Succession
    /\ Scores
    /\ LastRow
    /\ Stamps
    /\ FinalRoundIsTight
-----------------------------------------------------------------------------
(* The table as a sequence.                                                  *)

\* What the fields of a row of the table can be.
LEMMA RowIs ==
    ASSUME TypeOK, NEW i \in Indices
    PROVE  /\ roundTicks[i] \in RoundTick
           /\ i \in Nat /\ Len(roundTicks) \in Nat
           /\ roundTicks[i].round \in 1 .. MaxRounds
           /\ roundTicks[i].start \in 1 .. MaxTick
           /\ roundTicks[i].freezeEnd \in 0 .. MaxTick
           /\ roundTicks[i].end \in 0 .. MaxTick
           /\ roundTicks[i].winner \in Sides \cup {None}
<1>1. roundTicks \in Seq(RoundTick)
  BY DEF TypeOK
<1>2. roundTicks[i] \in RoundTick
  BY <1>1, ElementOfSeq DEF Indices
<1>3. Len(roundTicks) \in Nat
  BY <1>1
<1> QED
  BY <1>2, <1>3 DEF RoundTick, Indices

\* A table with a row has a last one.
LEMMA LastIs ==
    ASSUME TypeOK, roundTicks # <<>>
    PROVE  Len(roundTicks) \in Indices
<1>1. Len(roundTicks) \in Nat \ {0}
  BY EmptySeq DEF TypeOK
<1> QED
  BY <1>1 DEF Indices

\* An empty table has none.
LEMMA EmptyIs ==
    ASSUME TypeOK
    PROVE  roundTicks = <<>> <=> Indices = {}
<1>1. roundTicks = <<>> => Indices = {}
  BY EmptySeq DEF Indices
<1> QED
  BY <1>1, LastIs

\* Only the last row is another.
LEMMA LastChanged ==
    ASSUME TypeOK, roundTicks # <<>>, NEW e \in RoundTick,
           roundTicks' = [roundTicks EXCEPT ![Len(roundTicks)] = e]
    PROVE  /\ roundTicks' \in Seq(RoundTick)
           /\ Len(roundTicks') = Len(roundTicks)
           /\ Indices' = Indices
           /\ roundTicks' # <<>>
           /\ Last' = e
           /\ \A i \in Indices : i # Len(roundTicks) => roundTicks'[i] = roundTicks[i]
<1>1. Len(roundTicks) \in Indices
  BY LastIs
<1>2. roundTicks \in Seq(RoundTick)
  BY DEF TypeOK
<1>3. /\ roundTicks' \in Seq(RoundTick)
      /\ Len(roundTicks') = Len(roundTicks)
      /\ \A j \in Indices :
           roundTicks'[j] = IF j = Len(roundTicks) THEN e ELSE roundTicks[j]
  BY <1>1, <1>2, ExceptSeq DEF Indices
<1>4. Indices' = Indices
  BY <1>3 DEF Indices
<1>5. roundTicks' # <<>>
  BY <1>1, <1>3, EmptySeq DEF Indices
<1> QED
  BY <1>1, <1>3, <1>4, <1>5 DEF Last

\* A row is added below the others.
LEMMA RowAdded ==
    ASSUME TypeOK, NEW e \in RoundTick, roundTicks' = Append(roundTicks, e)
    PROVE  /\ roundTicks' \in Seq(RoundTick)
           /\ Len(roundTicks) \in Nat
           /\ Len(roundTicks') = Len(roundTicks) + 1
           /\ Indices' = Indices \cup {Len(roundTicks) + 1}
           /\ roundTicks' # <<>>
           /\ Last' = e
           /\ \A i \in Indices : roundTicks'[i] = roundTicks[i]
<1>1. roundTicks \in Seq(RoundTick) /\ Len(roundTicks) \in Nat
  BY DEF TypeOK
<1>2. /\ roundTicks' \in Seq(RoundTick)
      /\ Len(roundTicks') = Len(roundTicks) + 1
      /\ \A i \in Indices : roundTicks'[i] = roundTicks[i]
      /\ roundTicks'[Len(roundTicks) + 1] = e
  BY <1>1, AppendProperties DEF Indices
<1>3. Indices' = Indices \cup {Len(roundTicks) + 1}
  BY <1>1, <1>2 DEF Indices
<1>4. roundTicks' # <<>>
  BY <1>1, <1>2, EmptySeq
<1> QED
  BY <1>1, <1>2, <1>3, <1>4 DEF Last

-----------------------------------------------------------------------------
(* The stamped rows.                                                         *)

\* What a handler stamps now is of the last round of the table.
LEMMA RowNowStamped ==
    ASSUME IInv
    PROVE  /\ RowNow \in Row
           /\ RowNow.tick <= tick
           /\ Stamped(RowNow)
<1>1. /\ RowNow.round = currentRound
      /\ RowNow.tick = tick
      /\ RowNow.real = IF stage = "match" THEN Len(board) ELSE 0
  BY DEF RowNow
<1>2. RowNow \in Row
  BY RoundsAssumption DEF RowNow, Row, IInv, TypeOK, Counts
<1>3. ASSUME RowNow.real # 0 PROVE Stamped(RowNow)
  <2>1. /\ stage = "match"
        /\ RowNow.real = Len(roundTicks)
        /\ RowNow.round = Len(roundTicks)
    BY <1>1, <1>3 DEF IInv, Counts
  <2>2. Len(roundTicks) \in Indices
    BY <1>3, <2>1 DEF IInv, TypeOK, Indices
  <2>3. roundTicks[Len(roundTicks)].start <= tick
    BY <2>2 DEF IInv, EachWindow
  <2>4. \A j \in Indices : ~ (Len(roundTicks) < j)
    BY <2>2 DEF Indices
  <2> QED
    BY <1>1, <2>1, <2>2, <2>3, <2>4 DEF Stamped
<1> QED
  BY <1>1, <1>2, <1>3 DEF Stamped, IInv, TypeOK

\* The stamps are kept by a step that leaves the rounds where they start and
\* adds no row but one of now.
LEMMA StampsKept ==
    ASSUME IInv, tick <= tick', tick' \in Nat, stage = "match" => stage' = "match",
           Indices' = Indices, \A i \in Indices : roundTicks'[i].start = roundTicks[i].start,
           rows' \cup engagements' \subseteq rows \cup engagements \cup {RowNow}
    PROVE  Stamps'
<1> SUFFICES ASSUME NEW r \in rows' \cup engagements'
             PROVE  r.tick <= tick' /\ Stamped(r)'
  BY DEF Stamps
<1>1. r \in Row /\ r.tick <= tick /\ Stamped(r)
  BY RowNowStamped DEF IInv, Stamps, TypeOK
<1>2. r.tick <= tick'
  BY <1>1 DEF Row, IInv, TypeOK
<1>3. Stamped(r)'
  BY <1>1 DEF Stamped
<1> QED
  BY <1>2, <1>3

-----------------------------------------------------------------------------
(* The invariant.                                                            *)

LEMMA IInvInit == Init => IInv
<1> SUFFICES ASSUME Init PROVE IInv
  OBVIOUS
<1>1. TypeOK
  <2>1. NoSides \in [Players -> Sides \cup {None}]
    BY DEF NoSides
  <2>2. MaxTick \in Nat \ {0} /\ MaxRounds \in Nat \ {0}
    BY RoundsAssumption
  <2>3. board \in Seq([won : 0 .. MaxTick, winner : Sides \cup {None}])
    BY EmptySeq DEF Init
  <2>4. roundTicks \in Seq(RoundTick)
    BY EmptySeq DEF Init
  <2>5. engagements \in SUBSET Row /\ rows \in SUBSET Row
    BY DEF Init
  <2>6. /\ tick \in 1 .. MaxTick /\ played \in 0 .. MaxRounds
        /\ currentRound \in 0 .. MaxRounds
        /\ maxTick \in 0 .. MaxTick /\ lastRoundEndTick \in 0 .. MaxTick
    BY <2>2 DEF Init
  <2> QED
    BY <2>1, <2>3, <2>4, <2>5, <2>6 DEF Init, TypeOK
<1>2. Indices = {} /\ Len(roundTicks) = 0 /\ Len(board) = 0
  BY DEF Init, Indices
<1> QED
  BY <1>1, <1>2 DEF Init, IInv, Counts, EachWindow, Succession, Scores, LastRow, Stamps,
     FinalRoundIsTight

\* The recording moves on, and nothing but its tick.
LEMMA TickKeeps == IInv /\ Tick => IInv'
<1> SUFFICES ASSUME IInv, Tick PROVE IInv'
  OBVIOUS
<1>1. TypeOK'
  BY RoundsAssumption DEF IInv, TypeOK, Tick, parser
<1>2. /\ UNCHANGED <<stage, phase, team, played, board, opened, parser>>
      /\ ~ done /\ tick \in Nat /\ tick' = tick + 1
  BY DEF IInv, TypeOK, Tick
<1>3. Counts'
  BY <1>2 DEF IInv, TypeOK, Counts, parser
<1>4. EachWindow'
  BY <1>2, RowIs DEF IInv, EachWindow, Indices, parser
<1>5. Succession' /\ Scores' /\ LastRow'
  BY <1>2 DEF IInv, Succession, Scores, LastRow, Last, LastWon, Indices, parser
<1>6. Stamps'
  BY <1>2, StampsKept DEF Indices, parser
<1>7. FinalRoundIsTight'
  BY <1>2 DEF FinalRoundIsTight, parser
<1> QED
  BY <1>1, <1>3, <1>4, <1>5, <1>6, <1>7 DEF IInv

\* Sides are taken and swapped without a word to the parser.
LEMMA TeamKeeps ==
    IInv /\ (SwapSides \/ \E p \in Players : Join(p)) => IInv'
<1> SUFFICES ASSUME IInv, SwapSides \/ \E p \in Players : Join(p) PROVE IInv'
  OBVIOUS
<1>1. /\ UNCHANGED <<tick, stage, phase, played, board, opened, parser>>
      /\ ~ done
  BY DEF SwapSides, Join
<1>2. team' \in [Players -> Sides \cup {None}]
  BY DEF SwapSides, Join, IInv, TypeOK, Sides, None
<1>3. TypeOK'
  BY <1>1, <1>2 DEF IInv, TypeOK, parser
<1>4. Counts' /\ EachWindow' /\ Succession' /\ Scores' /\ LastRow' /\ FinalRoundIsTight'
  BY <1>1 DEF IInv, Counts, EachWindow, Succession, Scores, LastRow, Last, LastWon, Indices,
     FinalRoundIsTight, parser
<1>5. Stamps'
  BY <1>1 DEF IInv, Stamps, Stamped, Indices, parser
<1> QED
  BY <1>3, <1>4, <1>5 DEF IInv

\* A knife round nobody announced: nothing is counted yet.
LEMMA KnifeKeeps == IInv /\ KnifeUnannounced => IInv'
<1> SUFFICES ASSUME IInv, KnifeUnannounced PROVE IInv'
  OBVIOUS
<1>1. /\ UNCHANGED <<tick, team, played, board, opened, parser>>
      /\ ~ done /\ stage = "warmup" /\ stage' = "knife" /\ phase' = "idle"
  BY DEF KnifeUnannounced
<1>2. TypeOK'
  BY <1>1 DEF IInv, TypeOK, parser
<1>3. ~ matchStarted /\ roundTicks = <<>> /\ ~ liveRound
  BY <1>1 DEF IInv, Counts
<1>4. Counts' /\ EachWindow' /\ Succession' /\ Scores'
  BY <1>1, <1>3 DEF IInv, Counts, EachWindow, Succession, Scores, Indices, parser
<1>5. LastRow' /\ FinalRoundIsTight'
  BY <1>1, <1>3 DEF LastRow, FinalRoundIsTight, parser
<1>6. Stamps'
  BY <1>1 DEF IInv, Stamps, Stamped, Indices, parser
<1> QED
  BY <1>2, <1>4, <1>5, <1>6 DEF IInv

\* The match, or an announced knife round, begins with an empty table; no row
\* is of the match before it.
LEMMA MatchStartKeeps == IInv /\ MatchStart => IInv'
<1> SUFFICES ASSUME IInv, MatchStart PROVE IInv'
  OBVIOUS
<1>1. /\ UNCHANGED <<tick, team, played, maxTick, lastRoundEndTick, liveRound,
                     engagements, rows, done>>
      /\ ~ done /\ phase' = "idle" /\ matchStarted' = TRUE
      /\ currentRound' = 0 /\ roundTicks' = <<>> /\ playerStartSides' = NoSides
      /\ stage # "match"
      /\ stage' \in {"knife", "match"}
      /\ stage' = "match" => board' = <<>> /\ opened' = NoSides
      /\ stage' # "match" => UNCHANGED <<board, opened>>
  BY DEF MatchStart, Forget
<1>2. board' = <<>>
  BY <1>1 DEF IInv, Counts
<1>3. Len(roundTicks') = 0 /\ Len(board') = 0 /\ Indices' = {}
  BY <1>1, <1>2 DEF Indices
<1>4. NoSides \in [Players -> Sides \cup {None}]
  BY DEF NoSides
<1>5. TypeOK'
  BY <1>1, <1>2, <1>4, RoundsAssumption, EmptySeq DEF IInv, TypeOK
<1>6. Counts'
  BY <1>1, <1>2, <1>3 DEF IInv, TypeOK, Counts
<1>7. EachWindow' /\ Succession' /\ Scores' /\ LastRow' /\ FinalRoundIsTight'
  BY <1>1, <1>3 DEF EachWindow, Succession, Scores, LastRow, FinalRoundIsTight
<1>8. Stamps'
  BY <1>1 DEF IInv, Stamps, Stamped
<1> QED
  BY <1>5, <1>6, <1>7, <1>8 DEF IInv

\* A round starts: the last window is closed, and every row is of before now.
LEMMA RoundStartKeeps == IInv /\ RoundStart => IInv'
<1> SUFFICES ASSUME IInv, RoundStart PROVE IInv'
  OBVIOUS
<1>1. /\ UNCHANGED <<tick, stage, team, matchStarted, lastRoundEndTick, done>>
      /\ ~ done /\ phase = "idle" /\ phase' = "freeze"
      /\ played < MaxRounds /\ played' = played + 1
      /\ \A r \in rows \cup engagements : r.tick < tick
      /\ maxTick' = CaptureMaxTick
      /\ stage = "match" => /\ board' = Append(board, [won |-> 0, winner |-> None])
                            /\ opened' = Recorded(opened)
      /\ stage # "match" => UNCHANGED <<board, opened>>
  BY DEF RoundStart
<1>2. CaptureMaxTick = tick
  BY DEF CaptureMaxTick, IInv, TypeOK, Counts
<1>3. /\ board' \in Seq([won : 0 .. MaxTick, winner : Sides \cup {None}])
      /\ stage = "match" => /\ Len(board') = Len(board) + 1
                            /\ \A i \in 1 .. Len(board) : board'[i] = board[i]
                            /\ LastWon' = 0
                            /\ board'[Len(board')].winner = None
  <2> DEFINE B == [won : 0 .. MaxTick, winner : Sides \cup {None}]
             b == [won |-> 0, winner |-> None]
  <2>1. b \in B /\ board \in Seq(B)
    BY RoundsAssumption DEF IInv, TypeOK
  <2>2. CASE stage = "match"
    <3>1. board' = Append(board, b)
      BY <1>1, <2>2
    <3> HIDE DEF B, b
    <3>2. /\ board' \in Seq(B)
          /\ Len(board') = Len(board) + 1
          /\ \A i \in 1 .. Len(board) : board'[i] = board[i]
          /\ board'[Len(board) + 1] = b
      BY <2>1, <3>1, AppendProperties
    <3> USE DEF B, b
    <3> QED
      BY <3>2 DEF LastWon
  <2>3. CASE stage # "match"
    BY <1>1, <2>1, <2>3
  <2> QED
    BY <2>2, <2>3
<1>4. \A f \in [Players -> Sides \cup {None}] : Recorded(f) \in [Players -> Sides \cup {None}]
  BY DEF Recorded, IInv, TypeOK
<1>5. opened' \in [Players -> Sides \cup {None}]
  BY <1>1, <1>4 DEF IInv, TypeOK
<1>6. CASE ~ matchStarted
  <2>1. /\ UNCHANGED <<currentRound, liveRound, roundTicks, playerStartSides,
                       engagements, rows>>
        /\ roundTicks = <<>> /\ stage # "match" /\ ~ liveRound
    BY <1>6 DEF RoundStart, IInv, Counts
  <2>2. TypeOK'
    <3>1. played' \in 0 .. MaxRounds /\ maxTick' \in 0 .. MaxTick
      BY <1>1, <1>2, RoundsAssumption DEF IInv, TypeOK
    <3>2. phase' \in {"idle", "freeze", "play", "over"}
      BY <1>1
    <3> QED
      BY <1>1, <1>3, <1>5, <2>1, <3>1, <3>2 DEF IInv, TypeOK
  <2>3. Counts'
    BY <1>1, <1>2, <2>1 DEF IInv, TypeOK, Counts
  <2>4. EachWindow' /\ Succession' /\ Scores' /\ LastRow' /\ FinalRoundIsTight'
    BY <1>1, <1>6, <2>1
    DEF IInv, EachWindow, Succession, Scores, LastRow, Indices, FinalRoundIsTight
  <2>5. Stamps'
    BY <1>1, <2>1 DEF IInv, Stamps, Stamped, Indices
  <2> QED
    BY <2>2, <2>3, <2>4, <2>5 DEF IInv
<1>7. CASE matchStarted
  <2> DEFINE e == [round |-> currentRound', start |-> tick, freezeEnd |-> 0, end |-> 0,
                   winner |-> None]
             n == Len(roundTicks)
  <2>1. /\ playerStartSides' = Recorded(playerStartSides)
        /\ currentRound' = n + 1
        /\ liveRound' = FALSE
        /\ rows' = rows \cup engagements /\ engagements' = {}
        /\ roundTicks' = Append(roundTicks, e)
    BY <1>7 DEF RoundStart, CloseAllEngagements, IInv, Counts
  <2>2. n \in Nat /\ n + 1 \in 1 .. MaxRounds
    BY <1>1, RoundsAssumption DEF IInv, TypeOK, Counts
  <2>3. e \in RoundTick
    BY <2>1, <2>2, RoundsAssumption DEF RoundTick, IInv, TypeOK
  <2>4. /\ roundTicks' \in Seq(RoundTick)
        /\ Len(roundTicks') = n + 1
        /\ Indices' = Indices \cup {n + 1}
        /\ roundTicks' # <<>>
        /\ Last' = e
        /\ roundTicks'[n + 1] = e
        /\ \A i \in Indices : roundTicks'[i] = roundTicks[i]
    <3>1. TypeOK
      BY DEF IInv
    <3> HIDE DEF e
    <3>2. /\ roundTicks' \in Seq(RoundTick)
          /\ Len(roundTicks') = n + 1
          /\ Indices' = Indices \cup {n + 1}
          /\ roundTicks' # <<>>
          /\ Last' = e
          /\ \A i \in Indices : roundTicks'[i] = roundTicks[i]
      BY <2>1, <2>3, <3>1, RowAdded
    <3> QED
      BY <3>2 DEF Last
  <2>5. /\ e.round = n + 1 /\ e.start = tick /\ e.freezeEnd = 0 /\ e.end = 0
        /\ e.winner = None
    BY <2>1
  <2>6. \A i \in Indices : i \in 1 .. n
    BY DEF Indices
  <2>7. ASSUME NEW i \in Indices
        PROVE  roundTicks[i].end # 0 /\ roundTicks[i].end <= tick /\ roundTicks[i].start <= tick
    <3>1. i < n \/ i = n
      BY <2>2, <2>6
    <3>2. n \in Indices /\ roundTicks # <<>>
      BY <2>2, <2>6, EmptySeq DEF Indices
    <3>3. roundTicks[n].end # 0
      BY <1>1, <3>2 DEF IInv, LastRow, Last
    <3>4. roundTicks[i].end # 0
      BY <3>1, <3>2, <3>3 DEF IInv, Succession
    <3> QED
      BY <3>4 DEF IInv, EachWindow
  <2>8. TypeOK'
    <3>1. /\ played' \in 0 .. MaxRounds /\ maxTick' \in 0 .. MaxTick
          /\ currentRound' \in 0 .. MaxRounds
      BY <1>1, <1>2, <2>1, <2>2, RoundsAssumption DEF IInv, TypeOK
    <3>2. phase' \in {"idle", "freeze", "play", "over"}
      BY <1>1
    <3>3. playerStartSides' \in [Players -> Sides \cup {None}]
      BY <1>4, <2>1 DEF IInv, TypeOK
    <3>4. rows' \in SUBSET Row /\ engagements' \in SUBSET Row
      BY <2>1 DEF IInv, TypeOK
    <3> HIDE DEF e
    <3> QED
      BY <1>1, <1>3, <1>5, <2>1, <2>4, <3>1, <3>2, <3>3, <3>4 DEF IInv, TypeOK
  <2>9. Counts'
    <3>1. n + 1 <= played' /\ Len(board') <= played'
      BY <1>1, <1>3, <2>2 DEF IInv, TypeOK, Counts
    <3>2. stage = "match" => Len(board') = n + 1 /\ playerStartSides' = opened'
      BY <1>1, <1>3, <2>1 DEF IInv, Counts
    <3> QED
      BY <1>1, <1>2, <1>7, <2>1, <2>4, <3>1, <3>2 DEF IInv, TypeOK, Counts
  <2>10. EachWindow'
    <3>1. ASSUME NEW i \in Indices
          PROVE  /\ roundTicks'[i] = roundTicks[i] /\ tick' = tick
                 /\ roundTicks[i].round = i
                 /\ roundTicks[i].start <= tick
                 /\ roundTicks[i].freezeEnd <= tick
                 /\ roundTicks[i].end <= tick
                 /\ roundTicks[i].freezeEnd # 0 => roundTicks[i].start <= roundTicks[i].freezeEnd
                 /\ roundTicks[i].end # 0 /\ roundTicks[i].winner # None =>
                      /\ roundTicks[i].start <= roundTicks[i].end
                      /\ roundTicks[i].freezeEnd <= roundTicks[i].end
      BY <1>1, <2>4 DEF IInv, EachWindow
    <3>2. \A i \in Indices' : i \in Indices \/ i = n + 1
      BY <2>4
    <3>3. /\ roundTicks'[n + 1].round = n + 1 /\ roundTicks'[n + 1].start = tick
          /\ roundTicks'[n + 1].freezeEnd = 0 /\ roundTicks'[n + 1].end = 0
      BY <2>4, <2>5
    <3>4. tick \in Nat
      BY DEF IInv, TypeOK
    <3> HIDE DEF n, e
    <3> QED
      BY <3>1, <3>2, <3>3, <3>4, <1>1 DEF EachWindow
  <2>11. Succession'
    <3> SUFFICES ASSUME NEW i \in Indices', NEW j \in Indices', i < j
                 PROVE  /\ roundTicks'[i].start <= roundTicks'[j].start
                        /\ roundTicks'[i].end # 0
                        /\ roundTicks'[i].end <= roundTicks'[j].start
      BY DEF Succession
    <3>1. i \in Indices
      BY <2>2, <2>4, <2>6
    <3>2. CASE j \in Indices
      BY <2>4, <3>1, <3>2 DEF IInv, Succession
    <3>3. CASE j = n + 1
      BY <2>4, <2>5, <2>7, <3>1, <3>3
    <3> QED
      BY <2>4, <3>2, <3>3
  <2>12. Scores'
    <3> SUFFICES ASSUME stage = "match", NEW i \in Indices'
                 PROVE  /\ roundTicks'[i].winner = board'[i].winner
                        /\ board'[i].won # 0 =>
                             /\ roundTicks'[i].start <= board'[i].won
                             /\ roundTicks'[i].end # 0 => board'[i].won <= roundTicks'[i].end
      BY <1>1 DEF Scores
    <3>1. Len(board) = n
      BY DEF IInv, Counts
    <3>2. CASE i \in Indices
      BY <1>3, <2>4, <2>6, <3>1, <3>2 DEF IInv, Scores
    <3>3. CASE i = n + 1
      <4>1. board'[i].won = 0 /\ board'[i].winner = None
        BY <1>3, <3>1, <3>3 DEF LastWon
      <4> QED
        BY <2>4, <2>5, <3>3, <4>1
    <3> QED
      BY <2>4, <3>2, <3>3
  <2>13. LastRow'
    BY <1>1, <1>3, <2>1, <2>4, <2>5 DEF LastRow
  <2>14. Stamps'
    <3> SUFFICES ASSUME NEW r \in rows \cup engagements
                 PROVE  r.tick <= tick' /\ Stamped(r)'
      BY <2>1 DEF Stamps
    <3>1. r.tick < tick /\ r.tick <= tick /\ Stamped(r)
      BY <1>1 DEF IInv, Stamps
    <3>2. Stamped(r)'
      BY <1>1, <2>4, <2>5, <3>1 DEF Stamped
    <3> QED
      BY <1>1, <3>1, <3>2
  <2>15. FinalRoundIsTight'
    BY <1>1 DEF FinalRoundIsTight
  <2> QED
    BY <2>8, <2>9, <2>10, <2>11, <2>12, <2>13, <2>14, <2>15 DEF IInv
<1> QED
  BY <1>6, <1>7

\* What is left to show of a step that changes only the last row, and not where
\* it starts.
LEMMA LastRowChanged ==
    ASSUME IInv, roundTicks # <<>>, NEW e \in RoundTick, tick' = tick,
           roundTicks' = [roundTicks EXCEPT ![Len(roundTicks)] = e],
           e.round = Last.round, e.start = Last.start,
           e.freezeEnd <= tick, e.end <= tick,
           e.freezeEnd # 0 => e.start <= e.freezeEnd,
           e.end # 0 /\ e.winner # None => e.start <= e.end /\ e.freezeEnd <= e.end
    PROVE  /\ EachWindow' /\ Succession'
           /\ \A i \in Indices : roundTicks'[i].start = roundTicks[i].start
<1> DEFINE n == Len(roundTicks)
<1>1. /\ Indices' = Indices
      /\ Len(roundTicks') = n
      /\ roundTicks'[n] = e
      /\ \A i \in Indices : i # n => roundTicks'[i] = roundTicks[i]
  BY LastChanged DEF IInv, Last
<1>2. n \in Indices /\ n \in Nat /\ \A i \in Indices : i \in 1 .. n
  BY LastIs DEF IInv, TypeOK, Indices
<1>3. Last = roundTicks[n]
  BY DEF Last
<1>4. \A i \in Indices : roundTicks'[i].start = roundTicks[i].start
  BY <1>1, <1>3
<1>5. EachWindow'
  <2> SUFFICES ASSUME NEW i \in Indices
               PROVE  /\ roundTicks'[i].round = i
                      /\ roundTicks'[i].start <= tick
                      /\ roundTicks'[i].freezeEnd <= tick
                      /\ roundTicks'[i].end <= tick
                      /\ roundTicks'[i].freezeEnd # 0 =>
                           roundTicks'[i].start <= roundTicks'[i].freezeEnd
                      /\ roundTicks'[i].end # 0 /\ roundTicks'[i].winner # None =>
                           /\ roundTicks'[i].start <= roundTicks'[i].end
                           /\ roundTicks'[i].freezeEnd <= roundTicks'[i].end
    BY <1>1 DEF EachWindow
  <2>1. CASE i = n
    BY <1>1, <1>2, <1>3, <2>1 DEF IInv, EachWindow
  <2>2. CASE i # n
    BY <1>1, <2>2 DEF IInv, EachWindow
  <2> QED
    BY <2>1, <2>2
<1>6. Succession'
  <2> SUFFICES ASSUME NEW i \in Indices, NEW j \in Indices, i < j
               PROVE  /\ roundTicks'[i].start <= roundTicks'[j].start
                      /\ roundTicks'[i].end # 0
                      /\ roundTicks'[i].end <= roundTicks'[j].start
    BY <1>1 DEF Succession
  <2>1. i # n
    BY <1>2
  <2> QED
    BY <1>1, <1>4, <2>1 DEF IInv, Succession
<1> QED
  BY <1>4, <1>5, <1>6

\* The scores are kept when nobody wins and the last window agrees with its win.
LEMMA ScoresKept ==
    ASSUME IInv, roundTicks # <<>>, NEW e \in RoundTick,
           roundTicks' = [roundTicks EXCEPT ![Len(roundTicks)] = e],
           stage' = stage, board' = board, e.start = Last.start, e.winner = Last.winner,
           stage = "match" /\ LastWon # 0 /\ e.end # 0 => LastWon <= e.end
    PROVE  Scores'
<1> DEFINE n == Len(roundTicks)
<1>1. /\ Indices' = Indices /\ n \in Indices
      /\ roundTicks'[n] = e
      /\ \A i \in Indices : i # n => roundTicks'[i] = roundTicks[i]
  BY LastChanged, LastIs DEF IInv, Last
<1> SUFFICES ASSUME stage = "match", NEW i \in Indices
             PROVE  /\ roundTicks'[i].winner = board[i].winner
                    /\ board[i].won # 0 =>
                         /\ roundTicks'[i].start <= board[i].won
                         /\ roundTicks'[i].end # 0 => board[i].won <= roundTicks'[i].end
  BY <1>1 DEF Scores
<1>2. CASE i = n
  <2>1. LastWon = board[n].won
    BY DEF IInv, Counts, LastWon
  <2> QED
    BY <1>1, <1>2, <2>1 DEF IInv, Scores, Last
<1>3. CASE i # n
  BY <1>1, <1>3 DEF IInv, Scores
<1> QED
  BY <1>2, <1>3

\* The freeze time ends: the last window opens.
LEMMA FreezetimeEndKeeps == IInv /\ RoundFreezetimeEnd => IInv'
<1> SUFFICES ASSUME IInv, RoundFreezetimeEnd PROVE IInv'
  OBVIOUS
<1>1. /\ UNCHANGED <<tick, stage, team, played, board, opened, matchStarted, currentRound,
                     maxTick, lastRoundEndTick, playerStartSides, engagements, done>>
      /\ ~ done /\ phase = "freeze" /\ phase' = "play"
  BY DEF RoundFreezetimeEnd
<1>2. rows' \in SUBSET (rows \cup {RowNow})
  BY DEF RoundFreezetimeEnd
<1>3. RowNow \in Row
  BY RowNowStamped
<1>4. FinalRoundIsTight'
  BY <1>1 DEF FinalRoundIsTight
<1>5. tick \in Nat /\ tick # 0 /\ tick \in 0 .. MaxTick
  BY RoundsAssumption DEF IInv, TypeOK
<1>6. CASE ~ matchStarted
  <2>1. /\ UNCHANGED <<liveRound, roundTicks, rows>>
        /\ roundTicks = <<>> /\ stage # "match" /\ ~ liveRound
    BY <1>6 DEF RoundFreezetimeEnd, IInv, Counts
  <2>2. TypeOK'
    BY <1>1, <2>1 DEF IInv, TypeOK
  <2>3. Counts' /\ EachWindow' /\ Succession' /\ Scores'
    BY <1>1, <2>1 DEF IInv, Counts, EachWindow, Succession, Scores, Indices
  <2>4. LastRow'
    BY <1>1, <1>6, <2>1 DEF LastRow
  <2>5. Stamps'
    BY <1>1, <2>1 DEF IInv, Stamps, Stamped, Indices
  <2> QED
    BY <1>4, <2>2, <2>3, <2>4, <2>5 DEF IInv
<1>7. CASE matchStarted
  <2> DEFINE e == [Last EXCEPT !.freezeEnd = tick]
  <2>1. roundTicks # <<>>
    BY <1>1, <1>7 DEF IInv, LastRow
  <2>2. /\ liveRound' = TRUE
        /\ roundTicks' = [roundTicks EXCEPT ![Len(roundTicks)] = e]
    BY <1>7, <2>1 DEF RoundFreezetimeEnd, Last
  <2>3. /\ Last \in RoundTick
        /\ Last.end = 0 /\ Last.winner = None /\ Last.start <= tick
        /\ stage = "match" => LastWon = 0
    BY <1>1, <2>1, LastIs, RowIs DEF IInv, EachWindow, LastRow, Last
  <2>4. /\ e \in RoundTick /\ e.freezeEnd = tick
        /\ e.round = Last.round /\ e.start = Last.start /\ e.end = 0 /\ e.winner = None
    BY <1>5, <2>3 DEF RoundTick
  <2> HIDE DEF e
  <2>5. /\ EachWindow' /\ Succession' /\ Scores'
        /\ \A i \in Indices : roundTicks'[i].start = roundTicks[i].start
    <3>1. /\ e.freezeEnd <= tick /\ e.end <= tick
          /\ e.start <= e.freezeEnd
      BY <1>5, <2>3, <2>4
    <3>2. Scores'
      BY <1>1, <2>1, <2>2, <2>4, <2>3, ScoresKept
    <3> QED
      BY <1>1, <2>1, <2>2, <2>4, <3>1, <3>2, LastRowChanged
  <2>6. /\ roundTicks' \in Seq(RoundTick) /\ Len(roundTicks') = Len(roundTicks)
        /\ Indices' = Indices /\ roundTicks' # <<>> /\ Last' = e
    BY <2>1, <2>2, <2>4, LastChanged DEF IInv
  <2>7. TypeOK'
    BY <1>1, <1>2, <1>3, <2>2, <2>6 DEF IInv, TypeOK
  <2>8. Counts'
    BY <1>1, <1>7, <2>6 DEF IInv, Counts
  <2>9. LastRow'
    BY <1>1, <1>5, <2>3, <2>4, <2>6 DEF LastRow, LastWon
  <2>10. Stamps'
    BY <1>1, <1>2, <1>5, <2>5, <2>6, StampsKept
  <2> QED
    BY <1>4, <2>5, <2>7, <2>8, <2>9, <2>10 DEF IInv
<1> QED
  BY <1>6, <1>7

\* The round is won, by the same side in the table and on the scoreboard.
LEMMA RoundEndKeeps == IInv /\ RoundEnd => IInv'
<1> SUFFICES ASSUME IInv, RoundEnd PROVE IInv'
  OBVIOUS
<1>1. /\ UNCHANGED <<tick, stage, team, played, opened, matchStarted, currentRound, maxTick,
                     liveRound, playerStartSides, engagements, rows, done>>
      /\ ~ done /\ phase = "play" /\ phase' = "over"
  BY DEF RoundEnd
<1>2. FinalRoundIsTight'
  BY <1>1 DEF FinalRoundIsTight
<1>3. tick \in Nat /\ tick # 0 /\ tick \in 0 .. MaxTick
  BY RoundsAssumption DEF IInv, TypeOK
<1>4. CASE ~ matchStarted
  <2>1. /\ UNCHANGED <<board, lastRoundEndTick, roundTicks>>
        /\ roundTicks = <<>> /\ stage # "match"
    BY <1>4 DEF RoundEnd, IInv, Counts
  <2>2. TypeOK'
    BY <1>1, <2>1 DEF IInv, TypeOK
  <2>3. Counts' /\ EachWindow' /\ Succession' /\ Scores'
    BY <1>1, <2>1 DEF IInv, Counts, EachWindow, Succession, Scores, Indices
  <2>4. LastRow'
    BY <1>1, <1>4, <2>1 DEF LastRow
  <2>5. Stamps'
    BY <1>1, <2>1 DEF IInv, Stamps, Stamped, Indices
  <2> QED
    BY <1>2, <2>2, <2>3, <2>4, <2>5 DEF IInv
<1>5. CASE matchStarted
  <2> DEFINE n == Len(roundTicks)
  <2>1. roundTicks # <<>>
    BY <1>1, <1>5 DEF IInv, LastRow
  <2>2. PICK w \in Sides :
           /\ board' = IF stage # "match" THEN board
                       ELSE [board EXCEPT ![Len(board)] = [won |-> tick, winner |-> w]]
           /\ lastRoundEndTick' = tick
           /\ roundTicks' = [roundTicks EXCEPT ![n].winner = w]
    BY <1>5, <2>1 DEF RoundEnd
  <2> DEFINE e == [Last EXCEPT !.winner = w]
             b == [won |-> tick, winner |-> w]
             B == [won : 0 .. MaxTick, winner : Sides \cup {None}]
  <2>3. roundTicks' = [roundTicks EXCEPT ![n] = e]
    BY <2>2 DEF Last
  <2>4. /\ Last \in RoundTick /\ n \in Indices
        /\ Last.end = 0 /\ Last.freezeEnd # 0
        /\ Last.start <= tick /\ Last.freezeEnd <= tick /\ Last.start <= Last.freezeEnd
    BY <1>1, <2>1, LastIs, RowIs DEF IInv, EachWindow, LastRow, Last
  <2>5. /\ e \in RoundTick /\ e.freezeEnd = Last.freezeEnd
        /\ e.round = Last.round /\ e.start = Last.start /\ e.end = 0 /\ e.winner = w
    BY <2>4 DEF RoundTick
  <2>6. b \in B /\ b.won = tick /\ b.winner = w
    BY <1>3
  <2> HIDE DEF e, b, B
  <2>7. /\ EachWindow' /\ Succession'
        /\ \A i \in Indices : roundTicks'[i].start = roundTicks[i].start
    <3>1. /\ e.freezeEnd <= tick /\ e.end <= tick
          /\ e.start <= e.freezeEnd
      BY <1>3, <2>4, <2>5
    <3> QED
      BY <1>1, <2>1, <2>3, <2>5, <3>1, LastRowChanged
  <2>8. /\ roundTicks' \in Seq(RoundTick) /\ Len(roundTicks') = n
        /\ Indices' = Indices /\ roundTicks' # <<>> /\ Last' = e /\ roundTicks'[n] = e
        /\ \A i \in Indices : i # n => roundTicks'[i] = roundTicks[i]
    BY <2>1, <2>3, <2>5, LastChanged DEF IInv, Last
  <2>9. /\ board' \in Seq(B) /\ Len(board') = Len(board)
        /\ stage = "match" => /\ board'[n] = b /\ LastWon' = tick
                              /\ \A i \in Indices : i # n => board'[i] = board[i]
    <3>1. board \in Seq(B)
      BY DEF IInv, TypeOK, B
    <3>2. CASE stage # "match"
      BY <2>2, <3>1, <3>2
    <3>3. CASE stage = "match"
      <4>1. Len(board) = n /\ board' = [board EXCEPT ![n] = b]
        BY <2>2, <3>3 DEF IInv, Counts, b
      <4>2. /\ board' \in Seq(B) /\ Len(board') = n
            /\ \A i \in 1 .. n : board'[i] = IF i = n THEN b ELSE board[i]
        BY <2>4, <2>6, <3>1, <4>1, ExceptSeq DEF Indices
      <4>3. board'[n] = b
        BY <2>4, <4>2 DEF Indices
      <4> QED
        BY <2>6, <4>1, <4>2, <4>3 DEF LastWon, Indices
    <3> QED
      BY <3>2, <3>3
  <2>10. TypeOK'
    BY <1>1, <1>3, <2>2, <2>8, <2>9 DEF IInv, TypeOK, B
  <2>11. Counts'
    <3>1. stage # "match" => board' = <<>>
      BY <2>2 DEF IInv, Counts
    <3> QED
      BY <1>1, <1>3, <1>5, <2>2, <2>8, <2>9, <3>1 DEF IInv, Counts
  <2>12. Scores'
    <3> SUFFICES ASSUME stage = "match", NEW i \in Indices
                 PROVE  /\ roundTicks'[i].winner = board'[i].winner
                        /\ board'[i].won # 0 =>
                             /\ roundTicks'[i].start <= board'[i].won
                             /\ roundTicks'[i].end # 0 => board'[i].won <= roundTicks'[i].end
      BY <1>1, <2>8 DEF Scores
    <3>1. CASE i = n
      BY <2>4, <2>5, <2>6, <2>8, <2>9, <3>1
    <3>2. CASE i # n
      BY <2>8, <2>9, <3>2 DEF IInv, Scores
    <3> QED
      BY <3>1, <3>2
  <2>13. LastRow'
    BY <1>1, <1>3, <2>2, <2>4, <2>5, <2>8, <2>9 DEF LastRow
  <2>14. Stamps'
    BY <1>1, <1>3, <2>7, <2>8, StampsKept
  <2> QED
    BY <1>2, <2>7, <2>10, <2>11, <2>12, <2>13, <2>14 DEF IInv
<1> QED
  BY <1>4, <1>5

\* The delay after it is over: the last window closes, after the win.
LEMMA OfficialKeeps == IInv /\ RoundEndOfficial => IInv'
<1> SUFFICES ASSUME IInv, RoundEndOfficial PROVE IInv'
  OBVIOUS
<1>1. /\ UNCHANGED <<tick, stage, team, played, board, opened, matchStarted, currentRound,
                     lastRoundEndTick, playerStartSides, engagements, rows, done>>
      /\ ~ done /\ phase = "over" /\ phase' = "idle" /\ liveRound' = FALSE
      /\ maxTick' = CaptureMaxTick
  BY DEF RoundEndOfficial
<1>2. FinalRoundIsTight'
  BY <1>1 DEF FinalRoundIsTight
<1>3. tick \in Nat /\ tick # 0 /\ tick \in 0 .. MaxTick
  BY RoundsAssumption DEF IInv, TypeOK
<1>4. maxTick' = tick
  BY <1>1 DEF CaptureMaxTick, IInv, TypeOK, Counts
<1>5. CASE ~ matchStarted
  <2>1. roundTicks' = roundTicks /\ roundTicks = <<>> /\ stage # "match"
    BY <1>5 DEF RoundEndOfficial, IInv, Counts
  <2>2. TypeOK'
    BY <1>1, <1>3, <1>4, <2>1 DEF IInv, TypeOK
  <2>3. Counts' /\ EachWindow' /\ Succession' /\ Scores'
    BY <1>1, <1>3, <1>4, <2>1 DEF IInv, Counts, EachWindow, Succession, Scores, Indices
  <2>4. LastRow'
    BY <1>1, <1>5, <2>1 DEF LastRow
  <2>5. Stamps'
    BY <1>1, <2>1 DEF IInv, Stamps, Stamped, Indices
  <2> QED
    BY <1>2, <2>2, <2>3, <2>4, <2>5 DEF IInv
<1>6. CASE matchStarted
  <2> DEFINE e == [Last EXCEPT !.end = tick]
  <2>1. roundTicks # <<>>
    BY <1>1, <1>6 DEF IInv, LastRow
  <2>2. roundTicks' = [roundTicks EXCEPT ![Len(roundTicks)] = e]
    BY <1>6, <2>1 DEF RoundEndOfficial, LastClosed, Last
  <2>3. /\ Last \in RoundTick
        /\ Last.start <= tick /\ Last.freezeEnd <= tick
        /\ Last.freezeEnd # 0 => Last.start <= Last.freezeEnd
        /\ stage = "match" => LastWon = lastRoundEndTick /\ lastRoundEndTick <= tick
    BY <1>1, <2>1, LastIs, RowIs DEF IInv, EachWindow, Counts, LastRow, Last
  <2>4. /\ e \in RoundTick /\ e.freezeEnd = Last.freezeEnd
        /\ e.round = Last.round /\ e.start = Last.start /\ e.end = tick
        /\ e.winner = Last.winner
    BY <1>3, <2>3 DEF RoundTick
  <2> HIDE DEF e
  <2>5. Scores'
    BY <1>1, <2>1, <2>2, <2>3, <2>4, ScoresKept
  <2>6. /\ EachWindow' /\ Succession'
        /\ \A i \in Indices : roundTicks'[i].start = roundTicks[i].start
    <3>1. /\ e.freezeEnd <= tick /\ e.end <= tick
          /\ e.start <= e.end /\ e.freezeEnd <= e.end
          /\ e.freezeEnd # 0 => e.start <= e.freezeEnd
      BY <1>3, <2>3, <2>4
    <3> QED
      BY <1>1, <2>1, <2>2, <2>4, <3>1, LastRowChanged
  <2>7. /\ roundTicks' \in Seq(RoundTick) /\ Len(roundTicks') = Len(roundTicks)
        /\ Indices' = Indices /\ roundTicks' # <<>> /\ Last' = e
    BY <2>1, <2>2, <2>4, LastChanged DEF IInv
  <2>8. TypeOK'
    BY <1>1, <1>3, <1>4, <2>7 DEF IInv, TypeOK
  <2>9. Counts'
    BY <1>1, <1>3, <1>4, <1>6, <2>7 DEF IInv, Counts
  <2>10. LastRow'
    BY <1>1, <1>3, <2>4, <2>7 DEF LastRow
  <2>11. Stamps'
    BY <1>1, <1>3, <2>6, <2>7, StampsKept
  <2> QED
    BY <1>2, <2>5, <2>6, <2>8, <2>9, <2>10, <2>11 DEF IInv
<1> QED
  BY <1>5, <1>6

\* The other handlers only stamp rows.
LEMMA RowsKeep == IInv /\ (PlayerHurt \/ FrameDone \/ OpenEngagement) => IInv'
<1> SUFFICES ASSUME IInv, PlayerHurt \/ FrameDone \/ OpenEngagement PROVE IInv'
  OBVIOUS
<1>1. /\ UNCHANGED <<game, matchStarted, currentRound, maxTick, lastRoundEndTick, liveRound,
                     roundTicks, playerStartSides, done>>
      /\ ~ done
      /\ rows' \in SUBSET (rows \cup {RowNow})
      /\ engagements' \in SUBSET (engagements \cup {RowNow})
  BY DEF PlayerHurt, FrameDone, OpenEngagement
<1>2. RowNow \in Row
  BY RowNowStamped
<1>3. TypeOK'
  BY <1>1, <1>2 DEF IInv, TypeOK, game
<1>4. Counts' /\ EachWindow' /\ Succession' /\ Scores' /\ LastRow' /\ FinalRoundIsTight'
  BY <1>1 DEF IInv, Counts, EachWindow, Succession, Scores, LastRow, Last, LastWon, Indices,
     FinalRoundIsTight, game
<1>5. Stamps'
  <2>1. tick' = tick /\ tick \in Nat /\ stage' = stage /\ roundTicks' = roundTicks
    BY <1>1 DEF IInv, TypeOK, game
  <2>2. rows' \cup engagements' \subseteq rows \cup engagements \cup {RowNow}
    BY <1>1
  <2> QED
    BY <2>1, <2>2, StampsKept DEF Indices
<1> QED
  BY <1>3, <1>4, <1>5 DEF IInv

\* The end finalize gives is within the recording, and of a round that was won
\* not before its win nor later than the buffer allows.
LEMMA BackfilledIs ==
    ASSUME IInv
    PROVE  /\ Backfilled \in 1 .. tick
           /\ lastRoundEndTick # 0 =>
                /\ lastRoundEndTick <= Backfilled
                /\ Backfilled <= lastRoundEndTick + Buffer
<1>1. CaptureMaxTick = tick
  BY DEF CaptureMaxTick, IInv, TypeOK, Counts
<1>2. /\ tick \in Nat /\ tick # 0 /\ Buffer \in Nat
      /\ lastRoundEndTick \in Nat /\ lastRoundEndTick <= tick
  BY RoundsAssumption DEF IInv, TypeOK, Counts
<1> QED
  BY <1>1, <1>2 DEF Backfilled

\* The parse returns, wherever the recording breaks off.
LEMMA FinalizeKeeps == IInv /\ Finalize => IInv'
<1> SUFFICES ASSUME IInv, Finalize PROVE IInv'
  OBVIOUS
<1>1. /\ UNCHANGED <<game, matchStarted, currentRound, lastRoundEndTick, liveRound,
                     playerStartSides>>
      /\ ~ done /\ done' = TRUE
      /\ maxTick' = CaptureMaxTick
      /\ rows' = rows \cup engagements /\ engagements' = {}
  BY DEF Finalize, CloseAllEngagements
<1>2. UNCHANGED <<tick, stage, phase, team, played, board, opened>>
  BY <1>1 DEF game
<1>3. tick \in Nat /\ tick # 0 /\ tick \in 0 .. MaxTick
  BY RoundsAssumption DEF IInv, TypeOK
<1>4. maxTick' = tick
  BY <1>1 DEF CaptureMaxTick, IInv, TypeOK, Counts
<1>5. LastRow'
  BY <1>1 DEF LastRow
<1>6. rows' \cup engagements' \subseteq rows \cup engagements \cup {RowNow}
  BY <1>1
<1>7. CASE roundTicks = <<>> \/ Last.end # 0
  <2>1. roundTicks' = roundTicks
    BY <1>7 DEF Finalize, Last
  <2>2. TypeOK'
    BY <1>1, <1>2, <1>3, <1>4, <2>1 DEF IInv, TypeOK
  <2>3. Counts' /\ EachWindow' /\ Succession' /\ Scores'
    BY <1>1, <1>2, <1>3, <1>4, <2>1 DEF IInv, Counts, EachWindow, Succession, Scores, Indices
  <2>4. Stamps'
    BY <1>2, <1>3, <1>6, <2>1, StampsKept DEF Indices
  <2>5. FinalRoundIsTight'
    BY <1>1, <1>2, <1>7 DEF IInv, Counts, LastRow, FinalRoundIsTight
  <2> QED
    BY <1>5, <2>2, <2>3, <2>4, <2>5 DEF IInv
<1>8. CASE roundTicks # <<>> /\ Last.end = 0
  <2> DEFINE e == [Last EXCEPT !.end = Backfilled]
  <2>1. roundTicks # <<>>
    BY <1>8
  <2>2. roundTicks' = [roundTicks EXCEPT ![Len(roundTicks)] = e]
    BY <1>8 DEF Finalize, LastClosed, Last
  <2>3. /\ Last \in RoundTick
        /\ Last.start <= tick /\ Last.freezeEnd <= tick
        /\ Last.freezeEnd # 0 => Last.start <= Last.freezeEnd
    BY <2>1, LastIs, RowIs DEF IInv, EachWindow, Last
  <2>4. phase \in {"freeze", "play", "over"}
    BY <1>1, <1>8 DEF IInv, TypeOK, LastRow
  <2>5. phase = "over" => /\ lastRoundEndTick # 0
                          /\ Last.start <= lastRoundEndTick
                          /\ Last.freezeEnd <= lastRoundEndTick
                          /\ stage = "match" => LastWon = lastRoundEndTick
    BY <1>1, <1>8 DEF IInv, LastRow
  <2>6. phase # "over" => /\ Last.winner = None
                          /\ stage = "match" => LastWon = 0
    BY <1>1, <1>8, <2>4 DEF IInv, LastRow
  <2>7. /\ Backfilled \in 1 .. tick /\ Backfilled \in 0 .. MaxTick
        /\ phase = "over" => /\ lastRoundEndTick <= Backfilled
                             /\ Backfilled <= lastRoundEndTick + Buffer
    BY <1>3, <2>5, BackfilledIs, RoundsAssumption DEF IInv, TypeOK
  <2>8. /\ e \in RoundTick /\ e.freezeEnd = Last.freezeEnd
        /\ e.round = Last.round /\ e.start = Last.start /\ e.end = Backfilled
        /\ e.winner = Last.winner
    BY <2>3, <2>7 DEF RoundTick
  <2> HIDE DEF e
  <2>9. Scores'
    <3>1. stage = "match" /\ LastWon # 0 => LastWon <= e.end
      BY <2>5, <2>6, <2>7, <2>8
    <3> QED
      BY <1>2, <2>1, <2>2, <2>8, <3>1, ScoresKept
  <2>10. /\ EachWindow' /\ Succession'
         /\ \A i \in Indices : roundTicks'[i].start = roundTicks[i].start
    <3>1. /\ e.freezeEnd <= tick /\ e.end <= tick
          /\ e.freezeEnd # 0 => e.start <= e.freezeEnd
      BY <1>3, <2>3, <2>7, <2>8
    <3>2. Last.start \in Nat /\ Last.freezeEnd \in Nat /\ lastRoundEndTick \in Nat
      BY <2>3, RoundsAssumption DEF RoundTick, IInv, TypeOK
    <3>3. e.winner # None => e.start <= e.end /\ e.freezeEnd <= e.end
      BY <1>3, <2>5, <2>6, <2>7, <2>8, <3>2
    <3> QED
      BY <1>2, <2>1, <2>2, <2>8, <3>1, <3>3, LastRowChanged
  <2>11. /\ roundTicks' \in Seq(RoundTick) /\ Len(roundTicks') = Len(roundTicks)
         /\ Indices' = Indices /\ roundTicks' # <<>> /\ Last' = e
    BY <2>1, <2>2, <2>8, LastChanged DEF IInv
  <2>12. TypeOK'
    BY <1>1, <1>2, <1>3, <1>4, <2>11 DEF IInv, TypeOK
  <2>13. Counts'
    BY <1>1, <1>2, <1>3, <1>4, <2>1, <2>11 DEF IInv, Counts
  <2>14. Stamps'
    BY <1>2, <1>3, <1>6, <2>10, <2>11, StampsKept
  <2>15. FinalRoundIsTight'
    <3> SUFFICES ASSUME stage = "match", phase = "over"
                 PROVE  Last'.end <= LastWon + Buffer /\ Last'.end <= maxTick'
      BY <1>2 DEF FinalRoundIsTight, Last, LastWon
    <3> QED
      BY <1>3, <1>4, <2>5, <2>7, <2>8, <2>11
  <2> QED
    BY <1>5, <2>9, <2>10, <2>12, <2>13, <2>14, <2>15 DEF IInv
<1> QED
  BY <1>7, <1>8

LEMMA IInvStep == IInv /\ [Next]_vars => IInv'
<1> SUFFICES ASSUME IInv, [Next]_vars PROVE IInv'
  OBVIOUS
<1>1. CASE UNCHANGED vars
  BY <1>1 DEF vars, game, parser, IInv, TypeOK, Counts, EachWindow, Succession, Scores,
     LastRow, Last, LastWon, Indices, Stamps, Stamped, FinalRoundIsTight
<1>2. CASE Next
  BY <1>1, <1>2, TickKeeps, TeamKeeps, KnifeKeeps, MatchStartKeeps, RoundStartKeeps,
     FreezetimeEndKeeps, RoundEndKeeps, OfficialKeeps, RowsKeep, FinalizeKeeps
  DEF Next, Returned
<1> QED
  BY <1>1, <1>2

LEMMA IInvAlways == Spec => []IInv
BY IInvInit, IInvStep, PTL DEF Spec

-----------------------------------------------------------------------------
(* The properties.                                                           *)

\* The table's rounds are the scoreboard's, with their winners and their wins
\* inside their windows, and so are the starting sides: whatever came before
\* the match, and wherever the recording breaks off.
THEOREM TableIsTheScoreboard == Spec => []TableIsScoreboard
<1>1. IInv => TableIsScoreboard
  BY DEF IInv, TypeOK, Counts, EachWindow, Scores, Indices, TableIsScoreboard, RoundsAreScoreboard,
     SidesAreScoreboard
<1> QED
  BY <1>1, IInvAlways, PTL

\* Every row of the match is stamped with the round it happened in, and its
\* tick is in that round by the table.
THEOREM RowsAreOfTheirRound == Spec => []RowsAreInTheirRound
<1>1. IInv => RowsAreInTheirRound
  <2> SUFFICES ASSUME IInv, NEW r \in rows \cup engagements, r.real # 0
               PROVE  r.round = r.real /\ RoundOf(r.tick) = r.real
    BY DEF RowsAreInTheirRound
  <2> DEFINE started == {i \in 1 .. Len(roundTicks) : roundTicks[i].start <= r.tick}
             latest == CHOOSE i \in started : \A j \in started : j <= i
  <2>1. /\ r.round = r.real /\ r.real \in Indices
        /\ roundTicks[r.real].start <= r.tick
        /\ \A j \in Indices : r.real < j => r.tick < roundTicks[j].start
    BY DEF IInv, Stamps, Stamped
  <2>2. r.tick \in Nat /\ Len(roundTicks) \in Nat
    BY DEF IInv, TypeOK, Row
  <2>3. \A i \in Indices : roundTicks[i].start \in Nat
    BY RowIs, RoundsAssumption DEF IInv
  <2>4. r.real \in started /\ \A j \in started : j <= r.real
    BY <2>1, <2>2, <2>3 DEF Indices
  <2>5. latest \in started /\ \A j \in started : j <= latest
    BY <2>4
  <2>6. latest = r.real
    BY <2>2, <2>4, <2>5
  <2>7. roundTicks[r.real].round = r.real
    BY <2>1 DEF IInv, EachWindow
  <2>8. RoundOf(r.tick) = roundTicks[latest].round
    BY <2>4 DEF RoundOf
  <2> QED
    BY <2>1, <2>6, <2>7, <2>8
<1> QED
  BY <1>1, IInvAlways, PTL

\* The windows of the table follow each other, rows are captured live only
\* into the one that is open, and the last is not stretched past its buffer.
THEOREM WindowsAreCoherent == Spec => []WindowsCoherent
<1>1. IInv => WindowsInOrder
  <2> SUFFICES ASSUME IInv, NEW i \in 1 .. Len(roundTicks)
               PROVE  LET rt == roundTicks[i]
                      IN  /\ rt.freezeEnd # 0 => rt.start <= rt.freezeEnd
                          /\ i < Len(roundTicks) =>
                               rt.end # 0 /\ rt.end <= roundTicks[i + 1].start
                          /\ rt.end # 0 /\ rt.winner # None =>
                               rt.start <= rt.end /\ rt.freezeEnd <= rt.end
    BY DEF WindowsInOrder
  <2>1. i < Len(roundTicks) => i + 1 \in Indices /\ i < i + 1
    BY DEF Indices, IInv, TypeOK
  <2> QED
    BY <2>1 DEF IInv, EachWindow, Succession, Indices
<1>2. IInv => LiveRoundIsOpen
  <2> SUFFICES ASSUME IInv, liveRound, ~ done, roundTicks # <<>>
               PROVE  Last.round = currentRound /\ Last.freezeEnd # 0 /\ Last.end = 0
    BY DEF LiveRoundIsOpen, Last
  <2>1. Last.round = currentRound
    BY LastIs DEF IInv, Counts, EachWindow, Last
  <2>2. phase \in {"play", "over"}
    BY DEF IInv, TypeOK, LastRow
  <2> QED
    BY <2>1, <2>2 DEF IInv, LastRow
<1> QED
  BY <1>1, <1>2, IInvAlways, PTL DEF IInv, WindowsCoherent

\* What is in the result stays, and an engagement still open is written before
\* it is forgotten.
THEOREM RowsStay == Spec => RowsAreKept
<1>1. [Next]_vars => [rows \subseteq rows' /\ engagements \subseteq engagements' \cup rows']_vars
  BY DEF Next, vars, game, parser, Tick, Join, SwapSides, KnifeUnannounced, MatchStart, RoundStart,
     RoundFreezetimeEnd, RoundEnd, RoundEndOfficial, PlayerHurt, FrameDone, OpenEngagement,
     Finalize, Returned, CloseAllEngagements
<1> QED
  BY <1>1, PTL DEF Spec, RowsAreKept

=============================================================================
