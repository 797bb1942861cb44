--------------------------- MODULE HandlersProofs ---------------------------
(***************************************************************************)
(* Proofs about a parse as a whole: for each of its parts an inductive      *)
(* invariant of Handlers, since it is the composition that takes the steps. *)
(*                                                                          *)
(* Every part rests on the clock (ClockInv: rounds start in order, nothing  *)
(* is stamped with a tick to come).  A part's lemmas say what each share of *)
(* a handler keeps; StepOf...-lemmas go through Next once, action by action.*)
(*                                                                          *)
(* What the parts have in common is that the code remembers by place (a     *)
(* slot of the ring, an entity number, an index into a result's list) what  *)
(* the properties ask about by identity: so each invariant says that the    *)
(* link from the one to the other is still the right one.                   *)
(***************************************************************************)
EXTENDS Handlers, OrderTheorems, SequenceTheorems

LEMMA SceneStays == scene \in Scenes /\ [Next]_vars => scene' \in Scenes
<1>. SUFFICES ASSUME [Next]_vars PROVE scene' = scene
  OBVIOUS
<1>. USE DEF bounds
<1>1. CASE GameFires
  BY <1>1 DEF GameFires, vars
<1>2. CASE Hurt
  BY <1>2 DEF Hurt, vars
<1>3. CASE Kill
  BY <1>3 DEF Kill, vars
<1>4. CASE WeaponFire
  BY <1>4 DEF WeaponFire, vars
<1>5. CASE SpottersChanged
  BY <1>5 DEF SpottersChanged, vars
<1>6. CASE GrenadeThrow
  BY <1>6 DEF GrenadeThrow, vars
<1>7. CASE GrenadeDestroy
  BY <1>7 DEF GrenadeDestroy, vars
<1>8. CASE HeExplode
  BY <1>8 DEF HeExplode, vars
<1>9. CASE FireGrenadeStart
  BY <1>9 DEF FireGrenadeStart, vars
<1>10. CASE BombEvent
  BY <1>10 DEF BombEvent, vars
<1>11. CASE Fire
  BY <1>11 DEF Fire, vars
<1>12. CASE SmokeStart
  BY <1>12 DEF SmokeStart, vars
<1>13. CASE SmokeExpired
  BY <1>13 DEF SmokeExpired, vars
<1>14. CASE FrameDone
  BY <1>14 DEF FrameDone, vars
<1>15. CASE RoundStart
  BY <1>15 DEF RoundStart, vars
<1>16. CASE FreezetimeEnd
  BY <1>16 DEF FreezetimeEnd, vars
<1>17. CASE EndOfficial
  BY <1>17 DEF EndOfficial, vars
<1>18. CASE Finalize
  BY <1>18 DEF Finalize, vars
<1>19. CASE Replays
  BY <1>19 DEF Replays, vars
<1>20. CASE Others
  BY <1>20 DEF Others, vars
<1>21. CASE Returned
  BY <1>21 DEF Returned, vars
<1>22. CASE UNCHANGED vars
  BY <1>22 DEF vars
<1>. QED
  BY <1>1, <1>2, <1>3, <1>4, <1>5, <1>6, <1>7, <1>8, <1>9, <1>10, <1>11, <1>12, <1>13, <1>14, <1>15, <1>16, <1>17, <1>18, <1>19, <1>20, <1>21, <1>22 DEF Next

\* How the positions and the clock move together.
LEMMA PosSteps ==
    ASSUME scene \in Scenes, [Next]_vars
    PROVE  \/ BurstPositions /\ Parsing /\ UNCHANGED clock
           \/ FramePositions /\ \E gap \in 1 .. MaxGap : ClockFrame(gap)
           \/ SortPositions /\ ClockFinalize
           \/ UNCHANGED posVars /\ UNCHANGED <<tick, finalized>>
<1>1. CASE GameFires
  BY <1>1 DEF GameFires, FireBullet, clock
<1>2. CASE Hurt
  BY <1>2 DEF Hurt, OnPlayerHurt, OnLateHurt, clock
<1>3. CASE Kill
  BY <1>3 DEF Kill, OnKill, clock
<1>4. CASE WeaponFire
  BY <1>4 DEF WeaponFire, OnWeaponFire, clock
<1>5. CASE SpottersChanged
  BY <1>5 DEF SpottersChanged, OnPlayerSpottersChanged, clock
<1>6. CASE GrenadeThrow
  BY <1>6 DEF GrenadeThrow, OnGrenadeThrow
<1>7. CASE GrenadeDestroy
  BY <1>7 DEF GrenadeDestroy, clock
<1>8. CASE HeExplode
  BY <1>8 DEF HeExplode, clock
<1>9. CASE FireGrenadeStart
  BY <1>9 DEF FireGrenadeStart, clock
<1>10. CASE BombEvent
  BY <1>10 DEF BombEvent, clock
<1>11. CASE Fire
  BY <1>11 DEF Fire, clock
<1>12. CASE SmokeStart
  BY <1>12 DEF SmokeStart, clock
<1>13. CASE SmokeExpired
  BY <1>13 DEF SmokeExpired, clock
<1>14. CASE FrameDone
  BY <1>14, ScenesAssumption DEF FrameDone
<1>15. CASE RoundStart
  BY <1>15 DEF RoundStart, ClockRoundStart
<1>16. CASE FreezetimeEnd
  BY <1>16 DEF FreezetimeEnd, ClockFreezeEnd
<1>17. CASE EndOfficial
  BY <1>17 DEF EndOfficial, ClockEndOfficial
<1>18. CASE Finalize
  BY <1>18 DEF Finalize
<1>19. CASE Replays
  BY <1>19 DEF Replays, clock
<1>20. CASE Others
  BY <1>20 DEF Others, clock
<1>21. CASE Returned
  BY <1>21 DEF Returned, vars, clock
<1>22. CASE UNCHANGED vars
  BY <1>22 DEF vars, clock
<1>. QED
  BY <1>1, <1>2, <1>3, <1>4, <1>5, <1>6, <1>7, <1>8, <1>9, <1>10, <1>11, <1>12, <1>13, <1>14, <1>15, <1>16, <1>17, <1>18, <1>19, <1>20, <1>21, <1>22 DEF Next

-----------------------------------------------------------------------------
(* The clock. *)

ClockInv ==
    /\ ClockTypeOK
    /\ Len(starts) = currentRound
    /\ starts[currentRound] <= tick

LEMMA ClockInvInit == ClockInit => ClockInv
<1>. SUFFICES ASSUME ClockInit PROVE ClockInv
  OBVIOUS
<1>1. MaxTick \in Nat \ {0} /\ MaxGap \in Nat \ {0} /\ MaxRounds \in Nat \ {0}
  BY ClockAssumption
<1>2. starts \in Seq(Ticks) /\ Len(starts) = 1 /\ starts[1] = 1
  <2>1. 1 \in Ticks
    BY <1>1 DEF Ticks
  <2>. QED
    BY <2>1 DEF ClockInit
<1>3. tick \in 1 .. MaxTick + MaxGap /\ currentRound \in 1 .. MaxRounds
  BY <1>1 DEF ClockInit
<1>4. /\ phase \in {"freeze", "play", "closed"} /\ finalized \in BOOLEAN
      /\ currentRound = 1 /\ tick = 1
  BY DEF ClockInit
<1>5. ClockTypeOK
  BY <1>2, <1>3, <1>4 DEF ClockTypeOK
<1>. QED
  BY <1>2, <1>4, <1>5 DEF ClockInv

\* How the clock moves.
LEMMA ClockSteps ==
    ASSUME scene \in Scenes, [Next]_vars
    PROVE  \/ \E gap \in 1 .. MaxGap : ClockFrame(gap)
           \/ ClockRoundStart \/ ClockFreezeEnd \/ ClockEndOfficial \/ ClockFinalize
           \/ UNCHANGED clock
<1>1. CASE GameFires
  BY <1>1 DEF GameFires, FireBullet, clock
<1>2. CASE Hurt
  BY <1>2 DEF Hurt, OnPlayerHurt, OnLateHurt, clock
<1>3. CASE Kill
  BY <1>3 DEF Kill, OnKill, clock
<1>4. CASE WeaponFire
  BY <1>4 DEF WeaponFire, OnWeaponFire, clock
<1>5. CASE SpottersChanged
  BY <1>5 DEF SpottersChanged, OnPlayerSpottersChanged, clock
<1>6. CASE GrenadeThrow
  BY <1>6 DEF GrenadeThrow
<1>7. CASE GrenadeDestroy
  BY <1>7 DEF GrenadeDestroy
<1>8. CASE HeExplode
  BY <1>8 DEF HeExplode
<1>9. CASE FireGrenadeStart
  BY <1>9 DEF FireGrenadeStart
<1>10. CASE BombEvent
  BY <1>10 DEF BombEvent
<1>11. CASE Fire
  BY <1>11 DEF Fire
<1>12. CASE SmokeStart
  BY <1>12 DEF SmokeStart
<1>13. CASE SmokeExpired
  BY <1>13 DEF SmokeExpired
<1>14. CASE FrameDone
  BY <1>14, ScenesAssumption DEF FrameDone
<1>15. CASE RoundStart
  BY <1>15 DEF RoundStart
<1>16. CASE FreezetimeEnd
  BY <1>16 DEF FreezetimeEnd
<1>17. CASE EndOfficial
  BY <1>17 DEF EndOfficial
<1>18. CASE Finalize
  BY <1>18 DEF Finalize
<1>19. CASE Replays
  BY <1>19 DEF Replays
<1>20. CASE Others
  BY <1>20 DEF Others
<1>21. CASE Returned
  BY <1>21 DEF Returned, vars
<1>22. CASE UNCHANGED vars
  BY <1>22 DEF vars
<1>. QED
  BY <1>1, <1>2, <1>3, <1>4, <1>5, <1>6, <1>7, <1>8, <1>9, <1>10, <1>11, <1>12, <1>13, <1>14, <1>15, <1>16, <1>17, <1>18, <1>19, <1>20, <1>21,
     <1>22 DEF Next

-----------------------------------------------------------------------------
(* Positions. *)

\* A slot holds what was captured last of the ticks it is for.
RingInv ==
    /\ \A i \in Slots : posRing[i].tick # 0 =>
         /\ posRing[i].tick \in captured /\ Slot(posRing[i].tick) = i /\ posRing[i].rows
         /\ posRing[i].emitted <=> posRing[i].tick \in Emitted
    /\ \A t \in captured : /\ t < tick
                           /\ \/ posRing[Slot(t)].tick = t
                              \/ posRing[Slot(t)].tick >= t + Burst + 1

ThrownInv == \A u \in thrown : u <= tick /\ u + Burst <= burstUntilTick

PosInv == PositionsAreWhole /\ RingInv /\ ThrownInv

\* Two ticks that share a slot are further apart than a window reaches.
LEMMA SlotsApart ==
    ASSUME NEW t \in Nat, NEW u \in Nat, t < u, Slot(t) = Slot(u)
    PROVE  u >= t + Burst + 1
<1> DEFINE m == Burst + 1
<1>1. m \in Nat \ {0}
  BY PositionsAssumption
<1>2. t % m = u % m
  BY DEF Slot
<1>. HIDE DEF m
<1>3. PICK q \in Nat, r \in Nat, s \in Nat, n \in Nat :
        t = m * q + r /\ u = m * s + n /\ r = t % m /\ n = u % m
  <2>1. t = m * (t \div m) + (t % m) /\ u = m * (u \div m) + (u % m)
    BY <1>1
  <2>2. {t \div m, t % m, u \div m, u % m} \subseteq Nat
    BY <1>1
  <2>. QED
    BY <2>1, <2>2
<1>4. u - t = m * (s - q)
  BY <1>1, <1>2, <1>3
<1>5. s - q >= 1
  <2>1. CASE s - q <= 0
    <3>1. m * (s - q) <= 0
      BY <1>1, <1>3, <2>1
    <3>. QED
      BY <1>4, <3>1
  <2>. QED
    BY <1>3, <2>1
<1>6. m * (s - q) >= m
  BY <1>1, <1>3, <1>5
<1>. QED
  BY <1>1, <1>4, <1>6, PositionsAssumption DEF m

LEMMA SlotIn == \A t \in Nat : Slot(t) \in Slots
BY PositionsAssumption DEF Slot, Slots

LEMMA PosInvInit == ClockInit /\ PosInit => PosInv
<1>. SUFFICES ASSUME ClockInit, PosInit PROVE PosInv
  OBVIOUS
<1>1. PosTypeOK
  <2>1. MaxTick \in Nat /\ Burst \in Nat
    BY ClockAssumption, PositionsAssumption
  <2>2. 0 \in 0 .. MaxTick /\ 0 \in 0 .. MaxTick + Burst
    BY <2>1
  <2>3. posRing \in [Slots -> [tick : 0 .. MaxTick, emitted : BOOLEAN, rows : BOOLEAN]]
    BY <2>2 DEF PosInit
  <2>4. positions \in Seq(Ticks) /\ bursts \in BOOLEAN
    <3>1. positions = <<>> /\ bursts = FALSE
      BY DEF PosInit
    <3>2. <<>> \in Seq(Ticks)
      BY EmptySeq
    <3>. QED
      BY <3>1, <3>2
  <2>5. thrown \subseteq Ticks /\ captured \subseteq Ticks
    BY DEF PosInit
  <2>6. burstUntilTick \in 0 .. MaxTick + Burst /\ lastPositionSampleTick \in 0 .. MaxTick
    BY <2>2 DEF PosInit
  <2>. QED
    BY <2>3, <2>4, <2>5, <2>6 DEF PosTypeOK
<1>. QED
  BY <1>1 DEF PosInit, PosInv, PositionsAreWhole, RingInv, ThrownInv, Emitted, Increasing

\* What a throw adds are the ticks behind it that are in the ring and not out.
LEMMA BurstIsBehind ==
    ASSUME NEW us, PosTypeOK
    PROVE  LET P == {u \in Ticks : u \in us /\ posRing[Slot(u)].rows}
           IN  /\ RowsOf(us) \in Seq(Ticks)
               /\ \A k \in DOMAIN RowsOf(us) : RowsOf(us)[k] \in P
               /\ \A k, l \in DOMAIN RowsOf(us) : RowsOf(us)[k] = RowsOf(us)[l] => k = l
               /\ \A u \in P : \E k \in DOMAIN RowsOf(us) : RowsOf(us)[k] = u
<1> DEFINE P == {u \in Ticks : u \in us /\ posRing[Slot(u)].rows}
           s == [i \in Ticks |-> i]
           rows == SubSequence(s, P)
           at == InOrder(P)
<1>1. s \in Seq(Ticks) /\ DOMAIN s = Ticks /\ \A i \in Ticks : s[i] = i
  BY ClockAssumption DEF Ticks
<1>2. P \in SUBSET Ticks /\ Ticks \subseteq Nat
  BY DEF Ticks
<1>3. rows = RowsOf(us)
  BY DEF RowsOf
<1>. HIDE DEF P, s
<1>4. Selection(Ticks, rows, s, P, at)
  <2>1. P \in SUBSET DOMAIN s
    BY <1>1, <1>2
  <2>. QED
    BY <1>1, <2>1, SubSequenceIs
<1>. HIDE DEF rows, at
<1>5. Cardinality(P) \in Nat /\ rows \in Seq(Ticks) /\ DOMAIN rows = 1 .. Cardinality(P)
  BY <1>4 DEF Selection
<1>6. /\ at \in [1 .. Cardinality(P) -> P]
      /\ \A k \in 1 .. Cardinality(P) : rows[k] = s[at[k]]
      /\ \A k, l \in 1 .. Cardinality(P) : k < l => at[k] < at[l]
      /\ \A i \in P : \E k \in 1 .. Cardinality(P) : at[k] = i
  BY <1>4 DEF Selection
<1>7. \A k \in 1 .. Cardinality(P) : rows[k] = at[k] /\ rows[k] \in P /\ at[k] \in Nat
  <2>1. \A k \in 1 .. Cardinality(P) : at[k] \in P /\ rows[k] = s[at[k]]
    BY <1>6
  <2>. QED
    BY <1>1, <1>2, <2>1
<1>8. ASSUME NEW k \in 1 .. Cardinality(P), NEW l \in 1 .. Cardinality(P), rows[k] = rows[l]
      PROVE  k = l
  <2>1. k \in Nat /\ l \in Nat /\ at[k] = at[l] /\ at[k] \in Nat
    BY <1>5, <1>7, <1>8
  <2>. QED
    BY <1>6, <2>1
<1>9. \A u \in P : \E k \in 1 .. Cardinality(P) : rows[k] = u
  BY <1>6, <1>7
<1>. QED
  BY <1>3, <1>5, <1>7, <1>8, <1>9 DEF P

LEMMA BurstKeeps ==
    ASSUME ClockInv, PosInv, Parsing, UNCHANGED clock, BurstPositions
    PROVE  PosInv'
<1>1. CASE ~ liveRound
  BY <1>1 DEF BurstPositions, clock, posVars, PosInv, PositionsAreWhole, RingInv, ThrownInv,
              PosTypeOK, Emitted, Increasing, InWindow, liveRound
<1>2. CASE liveRound
  <2> DEFINE us == Behind(tick)
             rows == RowsOf(us)
             P == {u \in Ticks : u \in us /\ posRing[Slot(u)].rows}
  <2>a. /\ PosTypeOK /\ Emitted \subseteq captured
        /\ \A i, j \in DOMAIN positions : positions[i] = positions[j] => i = j
        /\ \A t \in captured : InWindow(t) => t \in Emitted
    BY DEF PosInv, PositionsAreWhole
  <2>b. /\ positions' = positions \o rows
        /\ posRing' = [i \in Slots |-> [posRing[i] EXCEPT !.emitted = @ \/ posRing[i].tick \in us]]
        /\ burstUntilTick' = Later(tick + Burst, burstUntilTick)
        /\ bursts' /\ thrown' = thrown \cup {tick}
        /\ UNCHANGED <<lastPositionSampleTick, captured, tick, finalized>> /\ ~finalized
    BY <1>2 DEF BurstPositions, clock, Parsing
  <2>c. tick \in Ticks /\ Ticks \subseteq Nat /\ Burst \in Nat
    BY PositionsAssumption DEF Parsing, ClockInv, ClockTypeOK, Ticks
  <2>d. /\ rows \in Seq(Ticks)
        /\ \A k \in DOMAIN rows : rows[k] \in P
        /\ \A k, l \in DOMAIN rows : rows[k] = rows[l] => k = l
        /\ \A u \in P : \E k \in DOMAIN rows : rows[k] = u
    BY <2>a, BurstIsBehind
  <2>e. /\ posRing \in [Slots -> [tick : 0 .. MaxTick, emitted : BOOLEAN, rows : BOOLEAN]]
        /\ positions \in Seq(Ticks) /\ captured \subseteq Ticks /\ thrown \subseteq Ticks
        /\ burstUntilTick \in 0 .. MaxTick + Burst
    BY <2>a DEF PosTypeOK
  <2>f. \A t \in Ticks : Slot(t) \in Slots
    BY <2>c, SlotIn
  <2>. HIDE DEF rows
  <2>1. \A u \in P : u \in captured /\ u \notin Emitted
    <3>. SUFFICES ASSUME NEW u \in P PROVE u \in captured /\ u \notin Emitted
      OBVIOUS
    <3>1. u \in Ticks /\ u # 0 /\ Slot(u) \in Slots
      BY <2>c, <2>f DEF Ticks
    <3>2. posRing[Slot(u)].tick = u /\ ~ posRing[Slot(u)].emitted
      BY DEF Behind
    <3>. QED
      BY <3>1, <3>2 DEF PosInv, RingInv
  <2>2. \A u \in captured : tick - Burst <= u => u \in Emitted \cup P
    <3>. SUFFICES ASSUME NEW u \in captured, tick - Burst <= u PROVE u \in Emitted \cup P
      OBVIOUS
    <3>1. u \in Ticks /\ u \in Nat /\ u # 0 /\ Slot(u) \in Slots /\ u < tick
      BY <2>c, <2>e, <2>f DEF PosInv, RingInv, Ticks
    <3>2. posRing[Slot(u)].tick \in Nat
      BY <2>e, <3>1
    <3>3. posRing[Slot(u)].tick # 0 => posRing[Slot(u)].tick < tick
      BY <3>1 DEF PosInv, RingInv
    <3>4. posRing[Slot(u)].tick = u
      <4>1. \/ posRing[Slot(u)].tick = u
            \/ posRing[Slot(u)].tick >= u + Burst + 1
        BY DEF PosInv, RingInv
      <4>. QED
        BY <2>c, <3>1, <3>2, <3>3, <4>1
    <3>5. posRing[Slot(u)].rows /\ (posRing[Slot(u)].emitted <=> u \in Emitted)
      BY <3>1, <3>4 DEF PosInv, RingInv
    <3>6. u \in tick - Burst .. tick /\ u >= 0
      BY <2>c, <3>1
    <3>. QED
      BY <3>1, <3>4, <3>5, <3>6 DEF Behind
  <2>. HIDE DEF P
  <2>3. /\ positions' \in Seq(Ticks) /\ Emitted' = Emitted \cup P
        /\ \A i, j \in DOMAIN positions' : positions'[i] = positions'[j] => i = j
    <3>1. /\ positions' \in Seq(Ticks) /\ Len(positions') = Len(positions) + Len(rows)
          /\ \A i \in 1 .. Len(positions) : positions'[i] = positions[i]
          /\ \A i \in 1 .. Len(rows) : positions'[Len(positions) + i] = rows[i]
      BY <2>b, <2>d, <2>e
    <3>2. /\ DOMAIN positions = 1 .. Len(positions) /\ DOMAIN rows = 1 .. Len(rows)
          /\ DOMAIN positions' = 1 .. Len(positions) + Len(rows)
          /\ Len(positions) \in Nat /\ Len(rows) \in Nat
      BY <2>d, <2>e, <3>1
    <3>3. \A i \in DOMAIN positions' : i \in DOMAIN positions \/ i - Len(positions) \in DOMAIN rows
      BY <3>2
    <3>4. \A i \in DOMAIN positions' :
            \/ i \in DOMAIN positions /\ positions'[i] = positions[i] /\ positions'[i] \in Emitted
            \/ /\ i - Len(positions) \in DOMAIN rows
               /\ positions'[i] = rows[i - Len(positions)] /\ positions'[i] \in P
      <4>. SUFFICES ASSUME NEW i \in DOMAIN positions'
                    PROVE  \/ i \in DOMAIN positions /\ positions'[i] = positions[i] /\ positions'[i] \in Emitted
                           \/ /\ i - Len(positions) \in DOMAIN rows
                              /\ positions'[i] = rows[i - Len(positions)] /\ positions'[i] \in P
        OBVIOUS
      <4>1. CASE i \in DOMAIN positions
        BY <3>1, <3>2, <4>1 DEF Emitted
      <4>2. CASE i - Len(positions) \in DOMAIN rows
        <5>1. i = Len(positions) + (i - Len(positions))
          BY <3>2
        <5>2. positions'[i] = rows[i - Len(positions)]
          BY <3>1, <3>2, <4>2, <5>1
        <5>. QED
          BY <2>d, <4>2, <5>2
      <4>. QED
        BY <3>3, <4>1, <4>2
    <3>5. \A i, j \in DOMAIN positions' : positions'[i] = positions'[j] => i = j
      <4>. SUFFICES ASSUME NEW i \in DOMAIN positions', NEW j \in DOMAIN positions',
                           positions'[i] = positions'[j]
                    PROVE  i = j
        OBVIOUS
      <4>1. positions'[i] \in P => positions'[i] \notin Emitted
        BY <2>1
      <4>2. CASE i \in DOMAIN positions /\ j \in DOMAIN positions
                 /\ positions[i] = positions[j]
        BY <2>a, <4>2
      <4>3. CASE /\ i - Len(positions) \in DOMAIN rows /\ j - Len(positions) \in DOMAIN rows
                 /\ rows[i - Len(positions)] = rows[j - Len(positions)]
        <5>1. i - Len(positions) = j - Len(positions)
          BY <2>d, <4>3
        <5>. QED
          BY <3>2, <5>1
      <4>. QED
        BY <3>4, <4>1, <4>2, <4>3
    <3>6. Emitted \cup P \subseteq Emitted'
      <4>1. ASSUME NEW i \in DOMAIN positions PROVE positions[i] \in Emitted'
        <5>1. i \in DOMAIN positions' /\ positions'[i] = positions[i]
          BY <3>1, <3>2
        <5>. QED
          BY <5>1 DEF Emitted
      <4>2. ASSUME NEW k \in DOMAIN rows PROVE rows[k] \in Emitted'
        <5>1. Len(positions) + k \in DOMAIN positions' /\ positions'[Len(positions) + k] = rows[k]
          BY <3>1, <3>2
        <5>. QED
          BY <5>1 DEF Emitted
      <4>. QED
        BY <2>d, <4>1, <4>2 DEF Emitted
    <3>7. Emitted' \subseteq Emitted \cup P
      BY <3>4 DEF Emitted
    <3>. QED
      BY <3>1, <3>5, <3>6, <3>7
  <2>4. PosTypeOK'
    <3>1. posRing' \in [Slots -> [tick : 0 .. MaxTick, emitted : BOOLEAN, rows : BOOLEAN]]
      BY <2>b, <2>e
    <3>2. burstUntilTick' \in 0 .. MaxTick + Burst
      <4>1. tick + Burst \in 0 .. MaxTick + Burst
        <5>1. MaxTick \in Nat /\ tick \in 1 .. MaxTick
          BY <2>c, ClockAssumption DEF Ticks
        <5>. QED
          BY <2>c, <5>1
      <4>. QED
        BY <2>b, <2>e, <4>1 DEF Later
    <3>. QED
      BY <2>a, <2>b, <2>c, <2>3, <3>1, <3>2 DEF PosTypeOK
  <2>5. \A i \in Slots : /\ posRing'[i].tick = posRing[i].tick /\ posRing'[i].rows = posRing[i].rows
                         /\ posRing'[i].emitted <=> posRing[i].emitted \/ posRing[i].tick \in us
    BY <2>b, <2>e
  <2>6. RingInv'
    <3>1. ASSUME NEW i \in Slots, posRing'[i].tick # 0
          PROVE  /\ posRing'[i].tick \in captured' /\ Slot(posRing'[i].tick) = i /\ posRing'[i].rows
                 /\ posRing'[i].emitted <=> posRing'[i].tick \in Emitted'
      <4>1. /\ posRing[i].tick \in captured /\ Slot(posRing[i].tick) = i /\ posRing[i].rows
            /\ posRing[i].emitted <=> posRing[i].tick \in Emitted
        BY <2>5, <3>1 DEF PosInv, RingInv
      <4>2. posRing[i].tick \in us <=> posRing[i].tick \in P \/ (posRing[i].tick \in us /\ posRing[i].emitted)
        BY <2>e, <4>1 DEF P
      <4>. QED
        BY <2>5, <2>b, <2>3, <4>1, <4>2
    <3>2. \A t \in captured : Slot(t) \in Slots
      BY <2>e, <2>f
    <3>. QED
      BY <2>5, <2>b, <3>1, <3>2 DEF PosInv, RingInv
  <2>7. ThrownInv'
    BY <2>b, <2>c, <2>e DEF PosInv, ThrownInv, Later
  <2>8. \A t \in captured' : InWindow(t)' => t \in Emitted'
    <3>. SUFFICES ASSUME NEW t \in captured, InWindow(t)' PROVE t \in Emitted'
      BY <2>b
    <3>1. CASE InWindow(t)
      BY <2>a, <2>3, <3>1
    <3>2. CASE tick - Burst <= t
      BY <2>2, <2>3, <3>2
    <3>. QED
      BY <2>b, <3>1, <3>2 DEF InWindow
  <2>9. Emitted' \subseteq captured'
    BY <2>a, <2>b, <2>1, <2>3
  <2>. QED
    BY <2>b, <2>3, <2>4, <2>6, <2>7, <2>8, <2>9 DEF PosInv, PositionsAreWhole
<1>. QED
  BY <1>1, <1>2

LEMMA FrameKeeps ==
    ASSUME ClockInv, PosInv, NEW gap \in 1 .. MaxGap, ClockFrame(gap), FramePositions
    PROVE  PosInv'
<1>a. /\ PosTypeOK /\ Emitted \subseteq captured
      /\ \A i, j \in DOMAIN positions : positions[i] = positions[j] => i = j
      /\ \A t \in captured : InWindow(t) => t \in Emitted
      /\ ~ bursts => Increasing(positions)
  BY DEF PosInv, PositionsAreWhole
<1>b. /\ tick \in Ticks /\ tick' > tick /\ ~finalized /\ ~finalized' /\ tick' \in Int
      /\ Ticks \subseteq Nat \ {0} /\ Burst \in Nat
  BY PositionsAssumption, ClockAssumption DEF ClockFrame, Parsing, ClockInv, ClockTypeOK, Ticks
<1>c. /\ posRing \in [Slots -> [tick : 0 .. MaxTick, emitted : BOOLEAN, rows : BOOLEAN]]
      /\ positions \in Seq(Ticks) /\ captured \subseteq Ticks /\ thrown \subseteq Ticks
  BY <1>a DEF PosTypeOK
<1>d. lastPositionSampleTick' \in 0 .. MaxTick /\ UNCHANGED <<burstUntilTick, bursts, thrown>>
  BY <1>a, <1>b DEF FramePositions, PosTypeOK, Ticks
<1>e. ThrownInv'
  <2>1. \A u \in thrown : u <= tick /\ u + Burst <= burstUntilTick /\ u \in Int
    BY <1>b, <1>c DEF PosInv, ThrownInv
  <2>. QED
    BY <1>b, <1>d, <2>1 DEF ThrownInv
<1>f. \A t \in captured : t < tick /\ t < tick' /\ t \in Nat /\ Slot(t) \in Slots
  <2>1. \A t \in captured : t < tick /\ t \in Nat
    BY <1>b, <1>c DEF PosInv, RingInv
  <2>2. \A t \in captured : t < tick'
    BY <1>b, <2>1
  <2>. QED
    BY <2>1, <2>2, SlotIn
<1>1. CASE ~ liveRound
  <2>1. UNCHANGED <<posRing, positions, captured>>
    BY <1>1 DEF FramePositions
  <2>. QED
    BY <1>a, <1>b, <1>d, <1>e, <1>f, <2>1
       DEF PosInv, PositionsAreWhole, RingInv, PosTypeOK, Emitted, Increasing, InWindow
<1>2. CASE liveRound
  <2>a. /\ posRing' = [posRing EXCEPT ![Slot(tick)] = [tick |-> tick, emitted |-> Emits, rows |-> TRUE]]
        /\ positions' = IF Emits THEN Append(positions, tick) ELSE positions
        /\ captured' = captured \cup {tick}
    BY <1>2 DEF FramePositions, Staged
  <2>b. Slot(tick) \in Slots /\ tick \notin Emitted /\ Emits \in BOOLEAN
    BY <1>a, <1>b, <1>f, SlotIn DEF Emits, Due
  <2>1. /\ positions' \in Seq(Ticks)
        /\ \A i, j \in DOMAIN positions' : positions'[i] = positions'[j] => i = j
        /\ Emitted' = IF Emits THEN Emitted \cup {tick} ELSE Emitted
        /\ ~ bursts => Increasing(positions')
    <3>1. CASE Emits
      <4>1. /\ positions' \in Seq(Ticks) /\ Len(positions') = Len(positions) + 1
            /\ DOMAIN positions = 1 .. Len(positions) /\ Len(positions) \in Nat
            /\ DOMAIN positions' = 1 .. Len(positions) + 1
            /\ \A i \in 1 .. Len(positions) : positions'[i] = positions[i]
            /\ positions'[Len(positions) + 1] = tick
        BY <1>b, <1>c, <2>a, <3>1
      <4>2. \A i \in DOMAIN positions : positions[i] \in Emitted /\ positions[i] < tick
        BY <1>a, <1>f DEF Emitted
      <4>3. \A i, j \in DOMAIN positions' : positions'[i] = positions'[j] => i = j
        BY <1>a, <1>b, <2>b, <4>1, <4>2
      <4>4. Emitted' = Emitted \cup {tick}
        <5>1. \A i \in DOMAIN positions' : positions'[i] \in Emitted \cup {tick}
          BY <4>1, <4>2
        <5>2. \A i \in DOMAIN positions : positions[i] \in Emitted'
          <6>1. \A i \in DOMAIN positions : i \in DOMAIN positions' /\ positions'[i] = positions[i]
            BY <4>1
          <6>. QED
            BY <6>1 DEF Emitted
        <5>3. tick \in Emitted'
          <6>1. Len(positions) + 1 \in DOMAIN positions'
            BY <4>1
          <6>. QED
            BY <4>1, <6>1 DEF Emitted
        <5>. QED
          BY <5>1, <5>2, <5>3 DEF Emitted
      <4>5. ~ bursts => Increasing(positions')
        BY <1>a, <4>1, <4>2 DEF Increasing
      <4>. QED
        BY <3>1, <4>1, <4>3, <4>4, <4>5
    <3>2. CASE ~ Emits
      BY <1>a, <1>c, <2>a, <3>2 DEF Emitted
    <3>. QED
      BY <3>1, <3>2
  <2>2. posRing' \in [Slots -> [tick : 0 .. MaxTick, emitted : BOOLEAN, rows : BOOLEAN]]
    BY <1>b, <1>c, <2>a, <2>b DEF Ticks
  <2>3. PosTypeOK'
    BY <1>a, <1>b, <1>d, <2>a, <2>1, <2>2 DEF PosTypeOK
  <2>4. /\ posRing'[Slot(tick)].tick = tick /\ posRing'[Slot(tick)].rows
        /\ posRing'[Slot(tick)].emitted <=> Emits
        /\ \A i \in Slots : i # Slot(tick) => posRing'[i] = posRing[i]
    BY <1>c, <2>a, <2>b
  <2>5. RingInv'
    <3>1. ASSUME NEW i \in Slots, posRing'[i].tick # 0
          PROVE  /\ posRing'[i].tick \in captured' /\ Slot(posRing'[i].tick) = i /\ posRing'[i].rows
                 /\ posRing'[i].emitted <=> posRing'[i].tick \in Emitted'
      <4>1. CASE i = Slot(tick)
        BY <2>a, <2>b, <2>1, <2>4, <4>1
      <4>2. CASE i # Slot(tick)
        <5>1. /\ posRing'[i] = posRing[i]
              /\ posRing[i].tick \in captured /\ Slot(posRing[i].tick) = i /\ posRing[i].rows
              /\ posRing[i].emitted <=> posRing[i].tick \in Emitted
          BY <2>4, <3>1, <4>2 DEF PosInv, RingInv
        <5>2. posRing[i].tick # tick
          BY <1>b, <1>f, <5>1
        <5>. QED
          BY <2>a, <2>1, <5>1, <5>2
      <4>. QED
        BY <4>1, <4>2
    <3>2. ASSUME NEW t \in captured'
          PROVE  /\ t < tick'
                 /\ \/ posRing'[Slot(t)].tick = t
                    \/ posRing'[Slot(t)].tick >= t + Burst + 1
      <4>1. CASE t = tick
        BY <1>b, <2>4, <4>1
      <4>2. CASE t \in captured /\ Slot(t) = Slot(tick)
        <5>1. tick >= t + Burst + 1
          BY <1>b, <1>f, <4>2, SlotsApart
        <5>. QED
          BY <1>f, <2>4, <4>2, <5>1
      <4>3. CASE t \in captured /\ Slot(t) # Slot(tick)
        <5>1. posRing'[Slot(t)] = posRing[Slot(t)]
          BY <1>f, <2>4, <4>3
        <5>. QED
          BY <1>f, <4>3, <5>1 DEF PosInv, RingInv
      <4>. QED
        BY <2>a, <4>1, <4>2, <4>3
    <3>. QED
      BY <3>1, <3>2 DEF RingInv
  <2>6. \A t \in captured' : InWindow(t)' => t \in Emitted'
    <3>1. ASSUME InWindow(tick) PROVE Emits
      <4>1. PICK u \in thrown : tick <= u + Burst
        BY <3>1 DEF InWindow
      <4>2. u + Burst <= burstUntilTick /\ u \in Nat /\ burstUntilTick \in Int
        BY <1>a, <1>b, <1>c, <4>1 DEF PosInv, ThrownInv, PosTypeOK
      <4>. QED
        BY <1>b, <4>1, <4>2 DEF Emits
    <3>2. \A t : InWindow(t)' <=> InWindow(t)
      BY <1>d DEF InWindow
    <3>. QED
      BY <1>a, <2>a, <2>1, <3>1, <3>2
  <2>7. Emitted' \subseteq captured'
    BY <1>a, <2>a, <2>1
  <2>. QED
    BY <1>b, <1>d, <1>e, <2>1, <2>3, <2>5, <2>6, <2>7 DEF PosInv, PositionsAreWhole
<1>. QED
  BY <1>1, <1>2

LEMMA SortKeeps ==
    ASSUME PosInv, ClockFinalize, SortPositions
    PROVE  PosInv'
<1>a. /\ PosTypeOK /\ Emitted \subseteq captured
      /\ \A i, j \in DOMAIN positions : positions[i] = positions[j] => i = j
      /\ \A t \in captured : InWindow(t) => t \in Emitted
      /\ ~ bursts => Increasing(positions)
  BY DEF PosInv, PositionsAreWhole
<1>b. /\ UNCHANGED <<posRing, burstUntilTick, bursts, lastPositionSampleTick, thrown, captured, tick>>
      /\ positions \in Seq(Ticks)
  BY <1>a DEF SortPositions, ClockFinalize, PosTypeOK
<1>1. /\ positions' \in Seq(Ticks) /\ Emitted' = Emitted
      /\ \A i, j \in DOMAIN positions' : positions'[i] = positions'[j] => i = j
      /\ Increasing(positions')
  <2>1. CASE ~ bursts
    BY <1>a, <1>b, <2>1 DEF SortPositions, Emitted
  <2>2. CASE bursts
    <3> DEFINE n == Len(positions)
               R == {x \in (DOMAIN positions) \X (DOMAIN positions) : RowBefore(x[1], x[2])}
               at == Place(DOMAIN positions, R)
    <3>1. positions' = Ordered(positions, R)
      BY <2>2 DEF SortPositions
    <3>2. n \in Nat /\ DOMAIN positions = 1 .. n /\ \A i \in 1 .. n : positions[i] \in Nat
      <4>1. \A i \in DOMAIN positions : positions[i] \in Ticks
        BY <1>b
      <4>. QED
        BY <1>b, <4>1 DEF Ticks
    <3>3. \A i, j \in DOMAIN positions : <<i, j>> \in R <=>
             positions[i] < positions[j] \/ (positions[i] = positions[j] /\ i < j)
      BY DEF RowBefore
    <3>. HIDE DEF n, R
    <3>4. TotalOrder(DOMAIN positions, R)
      BY <3>2, <3>3 DEF TotalOrder
    <3>5. Arrangement(Ticks, positions', positions, R, at)
      BY <1>b, <3>1, <3>4, OrderedIs, SMTT(20)
    <3>. HIDE DEF at
    <3>6. /\ positions' \in Seq(Ticks) /\ Len(positions') = n
          /\ at \in [1 .. n -> 1 .. n]
          /\ \A k \in 1 .. n : positions'[k] = positions[at[k]]
          /\ \A k, l \in 1 .. n : k < l => <<at[k], at[l]>> \in R
          /\ \A i \in 1 .. n : \E k \in 1 .. n : at[k] = i
      BY <3>5 DEF n, Arrangement
    <3>7. DOMAIN positions' = 1 .. n
      BY <3>2, <3>6
    <3>8. ASSUME NEW k \in 1 .. n, NEW l \in 1 .. n, k < l
          PROVE  positions'[k] < positions'[l]
      <4>1. at[k] \in 1 .. n /\ at[l] \in 1 .. n /\ <<at[k], at[l]>> \in R
        BY <3>6, <3>8
      <4>2. \/ positions[at[k]] < positions[at[l]]
            \/ positions[at[k]] = positions[at[l]] /\ at[k] < at[l]
        BY <3>2, <3>3, <4>1
      <4>3. positions[at[k]] = positions[at[l]] => at[k] = at[l]
        BY <1>a, <3>2, <4>1
      <4>. QED
        BY <3>2, <3>6, <4>1, <4>2, <4>3
    <3>9. Increasing(positions')
      BY <3>7, <3>8 DEF Increasing
    <3>10. \A i, j \in DOMAIN positions' : positions'[i] = positions'[j] => i = j
      <4>1. \A k \in 1 .. n : positions'[k] \in Nat
        BY <3>2, <3>6
      <4>2. ASSUME NEW k \in 1 .. n, NEW l \in 1 .. n, positions'[k] = positions'[l]
            PROVE  k = l
        <5>1. ~(k < l) /\ ~(l < k)
          BY <3>8, <4>1, <4>2
        <5>. QED
          BY <3>2, <5>1
      <4>. QED
        BY <3>7, <4>2
    <3>11. Emitted' = Emitted
      <4>1. \A k \in 1 .. n : positions'[k] \in Emitted
        BY <3>2, <3>6 DEF Emitted
      <4>2. \A i \in 1 .. n : positions[i] \in Emitted'
        <5>. SUFFICES ASSUME NEW i \in 1 .. n PROVE positions[i] \in Emitted'
          OBVIOUS
        <5>1. PICK k \in 1 .. n : at[k] = i
          BY <3>6
        <5>2. positions'[k] = positions[i] /\ k \in DOMAIN positions'
          BY <3>6, <3>7, <5>1
        <5>. QED
          BY <5>2 DEF Emitted
      <4>3. Emitted = {positions[i] : i \in 1 .. n} /\ Emitted' = {positions'[k] : k \in 1 .. n}
        BY <3>2, <3>7 DEF Emitted
      <4>. QED
        BY <4>1, <4>2, <4>3
    <3>. QED
      BY <3>6, <3>9, <3>10, <3>11
  <2>. QED
    BY <2>1, <2>2
<1>. QED
  BY <1>a, <1>b, <1>1 DEF PosInv, PositionsAreWhole, RingInv, ThrownInv, PosTypeOK, InWindow

LEMMA PosInvStep ==
    ASSUME scene \in Scenes, ClockInv, PosInv, [Next]_vars
    PROVE  PosInv'
<1>1. CASE BurstPositions /\ Parsing /\ UNCHANGED clock
  BY <1>1, BurstKeeps
<1>2. CASE FramePositions /\ \E gap \in 1 .. MaxGap : ClockFrame(gap)
  BY <1>2, FrameKeeps
<1>3. CASE SortPositions /\ ClockFinalize
  BY <1>3, SortKeeps
<1>4. CASE UNCHANGED posVars /\ UNCHANGED <<tick, finalized>>
  BY <1>4 DEF posVars, PosInv, PositionsAreWhole, RingInv, ThrownInv, PosTypeOK, Emitted,
              Increasing, InWindow
<1>. QED
  BY <1>1, <1>2, <1>3, <1>4, PosSteps

\* What every part may count on of the others.
BaseInv == scene \in Scenes /\ ClockInv

LEMMA BaseInvStep == BaseInv /\ [Next]_vars => BaseInv'
<1>. SUFFICES ASSUME BaseInv, [Next]_vars PROVE BaseInv'
  OBVIOUS
<1>a. ClockInv /\ scene' \in Scenes
  BY SceneStays DEF BaseInv
<1>b. /\ tick \in 1 .. MaxTick + MaxGap /\ currentRound \in 1 .. MaxRounds
      /\ starts \in Seq(Ticks) /\ Len(starts) = currentRound /\ starts[currentRound] <= tick
      /\ phase \in {"freeze", "play", "closed"} /\ finalized \in BOOLEAN
      /\ {MaxTick, MaxGap, MaxRounds} \subseteq Nat
  BY <1>a, ClockAssumption DEF ClockInv, ClockTypeOK
<1>c. DOMAIN starts = 1 .. currentRound /\ \A i \in 1 .. currentRound : starts[i] \in Nat
  <2>1. \A i \in DOMAIN starts : starts[i] \in Ticks
    BY <1>b
  <2>2. DOMAIN starts = 1 .. currentRound
    BY <1>b
  <2>. QED
    BY <2>1, <2>2 DEF Ticks
<1>. SUFFICES ClockInv'
  BY <1>a DEF BaseInv
<1>1. ASSUME NEW gap \in 1 .. MaxGap, ClockFrame(gap)
      PROVE  ClockInv'
  <2>1. /\ tick <= MaxTick /\ tick' \in tick + 1 .. tick + gap
        /\ UNCHANGED <<currentRound, phase, starts, finalized>>
    BY <1>1 DEF ClockFrame, Parsing
  <2>2. tick' \in 1 .. MaxTick + MaxGap /\ starts'[currentRound'] <= tick'
    BY <1>b, <1>c, <2>1
  <2>. QED
    BY <1>b, <2>1, <2>2 DEF ClockInv, ClockTypeOK
<1>2. CASE ClockRoundStart
  <2>1. /\ tick \in Ticks /\ currentRound < MaxRounds /\ currentRound' = currentRound + 1
        /\ phase' = "freeze" /\ starts' = Append(starts, tick) /\ UNCHANGED <<tick, finalized>>
    BY <1>2, <1>b DEF ClockRoundStart, Parsing, Ticks
  <2>2. /\ starts' \in Seq(Ticks) /\ Len(starts') = currentRound'
        /\ starts'[currentRound'] = tick'
    BY <1>b, <2>1
  <2>. QED
    BY <1>b, <2>1, <2>2 DEF ClockInv, ClockTypeOK
<1>3. CASE ClockFreezeEnd \/ ClockEndOfficial \/ ClockFinalize
  BY <1>3, <1>b DEF ClockFreezeEnd, ClockEndOfficial, ClockFinalize, ClockInv, ClockTypeOK
<1>4. CASE UNCHANGED clock
  BY <1>4, <1>b DEF clock, ClockInv, ClockTypeOK
<1>. QED
  BY <1>1, <1>2, <1>3, <1>4, ClockSteps DEF BaseInv

LEMMA BaseAlways == Spec => []BaseInv
<1>1. Init => BaseInv
  BY ClockInvInit DEF Init, BaseInv
<1>. QED
  BY <1>1, BaseInvStep, PTL DEF Spec

\* PositionsAreWhole: no tick's rows are lost or doubled, however slots are
\* reused and windows overlap, and the result is in order (burstPositions,
\* emitPositions and sortPositions).
THEOREM PositionsWhole == Spec => []PositionsAreWhole
<1>1. Init => PosInv
  BY PosInvInit DEF Init
<1>2. BaseInv /\ PosInv /\ [Next]_vars => PosInv'
  BY PosInvStep DEF BaseInv
<1>3. PosInv => PositionsAreWhole
  BY DEF PosInv
<1>. QED
  BY <1>1, <1>2, <1>3, BaseAlways, PTL DEF Spec

-----------------------------------------------------------------------------
(* Grenades. *)

ThrowRows == [tick : Ticks, round : 1 .. MaxRounds, type : Types, ent : Ents]
DetonationRows == [tick : Ticks, round : 1 .. MaxRounds, type : Types, gid : Nat, place : Nat,
                   number : {0} \cup Ents, of : Nat, lost : BOOLEAN]
Entries == [id : Nat \ {0}, gtype : Types, destroyTick : 0 .. MaxTick, matched : BOOLEAN]

RowsInv ==
    /\ throws \in Seq(ThrowRows) /\ detonations \in Seq(DetonationRows)
    /\ grenadePos \in [Ents -> {NoProjectile} \cup Entries]

\* An entry is that of a throw with its number, and free as long as no
\* detonation bears its id.
EntriesInv ==
    \A e \in Ents : Tracked(e) =>
      LET id == grenadePos[e].id
      IN  /\ id \in DOMAIN throws /\ EntOf(id) = e /\ throws[id].type = grenadePos[e].gtype
          /\ ~ grenadePos[e].matched => \A i \in DOMAIN detonations : detonations[i].gid # id

\* Another detonation has taken a projectile's id: it was a lost one, or came
\* after one that was.
Taken(dets, g) ==
    /\ \E j \in DOMAIN dets : dets[j].gid = g
    /\ \E k \in DOMAIN dets : dets[k].lost

\* A projectile has its number; the entry of one that is still to go off is its
\* own, free unless it is a Molotov whose id is taken, and marked when it is
\* gone, which only a Molotov's is.
FlownInv ==
    /\ \A e \in Ents : entity[e] # 0 => EntOf(entity[e]) = e
    /\ \A g \in flown :
         LET e == EntOf(g)
         IN  /\ Tracked(e) /\ grenadePos[e].id = g
             /\ grenadePos[e].matched => throws[g].type = "Molotov" /\ Taken(detonations, g)
             /\ entity[e] \in {0, g}
             /\ entity[e] = 0 => throws[g].type = "Molotov" /\ grenadePos[e].destroyTick # 0

GrenInv == RowsInv /\ EntriesInv /\ FlownInv /\ DetonationsAreTheirThrows

\* What DetonationsAreTheirThrows says of one row of some lists.
Right(ths, dets, i) ==
    LET d == dets[i]
    IN  /\ d.gid # 0 => ths[d.gid].type = d.type
        /\ \/ d.gid = d.of
           \/ /\ d.type = "Molotov"
              /\ \/ d.lost
                 \/ d.gid # 0 /\ ths[d.gid].ent = d.number
                 \/ /\ \E j \in 1 .. (i - 1) : dets[j].gid = d.of
                    /\ \E j \in 1 .. (i - 1) : dets[j].lost

AllApart(dets) ==
    \A i, j \in DOMAIN dets : dets[i].gid = dets[j].gid /\ dets[i].gid # 0 => i = j

RightInv ==
    /\ \A i \in DOMAIN detonations : Right(throws, detonations, i)
    /\ AllApart(detonations)

LEMMA RightRows == DetonationsAreTheirThrows <=> GrenadesTypeOK /\ RightInv
BY DEF DetonationsAreTheirThrows, Excused, Right, AllApart, RightInv

\* A row stays right while the lists grow.
LEMMA StaysRight ==
    ASSUME NEW ths, NEW dets, NEW ths2, NEW dets2, NEW i \in Nat \ {0},
           \A j \in 1 .. i : dets2[j] = dets[j],
           dets[i].gid # 0 => ths2[dets[i].gid] = ths[dets[i].gid],
           Right(ths, dets, i)
    PROVE  Right(ths2, dets2, i)
<1>1. dets2[i] = dets[i]
  OBVIOUS
<1>2. \A j \in 1 .. (i - 1) : dets2[j] = dets[j]
  OBVIOUS
<1>. QED
  BY <1>1, <1>2 DEF Right

\* How the grenades move.
LEMMA GrenSteps ==
    ASSUME scene \in Scenes, [Next]_vars
    PROVE  \/ \E taken : OnGrenadeThrow(scene.types, taken)
           \/ \E staying : OnGrenadeDestroy(staying)
           \/ OnHeExplode
           \/ OnFireGrenadeStart
           \/ GoesOut
           \/ \E outcomes : OnSmokeStart(outcomes)
           \/ RoundStartGrenades
           \/ UNCHANGED grenadeVars
<1>1. CASE GameFires
  BY <1>1 DEF GameFires, FireBullet, clock, nades
<1>2. CASE Hurt
  BY <1>2 DEF Hurt, OnPlayerHurt, OnLateHurt, clock, nades
<1>3. CASE Kill
  BY <1>3 DEF Kill, OnKill, clock, nades
<1>4. CASE WeaponFire
  BY <1>4 DEF WeaponFire, OnWeaponFire, clock, nades
<1>5. CASE SpottersChanged
  BY <1>5 DEF SpottersChanged, OnPlayerSpottersChanged, clock, nades
<1>6. CASE GrenadeThrow
  BY <1>6 DEF GrenadeThrow, nades
<1>7. CASE GrenadeDestroy
  BY <1>7 DEF GrenadeDestroy, nades
<1>8. CASE HeExplode
  BY <1>8 DEF HeExplode, nades
<1>9. CASE FireGrenadeStart
  BY <1>9 DEF FireGrenadeStart, nades
<1>10. CASE BombEvent
  BY <1>10 DEF BombEvent, nades
<1>11. CASE Fire
  BY <1>11 DEF Fire, nades
<1>12. CASE SmokeStart
  BY <1>12 DEF SmokeStart, nades
<1>13. CASE SmokeExpired
  BY <1>13 DEF SmokeExpired, nades, OnSmokeExpired
<1>14. CASE FrameDone
  BY <1>14, ScenesAssumption DEF FrameDone, nades
<1>15. CASE RoundStart
  BY <1>15 DEF RoundStart, nades
<1>16. CASE FreezetimeEnd
  BY <1>16 DEF FreezetimeEnd, nades
<1>17. CASE EndOfficial
  BY <1>17 DEF EndOfficial, nades
<1>18. CASE Finalize
  BY <1>18 DEF Finalize, nades
<1>19. CASE Replays
  BY <1>19 DEF Replays, nades
<1>20. CASE Others
  BY <1>20 DEF Others, nades
<1>21. CASE Returned
  BY <1>21 DEF Returned, vars, nades, grenadeVars
<1>22. CASE UNCHANGED vars
  BY <1>22 DEF vars, nades
<1>. QED
  BY <1>1, <1>2, <1>3, <1>4, <1>5, <1>6, <1>7, <1>8, <1>9, <1>10, <1>11, <1>12, <1>13, <1>14, <1>15, <1>16, <1>17, <1>18, <1>19, <1>20, <1>21,
     <1>22 DEF Next

LEMMA GrenInvInit == GrenadesInit => GrenInv
<1>. SUFFICES ASSUME GrenadesInit PROVE GrenInv
  OBVIOUS
<1>1. throws = <<>> /\ detonations = <<>> /\ flown = {} /\ DOMAIN throws = {} /\ DOMAIN detonations = {}
  BY DEF GrenadesInit
<1>2. \A e \in Ents : entity[e] = 0 /\ ~ Tracked(e)
  BY DEF GrenadesInit, Tracked
<1>3. /\ entity \in [Ents -> 0 .. Len(throws)]
      /\ grenadePos \in [Ents -> {NoProjectile} \cup Entries]
  BY DEF GrenadesInit
<1>4. RowsInv
  BY <1>1, <1>3, EmptySeq DEF RowsInv
<1>5. DetonationsAreTheirThrows
  BY <1>1, <1>2, <1>3 DEF DetonationsAreTheirThrows, GrenadesTypeOK
<1>. QED
  BY <1>1, <1>2, <1>4, <1>5 DEF GrenInv, EntriesInv, FlownInv

\* What GrenInv says, taken apart.
LEMMA GrenFacts ==
    ASSUME GrenInv
    PROVE  /\ throws \in Seq(ThrowRows) /\ Len(throws) \in Nat /\ DOMAIN throws = 1 .. Len(throws)
           /\ \A g \in DOMAIN throws : throws[g] \in ThrowRows /\ EntOf(g) \in Ents
           /\ detonations \in Seq(DetonationRows) /\ Len(detonations) \in Nat
           /\ DOMAIN detonations = 1 .. Len(detonations)
           /\ \A i \in DOMAIN detonations : /\ detonations[i] \in DetonationRows
                                            /\ detonations[i].gid \in 0 .. Len(throws)
                                            /\ detonations[i].of \in DOMAIN throws
                                            /\ detonations[i].place \in Spots
           /\ entity \in [Ents -> 0 .. Len(throws)]
           /\ flown \subseteq DOMAIN throws
           /\ grenadePos \in [Ents -> {NoProjectile} \cup Entries]
           /\ \A e \in Ents : Tracked(e) => grenadePos[e] \in Entries
           /\ NoProjectile.id = 0
           /\ Ents \subseteq Nat \ {0}
           /\ Spots \subseteq Nat
<1>1. throws \in Seq(ThrowRows) /\ detonations \in Seq(DetonationRows)
  BY DEF GrenInv, RowsInv
<1>2. /\ Len(throws) \in Nat /\ DOMAIN throws = 1 .. Len(throws)
      /\ \A g \in DOMAIN throws : throws[g] \in ThrowRows
      /\ Len(detonations) \in Nat /\ DOMAIN detonations = 1 .. Len(detonations)
      /\ \A i \in DOMAIN detonations : detonations[i] \in DetonationRows
  BY <1>1
<1>3. \A g \in DOMAIN throws : EntOf(g) \in Ents
  BY <1>2 DEF EntOf, ThrowRows
<1>4. /\ entity \in [Ents -> 0 .. Len(throws)] /\ flown \subseteq DOMAIN throws
      /\ \A i \in DOMAIN detonations : /\ detonations[i].gid \in 0 .. Len(throws)
                                       /\ detonations[i].of \in DOMAIN throws
                                       /\ detonations[i].place \in Spots
  BY DEF GrenInv, DetonationsAreTheirThrows, GrenadesTypeOK
<1>5. /\ grenadePos \in [Ents -> {NoProjectile} \cup Entries]
      /\ \A e \in Ents : Tracked(e) => grenadePos[e] \in Entries
  BY DEF GrenInv, RowsInv, Tracked
<1>6. Ents \subseteq Nat \ {0} /\ NoProjectile.id = 0
  BY GrenadesAssumption DEF NoProjectile
<1>7. Spots \subseteq Nat
  BY <1>2, GrenadesAssumption DEF Spots, OutOfReach
<1>. QED
  BY <1>1, <1>2, <1>3, <1>4, <1>5, <1>6, <1>7

LinksInv ==
    /\ entity \in [Ents -> 0 .. Len(throws)] /\ flown \subseteq DOMAIN throws
    /\ \A i \in DOMAIN detonations : /\ detonations[i].gid \in 0 .. Len(throws)
                                     /\ detonations[i].of \in DOMAIN throws
                                     /\ detonations[i].place \in Spots

\* GrenadesTypeOK follows from the rest.
LEMMA GrenTyped == RowsInv /\ EntriesInv /\ LinksInv => GrenadesTypeOK
<1>. SUFFICES ASSUME RowsInv, EntriesInv, LinksInv PROVE GrenadesTypeOK
  OBVIOUS
<1>1. \A g \in DOMAIN throws : throws[g] \in ThrowRows
  BY DEF RowsInv
<1>2. \A i \in DOMAIN detonations : detonations[i] \in DetonationRows
  BY DEF RowsInv
<1>3. ASSUME NEW e \in Ents, Tracked(e)
      PROVE  grenadePos[e] \in [id : DOMAIN throws, gtype : Types, destroyTick : 0 .. MaxTick,
                                matched : BOOLEAN]
  <2>1. grenadePos[e] \in Entries /\ grenadePos[e].id \in DOMAIN throws
    BY <1>3 DEF RowsInv, EntriesInv, Tracked
  <2>. QED
    BY <2>1 DEF Entries
<1>. QED
  BY <1>1, <1>2, <1>3 DEF GrenadesTypeOK, LinksInv, ThrowRows, DetonationRows

LEMMA ThrowKeeps ==
    ASSUME ClockInv, GrenInv, NEW types \in SUBSET Types, NEW taken, OnGrenadeThrow(types, taken)
    PROVE  GrenInv'
<1> DEFINE gid == Len(throws) + 1
<1>a. PICK e \in Ents, t \in types :
        /\ entity[e] = 0
        /\ \A g \in flown : EntOf(g) # e
        /\ entity' = [entity EXCEPT ![e] = gid]
        /\ flown' = flown \cup {gid}
        /\ throws' = Append(throws, [tick |-> tick, round |-> currentRound, type |-> t, ent |-> e])
        /\ grenadePos' = [grenadePos EXCEPT ![e] =
             [id |-> gid, gtype |-> t, destroyTick |-> 0, matched |-> FALSE]]
  BY DEF OnGrenadeThrow
<1>b. detonations' = detonations /\ t \in Types /\ tick \in Ticks /\ currentRound \in 1 .. MaxRounds
  BY DEF OnGrenadeThrow, Parsing, ClockInv, ClockTypeOK, Ticks
<1>c. /\ throws \in Seq(ThrowRows) /\ Len(throws) \in Nat /\ DOMAIN throws = 1 .. Len(throws)
      /\ \A g \in DOMAIN throws : throws[g] \in ThrowRows /\ EntOf(g) \in Ents
      /\ Len(detonations) \in Nat /\ DOMAIN detonations = 1 .. Len(detonations)
      /\ \A i \in DOMAIN detonations : /\ detonations[i].gid \in 0 .. Len(throws)
                                       /\ detonations[i].of \in DOMAIN throws
                                       /\ detonations[i].place \in Spots
      /\ entity \in [Ents -> 0 .. Len(throws)]
      /\ flown \subseteq DOMAIN throws
      /\ grenadePos \in [Ents -> {NoProjectile} \cup Entries]
      /\ NoProjectile.id = 0
  BY GrenFacts
<1>1. /\ throws' \in Seq(ThrowRows) /\ Len(throws') = gid /\ DOMAIN throws' = 1 .. gid
      /\ \A g \in DOMAIN throws : throws'[g] = throws[g] /\ throws'[g].ent = EntOf(g)
      /\ throws'[gid] = [tick |-> tick, round |-> currentRound, type |-> t, ent |-> e]
      /\ throws'[gid].ent = e /\ throws'[gid].type = t
      /\ gid \in Nat \ {0} /\ gid \notin DOMAIN throws /\ DOMAIN throws \subseteq DOMAIN throws'
  <2>1. [tick |-> tick, round |-> currentRound, type |-> t, ent |-> e] \in ThrowRows
    BY <1>b DEF ThrowRows
  <2>2. /\ throws' \in Seq(ThrowRows) /\ Len(throws') = gid /\ DOMAIN throws' = 1 .. gid
        /\ \A g \in DOMAIN throws : throws'[g] = throws[g]
        /\ throws'[gid] = [tick |-> tick, round |-> currentRound, type |-> t, ent |-> e]
    BY <1>a, <1>c, <2>1
  <2>3. gid \in Nat \ {0} /\ gid \notin DOMAIN throws /\ DOMAIN throws \subseteq 1 .. gid
    BY <1>c
  <2>4. /\ \A g \in DOMAIN throws : throws'[g].ent = EntOf(g)
        /\ throws'[gid].ent = e /\ throws'[gid].type = t
    BY <2>2 DEF EntOf
  <2>. QED
    BY <2>2, <2>3, <2>4
<1>. HIDE DEF gid
<1>2. /\ grenadePos' \in [Ents -> {NoProjectile} \cup Entries]
      /\ grenadePos'[e].id = gid /\ grenadePos'[e].gtype = t /\ ~ grenadePos'[e].matched
      /\ Tracked(e)'
      /\ \A f \in Ents : f # e => grenadePos'[f] = grenadePos[f] /\ (Tracked(f)' <=> Tracked(f))
  <2> DEFINE entry == [id |-> gid, gtype |-> t, destroyTick |-> 0, matched |-> FALSE]
  <2>1. 0 \in 0 .. MaxTick
    BY ClockAssumption
  <2>2. entry \in Entries /\ entry.id = gid /\ entry.gtype = t /\ ~ entry.matched
    BY <1>1, <1>b, <2>1 DEF Entries
  <2>3. entry # NoProjectile
    BY <1>1, <1>c, <2>2
  <2>. HIDE DEF entry
  <2>4. grenadePos' = [grenadePos EXCEPT ![e] = entry]
    BY <1>a DEF entry
  <2>5. grenadePos'[e] = entry /\ \A f \in Ents : f # e => grenadePos'[f] = grenadePos[f]
    BY <1>c, <2>4
  <2>. QED
    BY <1>c, <2>2, <2>3, <2>4, <2>5 DEF Tracked
<1>3. RowsInv'
  BY <1>b, <1>1, <1>2 DEF RowsInv, GrenInv
<1>4. EntriesInv'
  <2>. SUFFICES ASSUME NEW f \in Ents, Tracked(f)'
                PROVE  LET id == grenadePos'[f].id
                       IN  /\ id \in DOMAIN throws' /\ throws'[id].ent = f
                           /\ throws'[id].type = grenadePos'[f].gtype
                           /\ ~ grenadePos'[f].matched =>
                                \A i \in DOMAIN detonations' : detonations'[i].gid # id
    BY DEF EntriesInv, EntOf
  <2>1. CASE f = e
    <3>1. \A i \in DOMAIN detonations : detonations[i].gid # gid
      BY <1>c DEF gid
    <3>. QED
      BY <1>b, <1>1, <1>2, <2>1, <3>1 DEF EntOf
  <2>2. CASE f # e
    <3>1. /\ grenadePos'[f] = grenadePos[f] /\ Tracked(f)
      BY <1>2, <2>2
    <3>. QED
      BY <1>b, <1>1, <3>1 DEF GrenInv, EntriesInv
  <2>. QED
    BY <2>1, <2>2
<1>5. /\ entity' \in [Ents -> 0 .. Len(throws')]
      /\ entity'[e] = gid /\ \A f \in Ents : f # e => entity'[f] = entity[f]
  BY <1>a, <1>c, <1>1
<1>6. FlownInv'
  <2>1. \A f \in Ents : entity'[f] # 0 => throws'[entity'[f]].ent = f
    <3>. SUFFICES ASSUME NEW f \in Ents, entity'[f] # 0 PROVE throws'[entity'[f]].ent = f
      OBVIOUS
    <3>1. CASE f = e
      BY <1>1, <1>5, <3>1 DEF EntOf
    <3>2. CASE f # e
      <4>1. entity'[f] = entity[f] /\ entity[f] \in DOMAIN throws /\ EntOf(entity[f]) = f
        BY <1>5, <1>c, <3>2 DEF GrenInv, FlownInv
      <4>. QED
        BY <1>1, <4>1 DEF EntOf
    <3>. QED
      BY <3>1, <3>2
  <2>2. ASSUME NEW g \in flown'
        PROVE  LET f == throws'[g].ent
               IN  /\ grenadePos'[f] # NoProjectile /\ grenadePos'[f].id = g
                   /\ grenadePos'[f].matched =>
                        throws'[g].type = "Molotov" /\ Taken(detonations, g)
                   /\ entity'[f] \in {0, g}
                   /\ entity'[f] = 0 => throws'[g].type = "Molotov" /\ grenadePos'[f].destroyTick # 0
    <3>1. CASE g = gid
      BY <1>1, <1>2, <1>5, <3>1 DEF Tracked
    <3>2. CASE g \in flown
      <4>1. throws'[g].ent = EntOf(g) /\ EntOf(g) # e /\ EntOf(g) \in Ents /\ throws'[g] = throws[g]
        BY <1>a, <1>c, <1>1, <3>2 DEF EntOf
      <4>2. /\ grenadePos'[EntOf(g)] = grenadePos[EntOf(g)] /\ entity'[EntOf(g)] = entity[EntOf(g)]
        BY <1>2, <1>5, <4>1
      <4>3. LET f == EntOf(g)
            IN  /\ grenadePos[f] # NoProjectile /\ grenadePos[f].id = g
                /\ grenadePos[f].matched => throws[g].type = "Molotov" /\ Taken(detonations, g)
                /\ entity[f] \in {0, g}
                /\ entity[f] = 0 => throws[g].type = "Molotov" /\ grenadePos[f].destroyTick # 0
        BY <3>2 DEF GrenInv, FlownInv, Tracked
      <4>. QED
        BY <4>1, <4>2, <4>3
    <3>. QED
      BY <1>a, <3>1, <3>2
  <2>. QED
    BY <1>b, <2>1, <2>2 DEF FlownInv, EntOf, Tracked
<1>7. flown' \subseteq DOMAIN throws'
  BY <1>a, <1>c, <1>1
<1>8. \A i \in DOMAIN detonations' : /\ detonations'[i].gid \in 0 .. Len(throws')
                                     /\ detonations'[i].of \in DOMAIN throws'
                                     /\ detonations'[i].place \in Spots'
  BY <1>b, <1>c, <1>1 DEF Spots
<1>9. GrenadesTypeOK'
  <2>1. LinksInv'
    BY <1>5, <1>7, <1>8 DEF LinksInv
  <2>. QED
    BY <1>3, <1>4, <2>1, GrenTyped, PTL
<1>10. ASSUME NEW i \in DOMAIN detonations PROVE Right(throws', detonations, i)
  <2>1. Right(throws, detonations, i)
    BY RightRows DEF GrenInv, RightInv
  <2>2. i \in Nat \ {0} /\ (detonations[i].gid # 0 => throws'[detonations[i].gid] = throws[detonations[i].gid])
    BY <1>c, <1>1
  <2>. QED
    BY <2>1, <2>2, StaysRight
<1>11. DetonationsAreTheirThrows'
  <2>1. AllApart(detonations)
    BY RightRows DEF GrenInv, RightInv
  <2>2. RightInv'
    BY <1>b, <1>10, <2>1 DEF RightInv
  <2>. QED
    BY <1>9, <2>2, RightRows, PTL
<1>. QED
  BY <1>3, <1>4, <1>6, <1>11 DEF GrenInv

LEMMA DestroyKeeps ==
    ASSUME ClockInv, GrenInv, NEW staying, OnGrenadeDestroy(staying)
    PROVE  GrenInv'
<1>a. PICK e \in Ents :
        /\ entity[e] # 0
        /\ MayVanish(entity[e])
        /\ entity' = [entity EXCEPT ![e] = 0]
        /\ grenadePos' = IF Tracked(e) THEN [grenadePos EXCEPT ![e].destroyTick = tick]
                         ELSE grenadePos
  BY DEF OnGrenadeDestroy
<1>b. UNCHANGED <<flown, throws, detonations>> /\ tick \in 1 .. MaxTick
  BY DEF OnGrenadeDestroy, Parsing, ClockInv, ClockTypeOK, Ticks
<1>c. /\ entity \in [Ents -> 0 .. Len(throws)] /\ Len(throws) \in Nat
      /\ flown \subseteq DOMAIN throws /\ DOMAIN throws = 1 .. Len(throws)
      /\ grenadePos \in [Ents -> {NoProjectile} \cup Entries]
      /\ \A f \in Ents : Tracked(f) => grenadePos[f] \in Entries
      /\ NoProjectile.id = 0
      /\ \A g \in DOMAIN throws : EntOf(g) \in Ents
      /\ \A i \in DOMAIN detonations : /\ detonations[i].gid \in 0 .. Len(throws)
                                       /\ detonations[i].of \in DOMAIN throws
                                       /\ detonations[i].place \in Spots
  BY GrenFacts
<1>1. /\ entity' \in [Ents -> 0 .. Len(throws)]
      /\ entity'[e] = 0 /\ \A f \in Ents : f # e => entity'[f] = entity[f]
  BY <1>a, <1>c
<1>2. /\ grenadePos' \in [Ents -> {NoProjectile} \cup Entries]
      /\ \A f \in Ents : /\ Tracked(f)' <=> Tracked(f)
                         /\ Tracked(f) => /\ grenadePos'[f].id = grenadePos[f].id
                                          /\ grenadePos'[f].gtype = grenadePos[f].gtype
                                          /\ grenadePos'[f].matched = grenadePos[f].matched
                                          /\ f # e => grenadePos'[f] = grenadePos[f]
      /\ Tracked(e) => grenadePos'[e].destroyTick = tick
  <2>1. CASE ~ Tracked(e)
    BY <1>a, <1>c, <2>1 DEF Tracked
  <2>2. CASE Tracked(e)
    <3> DEFINE entry == [grenadePos[e] EXCEPT !.destroyTick = tick]
    <3>1. grenadePos[e] \in Entries /\ tick \in 0 .. MaxTick
      BY <1>b, <1>c, <2>2
    <3>2. /\ entry \in Entries /\ entry.id = grenadePos[e].id /\ entry.gtype = grenadePos[e].gtype
          /\ entry.matched = grenadePos[e].matched /\ entry.destroyTick = tick /\ entry.id # 0
      BY <3>1 DEF Entries
    <3>. HIDE DEF entry
    <3>3. grenadePos' = [grenadePos EXCEPT ![e] = entry]
      BY <1>a, <2>2 DEF entry
    <3>4. grenadePos'[e] = entry /\ \A f \in Ents : f # e => grenadePos'[f] = grenadePos[f]
      BY <1>c, <3>3
    <3>5. entry # NoProjectile
      BY <1>c, <3>2
    <3>. QED
      BY <1>c, <2>2, <3>2, <3>3, <3>4, <3>5 DEF Tracked
  <2>. QED
    BY <2>1, <2>2
<1>3. RowsInv'
  BY <1>b, <1>2 DEF RowsInv, GrenInv
<1>4. EntriesInv'
  <2>1. ASSUME NEW f \in Ents, Tracked(f)
        PROVE  LET id == grenadePos'[f].id
               IN  /\ id \in DOMAIN throws /\ EntOf(id) = f /\ throws[id].type = grenadePos'[f].gtype
                   /\ ~ grenadePos'[f].matched => \A i \in DOMAIN detonations : detonations[i].gid # id
    BY <1>2, <2>1 DEF GrenInv, EntriesInv
  <2>. QED
    BY <1>b, <1>2, <2>1 DEF EntriesInv, EntOf
<1>5. FlownInv'
  <2>1. \A f \in Ents : entity'[f] # 0 => throws'[entity'[f]].ent = f
    BY <1>b, <1>1 DEF GrenInv, FlownInv, EntOf
  <2>2. ASSUME NEW g \in flown
        PROVE  LET f == EntOf(g)
               IN  /\ grenadePos'[f] # NoProjectile /\ grenadePos'[f].id = g
                   /\ grenadePos'[f].matched => throws[g].type = "Molotov" /\ Taken(detonations, g)
                   /\ entity'[f] \in {0, g}
                   /\ entity'[f] = 0 => throws[g].type = "Molotov" /\ grenadePos'[f].destroyTick # 0
    <3>1. LET f == EntOf(g)
          IN  /\ f \in Ents /\ Tracked(f) /\ grenadePos[f].id = g
              /\ grenadePos[f].matched => throws[g].type = "Molotov" /\ Taken(detonations, g)
              /\ entity[f] \in {0, g}
              /\ entity[f] = 0 => throws[g].type = "Molotov" /\ grenadePos[f].destroyTick # 0
      BY <1>c DEF GrenInv, FlownInv
    <3>2. CASE EntOf(g) = e
      <4>1. entity[e] = g
        BY <1>a, <3>1, <3>2
      <4>2. throws[g].type = "Molotov"
        BY <1>a, <4>1 DEF MayVanish
      <4>3. grenadePos'[e] # NoProjectile
        BY <1>2, <3>1, <3>2 DEF Tracked
      <4>. QED
        BY <1>b, <1>1, <1>2, <3>1, <3>2, <4>2, <4>3
    <3>3. CASE EntOf(g) # e
      BY <1>1, <1>2, <3>1, <3>3 DEF Tracked
    <3>. QED
      BY <3>2, <3>3
  <2>. QED
    BY <1>b, <2>1, <2>2 DEF FlownInv, EntOf, Tracked
<1>6. GrenadesTypeOK'
  <2>1. LinksInv'
    BY <1>b, <1>c, <1>1 DEF LinksInv, Spots
  <2>. QED
    BY <1>3, <1>4, <2>1, GrenTyped, PTL
<1>7. DetonationsAreTheirThrows'
  <2>1. RightInv'
    BY <1>b, RightRows DEF GrenInv, RightInv
  <2>. QED
    BY <1>6, <2>1, RightRows, PTL
<1>. QED
  BY <1>3, <1>4, <1>5, <1>7 DEF GrenInv

\* What a detonation claims: a free entry of its type, or none (0).  It is its
\* own one, unless it is a fire that is lost, that claims the number of no
\* projectile in flight, or whose id has been taken.
Astray(e, g, number, spot) ==
    \/ number # EntOf(g) /\ spot # g
    \/ e # 0 /\ e = number /\ \A h \in flown : EntOf(h) # e
    \/ Taken(detonations, g)

ClaimOf(e, g, number, spot) ==
    /\ e \in MatchProjectile(number, throws[g].type, spot)
    /\ e = 0 \/ (e \in Ents /\ Unclaimed(e, throws[g].type))
    /\ e = EntOf(g) \/ (throws[g].type = "Molotov" /\ Astray(e, g, number, spot))

\* emitDetonate, once it is known what is claimed.
Claims(e, g, number, spot) ==
    /\ detonations' = Append(detonations,
         [tick |-> tick, round |-> currentRound, type |-> throws[g].type,
          gid |-> IF e = 0 THEN 0 ELSE grenadePos[e].id,
          place |-> IF e = 0 THEN spot ELSE grenadePos[e].id,
          number |-> number, of |-> g, lost |-> number # EntOf(g) /\ spot # g])
    /\ grenadePos' = IF e = 0 THEN grenadePos ELSE [grenadePos EXCEPT ![e].matched = TRUE]

\* Two projectiles still to go off have two numbers.
LEMMA NumbersApart ==
    ASSUME GrenInv, NEW g \in flown, NEW h \in flown, g # h
    PROVE  EntOf(g) # EntOf(h)
BY DEF GrenInv, FlownInv

LEMMA ClaimKeeps ==
    ASSUME ClockInv, Parsing, GrenInv, NEW g \in flown, NEW number \in {0} \cup Ents,
           NEW spot \in Spots, NEW e, ClaimOf(e, g, number, spot), Claims(e, g, number, spot),
           flown' = flown \ {g}, UNCHANGED <<entity, throws>>
    PROVE  GrenInv'
<1> DEFINE id == IF e = 0 THEN 0 ELSE grenadePos[e].id
           place == IF e = 0 THEN spot ELSE grenadePos[e].id
           lost == number # EntOf(g) /\ spot # g
           row == [tick |-> tick, round |-> currentRound, type |-> throws[g].type,
                   gid |-> id, place |-> place, number |-> number, of |-> g, lost |-> lost]
           n == Len(detonations) + 1
<1>c. /\ entity \in [Ents -> 0 .. Len(throws)] /\ Len(throws) \in Nat
      /\ flown \subseteq DOMAIN throws /\ DOMAIN throws = 1 .. Len(throws)
      /\ \A h \in DOMAIN throws : throws[h] \in ThrowRows /\ EntOf(h) \in Ents
      /\ grenadePos \in [Ents -> {NoProjectile} \cup Entries]
      /\ \A f \in Ents : Tracked(f) => grenadePos[f] \in Entries
      /\ NoProjectile.id = 0 /\ Ents \subseteq Nat \ {0} /\ Spots \subseteq Nat
      /\ detonations \in Seq(DetonationRows) /\ Len(detonations) \in Nat
      /\ DOMAIN detonations = 1 .. Len(detonations)
      /\ \A i \in DOMAIN detonations : /\ detonations[i].gid \in 0 .. Len(throws)
                                       /\ detonations[i].of \in DOMAIN throws
                                       /\ detonations[i].place \in Spots
  BY GrenFacts
<1>1. ASSUME e # 0
      PROVE  /\ e \in Ents /\ Tracked(e) /\ grenadePos[e] \in Entries /\ ~ grenadePos[e].matched
             /\ grenadePos[e].gtype = throws[g].type
             /\ grenadePos[e].id \in DOMAIN throws /\ EntOf(grenadePos[e].id) = e
             /\ throws[grenadePos[e].id].type = throws[g].type
             /\ \A i \in DOMAIN detonations : detonations[i].gid # grenadePos[e].id
  BY <1>1, <1>c DEF ClaimOf, Unclaimed, GrenInv, EntriesInv
<1>2. /\ detonations' = Append(detonations, row)
      /\ grenadePos' = IF e = 0 THEN grenadePos ELSE [grenadePos EXCEPT ![e].matched = TRUE]
  BY DEF Claims
<1>3. /\ id \in 0 .. Len(throws) /\ place \in Spots /\ lost \in BOOLEAN
      /\ e # 0 => id # 0 /\ id = grenadePos[e].id
      /\ e = 0 => id = 0
  BY <1>c, <1>1 DEF Spots
<1>. HIDE DEF id, place, lost
<1>4. /\ row \in DetonationRows /\ row.gid = id /\ row.of = g /\ row.number = number
      /\ row.type = throws[g].type /\ row.place = place /\ row.lost = lost
  <2>1. tick \in Ticks /\ currentRound \in 1 .. MaxRounds
    BY DEF Parsing, ClockInv, ClockTypeOK, Ticks
  <2>2. throws[g].type \in Types /\ id \in Nat /\ place \in Nat /\ g \in Nat
    BY <1>c, <1>3 DEF ThrowRows
  <2>. QED
    BY <1>3, <2>1, <2>2 DEF DetonationRows
<1>. HIDE DEF row, n
<1>5. /\ detonations' \in Seq(DetonationRows) /\ DOMAIN detonations' = 1 .. n
      /\ \A i \in DOMAIN detonations : detonations'[i] = detonations[i]
      /\ detonations'[n] = row /\ n \in DOMAIN detonations'
      /\ \A i \in DOMAIN detonations' : i \in DOMAIN detonations \/ i = n
      /\ DOMAIN detonations \subseteq DOMAIN detonations'
      /\ n \in Nat \ {0} /\ 1 .. (n - 1) = DOMAIN detonations
  BY <1>c, <1>2, <1>4 DEF n
<1>6. /\ grenadePos' \in [Ents -> {NoProjectile} \cup Entries]
      /\ \A f \in Ents : /\ f # e => grenadePos'[f] = grenadePos[f]
                         /\ Tracked(f)' <=> Tracked(f)
                         /\ grenadePos'[f].id = grenadePos[f].id
                         /\ Tracked(f) => /\ grenadePos'[f].gtype = grenadePos[f].gtype
                                          /\ grenadePos'[f].destroyTick = grenadePos[f].destroyTick
      /\ e # 0 => grenadePos'[e].matched
  <2>1. CASE e = 0
    BY <1>c, <1>2, <2>1 DEF Tracked
  <2>2. CASE e # 0
    <3> DEFINE entry == [grenadePos[e] EXCEPT !.matched = TRUE]
    <3>1. /\ entry \in Entries /\ entry.id = grenadePos[e].id /\ entry.gtype = grenadePos[e].gtype
          /\ entry.destroyTick = grenadePos[e].destroyTick /\ entry.matched /\ entry.id # 0
      BY <1>1, <2>2 DEF Entries
    <3>. HIDE DEF entry
    <3>2. grenadePos' = [grenadePos EXCEPT ![e] = entry]
      BY <1>2, <2>2 DEF entry
    <3>3. grenadePos'[e] = entry /\ \A f \in Ents : f # e => grenadePos'[f] = grenadePos[f]
      BY <1>c, <1>1, <2>2, <3>2
    <3>4. entry # NoProjectile
      BY <1>c, <3>1
    <3>. QED
      BY <1>c, <1>1, <2>2, <3>1, <3>2, <3>3, <3>4 DEF Tracked
  <2>. QED
    BY <2>1, <2>2
<1>7. RowsInv'
  BY <1>5, <1>6 DEF RowsInv, GrenInv
<1>8. EntriesInv'
  <2>1. ASSUME NEW f \in Ents, Tracked(f)
        PROVE  LET of == grenadePos'[f].id
               IN  /\ of \in DOMAIN throws /\ EntOf(of) = f /\ throws[of].type = grenadePos'[f].gtype
                   /\ ~ grenadePos'[f].matched => \A i \in DOMAIN detonations' : detonations'[i].gid # of
    <3>1. LET of == grenadePos[f].id
          IN  /\ of \in DOMAIN throws /\ EntOf(of) = f /\ throws[of].type = grenadePos[f].gtype
              /\ ~ grenadePos[f].matched => \A i \in DOMAIN detonations : detonations[i].gid # of
      BY <2>1 DEF GrenInv, EntriesInv
    <3>2. CASE f = e
      BY <1>c, <1>6, <2>1, <3>1, <3>2
    <3>3. CASE f # e
      <4>1. grenadePos[f].id # id
        BY <1>c, <1>1, <1>3, <3>1, <3>3
      <4>. QED
        BY <1>4, <1>5, <1>6, <2>1, <3>1, <3>3, <4>1
    <3>. QED
      BY <3>2, <3>3
  <2>. QED
    BY <1>6, <2>1 DEF EntriesInv, EntOf
<1>9. \A h : Taken(detonations, h) => Taken(detonations', h)
  BY <1>5 DEF Taken
<1>10. FlownInv'
  <2>1. \A f \in Ents : entity'[f] # 0 => throws'[entity'[f]].ent = f
    BY DEF GrenInv, FlownInv, EntOf
  <2>2. ASSUME NEW h \in flown'
        PROVE  LET f == EntOf(h)
               IN  /\ grenadePos'[f] # NoProjectile /\ grenadePos'[f].id = h
                   /\ grenadePos'[f].matched => throws[h].type = "Molotov" /\ Taken(detonations', h)
                   /\ entity[f] \in {0, h}
                   /\ entity[f] = 0 => throws[h].type = "Molotov" /\ grenadePos'[f].destroyTick # 0
    <3>1. h \in flown /\ h # g /\ EntOf(h) \in Ents
      BY <1>c
    <3>2. LET f == EntOf(h)
          IN  /\ Tracked(f) /\ grenadePos[f].id = h
              /\ grenadePos[f].matched => throws[h].type = "Molotov" /\ Taken(detonations, h)
              /\ entity[f] \in {0, h}
              /\ entity[f] = 0 => throws[h].type = "Molotov" /\ grenadePos[f].destroyTick # 0
      BY <3>1 DEF GrenInv, FlownInv
    <3>3. grenadePos'[EntOf(h)].matched => throws[h].type = "Molotov" /\ Taken(detonations', h)
      <4>1. CASE EntOf(h) # e
        BY <1>6, <1>9, <3>1, <3>2, <4>1
      <4>2. CASE EntOf(h) = e
        <5>1. e # 0 /\ id = h
          BY <1>c, <1>3, <3>1, <3>2, <4>2
        <5>2. e # EntOf(g)
          BY <3>1, <4>2, NumbersApart
        <5>3. throws[g].type = "Molotov" /\ (lost \/ Taken(detonations, g))
          BY <3>1, <4>2, <5>2 DEF ClaimOf, Astray, lost
        <5>4. throws[h].type = "Molotov"
          BY <1>1, <1>3, <5>1, <5>3
        <5>5. \E k \in DOMAIN detonations' : detonations'[k].lost
          BY <1>4, <1>5, <5>3 DEF Taken
        <5>6. detonations'[n].gid = h
          BY <1>4, <1>5, <5>1
        <5>. QED
          BY <1>5, <5>4, <5>5, <5>6 DEF Taken
      <4>. QED
        BY <4>1, <4>2
    <3>. QED
      BY <1>6, <3>1, <3>2, <3>3 DEF Tracked
  <2>. QED
    BY <2>1, <2>2 DEF FlownInv, EntOf, Tracked
<1>11. GrenadesTypeOK'
  <2>1. \A i \in DOMAIN detonations' : /\ detonations'[i].gid \in 0 .. Len(throws)
                                       /\ detonations'[i].of \in DOMAIN throws
                                       /\ detonations'[i].place \in Spots
    BY <1>c, <1>3, <1>4, <1>5
  <2>2. LinksInv'
    BY <1>c, <2>1 DEF LinksInv, Spots
  <2>. QED
    BY <1>7, <1>8, <2>2, GrenTyped, PTL
<1>12. ASSUME NEW i \in DOMAIN detonations' PROVE Right(throws, detonations', i)
  <2>1. CASE i \in DOMAIN detonations
    <3>1. Right(throws, detonations, i)
      BY <2>1, RightRows DEF GrenInv, RightInv
    <3>2. i \in Nat \ {0} /\ \A j \in 1 .. i : detonations'[j] = detonations[j]
      <4>1. i \in Nat \ {0} /\ \A j \in 1 .. i : j \in 1 .. Len(detonations)
        BY <1>c, <2>1
      <4>. QED
        BY <1>c, <1>5, <4>1
    <3>. QED
      BY <3>1, <3>2, StaysRight
  <2>2. CASE i = n
    <3>1. id # 0 => throws[id].type = throws[g].type
      BY <1>1, <1>3
    <3>2. CASE e = EntOf(g)
      <4>1. id = g
        BY <1>c, <1>3, <3>2 DEF GrenInv, FlownInv
      <4>. QED
        BY <1>4, <1>5, <2>2, <3>1, <4>1 DEF Right
    <3>3. CASE e # EntOf(g)
      <4>1. throws[g].type = "Molotov" /\ Astray(e, g, number, spot)
        BY <3>3 DEF ClaimOf
      <4>2. \/ lost
            \/ id # 0 /\ throws[id].ent = number
            \/ Taken(detonations, g)
        BY <1>1, <1>3, <4>1 DEF Astray, lost, EntOf
      <4>3. Taken(detonations, g) =>
              /\ \E j \in 1 .. (n - 1) : detonations'[j].gid = g
              /\ \E j \in 1 .. (n - 1) : detonations'[j].lost
        BY <1>5 DEF Taken
      <4>. QED
        BY <1>4, <1>5, <2>2, <3>1, <4>1, <4>2, <4>3 DEF Right
    <3>. QED
      BY <3>2, <3>3
  <2>. QED
    BY <1>5, <2>1, <2>2
<1>13. AllApart(detonations')
  <2>1. AllApart(detonations)
    BY RightRows DEF GrenInv, RightInv
  <2>2. \A i \in DOMAIN detonations : id # 0 => detonations[i].gid # id
    BY <1>1, <1>3
  <2>. QED
    BY <1>4, <1>5, <2>1, <2>2 DEF AllApart
<1>14. DetonationsAreTheirThrows'
  <2>1. RightInv'
    BY <1>12, <1>13 DEF RightInv
  <2>. QED
    BY <1>11, <2>1, RightRows, PTL
<1>. QED
  BY <1>7, <1>8, <1>10, <1>14 DEF GrenInv

\* A grenade that goes off under its own number claims its own entry, wherever
\* its event says that was.
LEMMA OwnClaim ==
    ASSUME GrenInv, NEW g \in flown, throws[g].type # "Molotov", NEW spot
    PROVE  /\ ClaimOf(EntOf(g), g, EntOf(g), spot)
           /\ EmitDetonate(g, EntOf(g), spot) => Claims(EntOf(g), g, EntOf(g), spot)
<1>1. EntOf(g) \in Ents /\ EntOf(g) # 0
  BY GrenFacts
<1>2. Tracked(EntOf(g)) /\ grenadePos[EntOf(g)].id = g /\ ~ grenadePos[EntOf(g)].matched
  BY DEF GrenInv, FlownInv
<1>3. grenadePos[EntOf(g)].gtype = throws[g].type
  BY <1>1, <1>2 DEF GrenInv, EntriesInv
<1>4. Unclaimed(EntOf(g), throws[g].type)
  BY <1>2, <1>3 DEF Unclaimed
<1>5. MatchProjectile(EntOf(g), throws[g].type, spot) = {EntOf(g)}
  BY <1>1, <1>4 DEF MatchProjectile
<1>. QED
  BY <1>1, <1>4, <1>5 DEF ClaimOf, EmitDetonate, Claims

\* A fire that is not lost claims the entry of its own Molotov, the nearest of
\* all, unless that has been claimed or it has got an earlier one's number.
LEMMA FireClaim ==
    ASSUME ClockInv, GrenInv, NEW g \in flown, NEW number \in {0} \cup Ents, NEW spot \in Spots,
           throws[g].type = "Molotov", entity[EntOf(g)] # g,
           tick - grenadePos[EntOf(g)].destroyTick <= Lag,
           \A h \in flown : number # EntOf(h), EmitDetonate(g, number, spot)
    PROVE  \E e : ClaimOf(e, g, number, spot) /\ Claims(e, g, number, spot)
<1> DEFINE own == EntOf(g)
           lately == {e \in Ents : /\ Unclaimed(e, "Molotov")
                                   /\ grenadePos[e].destroyTick # 0
                                   /\ tick - grenadePos[e].destroyTick <= Lag}
           far(e) == Distance(grenadePos[e].id, spot)
           near == {e \in Nearest(lately, spot) : far(e) <= Reach}
<1>c. /\ own \in Ents /\ 0 \notin Ents /\ g \in Nat /\ spot \in Nat /\ Reach \in Nat
      /\ \A e \in Ents : Tracked(e) =>
           grenadePos[e].id \in Nat /\ EntOf(grenadePos[e].id) = e
  <2>1. /\ own \in Ents /\ 0 \notin Ents /\ g \in Nat /\ spot \in Nat
        /\ \A f \in Ents : Tracked(f) => grenadePos[f] \in Entries
    BY GrenFacts
  <2>2. \A e \in Ents : Tracked(e) => grenadePos[e].id \in Nat /\ EntOf(grenadePos[e].id) = e
    BY <2>1 DEF GrenInv, EntriesInv, Entries
  <2>. QED
    BY <2>1, <2>2, GrenadesAssumption
<1>1. PICK e \in MatchProjectile(number, "Molotov", spot) : Claims(e, g, number, spot)
  BY DEF EmitDetonate, Claims
<1>2. SUFFICES /\ e = 0 \/ (e \in Ents /\ Unclaimed(e, "Molotov"))
               /\ e = own \/ Astray(e, g, number, spot)
  BY <1>1 DEF ClaimOf
<1>3. CASE number # 0 /\ Unclaimed(number, "Molotov")
  <2>1. e = number /\ number \in Ents
    BY <1>1, <1>3 DEF MatchProjectile
  <2>. QED
    BY <1>3, <2>1 DEF Astray
<1>4. CASE ~(number # 0 /\ Unclaimed(number, "Molotov"))
  <2>1. MatchProjectile(number, "Molotov", spot) = IF near # {} THEN near ELSE {0}
    BY <1>4 DEF MatchProjectile
  <2>2. /\ e = 0 \/ e \in near
        /\ near # {} => e \in near
    BY <1>1, <2>1
  <2>3. near = {f \in lately : far(f) <= Reach /\ \A h \in lately : far(f) <= far(h)}
    BY DEF Nearest
  <2>4. e = 0 \/ (e \in Ents /\ Unclaimed(e, "Molotov"))
    BY <2>2, <2>3
  <2>5. e = own \/ Astray(e, g, number, spot)
    <3>1. CASE spot # g
      BY <3>1 DEF Astray
    <3>2. CASE spot = g /\ grenadePos[own].matched
      <4>1. Taken(detonations, g)
        BY <3>2 DEF GrenInv, FlownInv
      <4>. QED
        BY <4>1 DEF Astray
    <3>3. CASE spot = g /\ ~ grenadePos[own].matched
      <4>1. /\ Tracked(own) /\ grenadePos[own].id = g /\ grenadePos[own].destroyTick # 0
        BY DEF GrenInv, FlownInv
      <4>2. Unclaimed(own, "Molotov")
        <5>1. grenadePos[own].gtype = throws[g].type
          BY <1>c, <4>1 DEF GrenInv, EntriesInv
        <5>. QED
          BY <3>3, <4>1, <5>1 DEF Unclaimed
      <4>3. own \in lately /\ far(own) = 0
        BY <1>c, <3>3, <4>1, <4>2 DEF Distance
      <4>4. \A f \in lately : far(f) \in Nat /\ (far(f) <= 0 => f = own)
        <5>. SUFFICES ASSUME NEW f \in lately PROVE far(f) \in Nat /\ (far(f) <= 0 => f = own)
          OBVIOUS
        <5>1. Tracked(f) /\ grenadePos[f].id \in Nat /\ EntOf(grenadePos[f].id) = f
          BY <1>c DEF Unclaimed
        <5>2. far(f) \in Nat /\ (far(f) <= 0 => grenadePos[f].id = g)
          BY <1>c, <3>3, <5>1 DEF Distance
        <5>. QED
          BY <5>1, <5>2
      <4>5. 0 <= Reach /\ \A x \in Nat : 0 <= x
        BY <1>c
      <4>. HIDE DEF lately, own, far, near
      <4>6. own \in near
        BY <2>3, <4>3, <4>4, <4>5
      <4>7. far(e) <= 0 /\ e \in lately
        BY <2>2, <2>3, <4>3, <4>6
      <4>. QED
        BY <4>4, <4>7
    <3>. QED
      BY <3>1, <3>2, <3>3
  <2>. QED
    BY <2>4, <2>5
<1>. QED
  BY <1>3, <1>4

LEMMA GrenInvStep ==
    ASSUME BaseInv, GrenInv, [Next]_vars
    PROVE  GrenInv'
<1>a. scene \in Scenes /\ ClockInv /\ scene.types \subseteq Types
  BY ScenesAssumption DEF BaseInv
<1>1. ASSUME NEW taken, OnGrenadeThrow(scene.types, taken) PROVE GrenInv'
  BY <1>a, <1>1, ThrowKeeps
<1>2. ASSUME NEW staying, OnGrenadeDestroy(staying) PROVE GrenInv'
  BY <1>a, <1>2, DestroyKeeps
<1>3. CASE OnHeExplode
  <2>1. PICK g \in flown, spot \in Spots :
          /\ throws[g].type = "HE"
          /\ EmitDetonate(g, EntOf(g), spot) /\ flown' = flown \ {g}
          /\ UNCHANGED <<entity, throws>> /\ Parsing
    BY <1>3 DEF OnHeExplode
  <2>2. EntOf(g) \in {0} \cup Ents
    BY GrenFacts
  <2>3. ClaimOf(EntOf(g), g, EntOf(g), spot) /\ Claims(EntOf(g), g, EntOf(g), spot)
    BY <2>1, OwnClaim
  <2>. QED
    BY <1>a, <2>1, <2>2, <2>3, ClaimKeeps
<1>4. CASE OnFireGrenadeStart
  <2>1. PICK g \in flown, number \in {0} \cup {e \in Ents : entity[e] = 0}, spot \in Spots :
          /\ throws[g].type = "Molotov" /\ entity[EntOf(g)] # g
          /\ tick - grenadePos[EntOf(g)].destroyTick <= Lag
          /\ \A h \in flown : number # EntOf(h)
          /\ EmitDetonate(g, number, spot)
          /\ flown' = flown \ {g} /\ UNCHANGED <<entity, throws>> /\ Parsing
    BY <1>4 DEF OnFireGrenadeStart
  <2>2. number \in {0} \cup Ents
    OBVIOUS
  <2>3. PICK e : ClaimOf(e, g, number, spot) /\ Claims(e, g, number, spot)
    BY <1>a, <2>1, <2>2, FireClaim
  <2>. QED
    BY <1>a, <2>1, <2>2, <2>3, ClaimKeeps
<1>5. CASE GoesOut
  <2>1. flown' \subseteq flown /\ UNCHANGED <<entity, throws, grenadePos, detonations>>
    BY <1>5 DEF GoesOut
  <2>. QED
    BY <2>1 DEF GrenInv, RowsInv, EntriesInv, FlownInv, DetonationsAreTheirThrows, GrenadesTypeOK,
                Tracked, EntOf, Excused, Spots
<1>6. ASSUME NEW outcomes, OnSmokeStart(outcomes) PROVE GrenInv'
  <2>1. PICK e \in Ents, spot \in Spots :
          /\ entity[e] \in flown /\ throws[entity[e]].type = "Smoke"
          /\ EmitDetonate(entity[e], e, spot)
          /\ flown' = flown \ {entity[e]}
          /\ UNCHANGED <<entity, throws>> /\ Parsing
    BY <1>6 DEF OnSmokeStart
  <2>2. entity[e] # 0
    BY <2>1, GrenFacts
  <2>3. EntOf(entity[e]) = e
    BY <2>2 DEF GrenInv, FlownInv
  <2>4. ClaimOf(e, entity[e], e, spot) /\ Claims(e, entity[e], e, spot)
    BY <2>1, <2>3, OwnClaim
  <2>. QED
    BY <1>a, <2>1, <2>4, ClaimKeeps
<1>7. CASE RoundStartGrenades
  <2>1. /\ entity' = [e \in Ents |-> 0] /\ flown' = {}
        /\ UNCHANGED <<throws, grenadePos, detonations>>
    BY <1>7 DEF RoundStartGrenades
  <2>2. 0 \in 0 .. Len(throws)
    BY GrenFacts
  <2>. QED
    BY <2>1, <2>2 DEF GrenInv, RowsInv, EntriesInv, FlownInv, DetonationsAreTheirThrows,
                      GrenadesTypeOK, Tracked, EntOf, Excused, Spots
<1>8. CASE UNCHANGED grenadeVars
  BY <1>8 DEF grenadeVars, GrenInv, RowsInv, EntriesInv, FlownInv, DetonationsAreTheirThrows,
              GrenadesTypeOK, Tracked, EntOf, Excused, Spots
<1>. QED
  BY <1>a, <1>1, <1>2, <1>3, <1>4, <1>5, <1>6, <1>7, <1>8, GrenSteps

LEMMA GrenAlways == Spec => []GrenInv
<1>1. Init => GrenInv
  BY GrenInvInit DEF Init
<1>2. BaseInv /\ GrenInv /\ [Next]_vars => GrenInv'
  BY GrenInvStep
<1>. QED
  BY <1>1, <1>2, BaseAlways, PTL DEF Spec

\* DetonationsAreTheirThrows: wherever events say that things went off, no throw
\* has two detonations, and a detonation bears the id of its own throw, unless
\* it is a fire: of one that was lost, of one with the number of an earlier
\* Molotov, or of one whose entry an earlier lost one's claims have cost it
\* (matchProjectile, emitDetonate).
THEOREM DetonationsOfThrows == Spec => []DetonationsAreTheirThrows
<1>1. GrenInv => DetonationsAreTheirThrows
  BY DEF GrenInv
<1>. QED
  BY <1>1, GrenAlways, PTL

-----------------------------------------------------------------------------
(* Bombs. *)

BombEvents == {step[2] : step \in Steps} \cup {"planted", "exploded"}
BombRows == [tick : Ticks, type : BombEvents, at : Sites \cup {Nowhere}, real : Sites \cup {Nowhere}]

\* The last plant of the whole list is this round's while the bomb is planted.
PlantInv ==
    bomb \in {"planted", "defusing"} =>
      \E i \in Plants : bombs[i].at \in {Nowhere, planted} /\ \A j \in Plants : j <= i

BombInv ==
    /\ bombs \in Seq(BombRows)
    /\ PlantInv
    /\ BlastsAreTheRounds

\* How the bombs move.
LEMMA BombSteps ==
    ASSUME scene \in Scenes, [Next]_vars
    PROVE  \/ (OnBombStep \/ OnBombPlanted \/ OnBombExplode) /\ UNCHANGED clock
           \/ /\ OnHeExplode /\ LET d == detonations'[Len(detonations')] IN HeBlast(- d.place, - d.of)
              /\ UNCHANGED clock
           \/ RoundStartBombs
           \/ UNCHANGED bombVars /\ UNCHANGED currentRound
<1>1. CASE GameFires
  BY <1>1 DEF GameFires, FireBullet, clock, sites, clock
<1>2. CASE Hurt
  BY <1>2 DEF Hurt, OnPlayerHurt, OnLateHurt, clock, sites, clock
<1>3. CASE Kill
  BY <1>3 DEF Kill, OnKill, clock, sites, clock
<1>4. CASE WeaponFire
  BY <1>4 DEF WeaponFire, OnWeaponFire, clock, sites, clock
<1>5. CASE SpottersChanged
  BY <1>5 DEF SpottersChanged, OnPlayerSpottersChanged, clock, sites, clock
<1>6. CASE GrenadeThrow
  BY <1>6 DEF GrenadeThrow, sites, clock
<1>7. CASE GrenadeDestroy
  BY <1>7 DEF GrenadeDestroy, sites, clock
<1>8. CASE HeExplode
  BY <1>8 DEF HeExplode, sites, clock
<1>9. CASE FireGrenadeStart
  BY <1>9 DEF FireGrenadeStart, sites, clock
<1>10. CASE BombEvent
  BY <1>10 DEF BombEvent, sites, clock
<1>11. CASE Fire
  BY <1>11 DEF Fire, sites, clock
<1>12. CASE SmokeStart
  BY <1>12 DEF SmokeStart, sites, clock
<1>13. CASE SmokeExpired
  BY <1>13 DEF SmokeExpired, sites, clock
<1>14. CASE FrameDone
  BY <1>14, ScenesAssumption DEF FrameDone, sites, clock, ClockFrame
<1>15. CASE RoundStart
  BY <1>15 DEF RoundStart, sites, clock
<1>16. CASE FreezetimeEnd
  BY <1>16 DEF FreezetimeEnd, sites, clock, ClockFreezeEnd
<1>17. CASE EndOfficial
  BY <1>17 DEF EndOfficial, sites, clock, ClockEndOfficial
<1>18. CASE Finalize
  BY <1>18 DEF Finalize, sites, clock, ClockFinalize
<1>19. CASE Replays
  BY <1>19 DEF Replays, sites, clock
<1>20. CASE Others
  BY <1>20 DEF Others, sites, clock
<1>21. CASE Returned
  BY <1>21 DEF Returned, vars, sites, clock, bombVars
<1>22. CASE UNCHANGED vars
  BY <1>22 DEF vars, sites, clock
<1>. QED
  BY <1>1, <1>2, <1>3, <1>4, <1>5, <1>6, <1>7, <1>8, <1>9, <1>10, <1>11, <1>12, <1>13, <1>14, <1>15, <1>16, <1>17, <1>18, <1>19, <1>20, <1>21,
     <1>22 DEF Next

LEMMA BombInvInit == BombsInit => BombInv
<1>. SUFFICES ASSUME BombsInit PROVE BombInv
  OBVIOUS
<1>1. /\ bombs = <<>> /\ bombs \in Seq(BombRows) /\ Len(bombs) = 0 /\ DOMAIN bombs = {}
      /\ blasts = {} /\ exploded = {} /\ bomb = "carried" /\ planted = Nowhere
  BY EmptySeq DEF BombsInit
<1>2. BlastsAreTheRounds
  BY <1>1, BombsAssumption DEF BlastsAreTheRounds, BombsTypeOK
<1>. QED
  BY <1>1, <1>2 DEF BombInv, PlantInv

\* A row is added at the end, and disturbs no other.
LEMMA RowKeeps ==
    ASSUME BombInv, tick \in Ticks, NEW type \in BombEvents, NEW at \in Sites \cup {Nowhere},
           planted' \in Sites \cup {Nowhere},
           Row(type, at), type \in {"planted", "exploded"} => at \in {Nowhere, planted'}
    PROVE  /\ bombs' \in Seq(BombRows) /\ Len(bombs') \in Nat /\ Len(bombs') <= MaxBombs
           /\ DOMAIN bombs' = 1 .. Len(bombs') /\ DOMAIN bombs \subseteq DOMAIN bombs'
           /\ bombs'[Len(bombs')].at = at /\ bombs'[Len(bombs')].type = type
           /\ Plants \subseteq DOMAIN bombs /\ \A i \in Plants : i < Len(bombs')
           /\ \A i \in DOMAIN bombs : bombs'[i] = bombs[i]
           /\ Plants' = IF type = "planted" THEN Plants \cup {Len(bombs')} ELSE Plants
           /\ \A i \in DOMAIN bombs' : bombs'[i] \in BombRows
           /\ \A i \in DOMAIN bombs' : /\ bombs'[i].at \in Sites \cup {Nowhere}
                                       /\ bombs'[i].tick \in Ticks
           /\ \A i \in DOMAIN bombs' :
                bombs'[i].type = "exploded" => bombs'[i].at \in {Nowhere, bombs'[i].real}
<1> DEFINE row == [tick |-> tick, type |-> type, at |-> at, real |-> planted']
<1>1. bombs \in Seq(BombRows) /\ Len(bombs) \in Nat /\ DOMAIN bombs = 1 .. Len(bombs)
  BY DEF BombInv
<1>2. row \in BombRows /\ row.at = at /\ row.type = type /\ row.real = planted'
  BY DEF BombRows
<1>3. Len(bombs) < MaxBombs /\ bombs' = Append(bombs, row)
  BY DEF Row
<1>. HIDE DEF row
<1>4. /\ bombs' \in Seq(BombRows) /\ Len(bombs') = Len(bombs) + 1
      /\ DOMAIN bombs' = 1 .. Len(bombs')
      /\ \A i \in DOMAIN bombs : bombs'[i] = bombs[i]
      /\ bombs'[Len(bombs')] = row
  BY <1>1, <1>2, <1>3
<1>5. /\ DOMAIN bombs \subseteq DOMAIN bombs' /\ \A i \in DOMAIN bombs : i < Len(bombs')
      /\ \A i \in DOMAIN bombs' : i \in DOMAIN bombs \/ i = Len(bombs')
      /\ Len(bombs') \in DOMAIN bombs'
  BY <1>1, <1>4
<1>6. Len(bombs') <= MaxBombs
  BY <1>1, <1>3, <1>4, BombsAssumption
<1>7. \A i \in DOMAIN bombs' : bombs'[i] \in BombRows
  BY <1>4
<1>8. \A i \in DOMAIN bombs' : /\ bombs'[i].at \in Sites \cup {Nowhere}
                               /\ bombs'[i].tick \in Ticks
  BY <1>7 DEF BombRows
<1>9. \A i \in DOMAIN bombs' :
        bombs'[i].type = "exploded" => bombs'[i].at \in {Nowhere, bombs'[i].real}
  <2>. SUFFICES ASSUME NEW i \in DOMAIN bombs', bombs'[i].type = "exploded"
                PROVE  bombs'[i].at \in {Nowhere, bombs'[i].real}
    OBVIOUS
  <2>1. CASE i \in DOMAIN bombs
    BY <1>4, <2>1 DEF BombInv, BlastsAreTheRounds
  <2>2. CASE i = Len(bombs')
    BY <1>2, <1>4, <2>2
  <2>. QED
    BY <1>5, <2>1, <2>2
<1>10. Plants' = IF type = "planted" THEN Plants \cup {Len(bombs')} ELSE Plants
  BY <1>2, <1>4, <1>5 DEF Plants
<1>. QED
  BY <1>1, <1>2, <1>4, <1>5, <1>6, <1>7, <1>8, <1>9, <1>10 DEF Plants

\* What is recovered from the list is where the bomb is, or nothing.
LEMMA LastPlantIsTheBombs ==
    ASSUME BombInv, bomb \in {"planted", "defusing"}
    PROVE  LastPlantPos \in {Nowhere, planted}
<1>1. PICK i \in Plants : bombs[i].at \in {Nowhere, planted} /\ \A j \in Plants : j <= i
  BY DEF BombInv, PlantInv
<1>2. Plants \subseteq Nat
  BY DEF BombInv, Plants
<1>3. \A k \in Plants : (\A j \in Plants : j <= k) => k = i
  BY <1>1, <1>2
<1>4. (CHOOSE k \in Plants : \A j \in Plants : j <= k) = i
  BY <1>1, <1>3
<1>. QED
  BY <1>1, <1>4 DEF LastPlantPos

\* The explosions that blasts are of.
ExplosionsOf(bs) == {[at |-> x.at, tick |-> x.tick] : x \in bs}

LEMMA OneMoreBlast ==
    \A S, T : ExplosionsOf(S \cup T) = ExplosionsOf(S) \cup ExplosionsOf(T)
BY DEF ExplosionsOf

LEMMA BombInvStep ==
    ASSUME BaseInv, GrenInv, BombInv, [Next]_vars
    PROVE  BombInv'
<1>a. scene \in Scenes /\ (Parsing => tick \in Ticks)
  BY DEF BaseInv, ClockInv, ClockTypeOK, Parsing, Ticks
<1>b. /\ planted \in Sites \cup {Nowhere} /\ Len(bombs) <= MaxBombs
      /\ \A i \in DOMAIN bombs : bombs[i].at \in Sites \cup {Nowhere} /\ bombs[i].tick \in Ticks
      /\ ExplosionsOf(blasts) = exploded
      /\ \A x \in blasts : x.round = currentRound
      /\ \A i \in DOMAIN bombs : bombs[i].type = "exploded" => bombs[i].at \in {Nowhere, bombs[i].real}
      /\ bomb \in {"carried", "dropped", "planting", "planted", "defusing", "over"}
  BY DEF BombInv, BlastsAreTheRounds, BombsTypeOK, ExplosionsOf
<1>1. ASSUME OnBombStep, UNCHANGED clock PROVE BombInv'
  <2>1. PICK step \in Steps : /\ bomb = step[1] /\ bomb' = step[3] /\ Row(step[2], Nowhere)
                              /\ UNCHANGED <<planted, blasts, exploded>> /\ Parsing
    BY <1>1 DEF OnBombStep
  <2>2. step[2] \in BombEvents
    BY DEF BombEvents
  <2>3. /\ step[2] \notin {"planted", "exploded"}
        /\ step[3] \in {"carried", "dropped", "planting", "planted", "defusing", "over"}
        /\ step[3] \in {"planted", "defusing"} => step[1] \in {"planted", "defusing"}
    BY DEF Steps
  <2>4. /\ bombs' \in Seq(BombRows) /\ Len(bombs') <= MaxBombs /\ Plants' = Plants
        /\ Plants \subseteq DOMAIN bombs /\ \A i \in DOMAIN bombs : bombs'[i] = bombs[i]
        /\ \A i \in DOMAIN bombs' : bombs'[i].at \in Sites \cup {Nowhere} /\ bombs'[i].tick \in Ticks
        /\ \A i \in DOMAIN bombs' :
             bombs'[i].type = "exploded" => bombs'[i].at \in {Nowhere, bombs'[i].real}
    BY <1>a, <1>b, <2>1, <2>2, <2>3, RowKeeps
  <2>5. PlantInv'
    BY <2>1, <2>3, <2>4 DEF BombInv, PlantInv
  <2>6. BlastsAreTheRounds'
    BY <1>b, <1>1, <2>1, <2>3, <2>4 DEF BlastsAreTheRounds, BombsTypeOK, ExplosionsOf, clock
  <2>. QED
    BY <2>4, <2>5, <2>6 DEF BombInv
<1>2. ASSUME OnBombPlanted, UNCHANGED clock PROVE BombInv'
  <2>1. PICK at \in Sites : /\ planted' = at /\ \E seen \in LiveBombPos(at) : Row("planted", seen.at)
                            /\ bomb' = "planted" /\ UNCHANGED <<blasts, exploded>> /\ Parsing
    BY <1>2 DEF OnBombPlanted
  <2>2. PICK there \in {Nowhere, at} : Row("planted", there)
    BY <2>1 DEF LiveBombPos
  <2>3. "planted" \in BombEvents
    BY DEF BombEvents
  <2>4. /\ bombs' \in Seq(BombRows) /\ Len(bombs') \in Nat /\ Len(bombs') <= MaxBombs
        /\ Plants' = Plants \cup {Len(bombs')}
        /\ bombs'[Len(bombs')].at = there
        /\ \A i \in Plants : i < Len(bombs')
        /\ Plants \subseteq DOMAIN bombs /\ \A i \in DOMAIN bombs : bombs'[i] = bombs[i]
        /\ \A i \in DOMAIN bombs' : bombs'[i].at \in Sites \cup {Nowhere} /\ bombs'[i].tick \in Ticks
        /\ \A i \in DOMAIN bombs' :
             bombs'[i].type = "exploded" => bombs'[i].at \in {Nowhere, bombs'[i].real}
    BY <1>a, <1>b, <2>1, <2>2, <2>3, RowKeeps
  <2>5. Plants \subseteq Nat
    BY DEF BombInv, Plants
  <2>6. PlantInv'
    <3>1. \A j \in Plants' : j <= Len(bombs')
      BY <2>4, <2>5
    <3>. QED
      BY <2>1, <2>2, <2>4, <3>1 DEF PlantInv
  <2>7. BlastsAreTheRounds'
    BY <1>b, <1>2, <2>1, <2>4 DEF BlastsAreTheRounds, BombsTypeOK, ExplosionsOf, clock
  <2>. QED
    BY <2>4, <2>6, <2>7 DEF BombInv
<1>3. ASSUME OnBombExplode, UNCHANGED clock PROVE BombInv'
  <2>1. PICK at \in {Nowhere, planted} :
          /\ RecordBlast(at) /\ Row("exploded", at)
          /\ exploded' = IF at = Nowhere THEN exploded
                         ELSE exploded \cup {[at |-> planted, tick |-> tick]}
          /\ UNCHANGED planted /\ Parsing /\ bomb' = "over"
    <3>1. bomb \in {"planted", "defusing"}
      BY <1>3 DEF OnBombExplode
    <3>2. LastPlantPos \in {Nowhere, planted}
      BY <3>1, LastPlantIsTheBombs
    <3>3. PICK seen \in LiveBombPos(planted) :
            LET at == IF seen.ok THEN seen.at ELSE LastPlantPos
            IN  /\ RecordBlast(at) /\ Row("exploded", at)
                /\ exploded' = IF at = Nowhere THEN exploded
                               ELSE exploded \cup {[at |-> planted, tick |-> tick]}
      BY <1>3 DEF OnBombExplode
    <3>4. (IF seen.ok THEN seen.at ELSE LastPlantPos) \in {Nowhere, planted}
      BY <3>2 DEF LiveBombPos
    <3>. QED
      BY <1>3, <3>3, <3>4 DEF OnBombExplode
  <2>2. "exploded" \in BombEvents /\ at \in Sites \cup {Nowhere}
    BY <1>b DEF BombEvents
  <2>3. /\ bombs' \in Seq(BombRows) /\ Len(bombs') <= MaxBombs
        /\ \A i \in DOMAIN bombs' : bombs'[i].at \in Sites \cup {Nowhere} /\ bombs'[i].tick \in Ticks
        /\ \A i \in DOMAIN bombs' :
             bombs'[i].type = "exploded" => bombs'[i].at \in {Nowhere, bombs'[i].real}
    BY <1>a, <1>b, <2>1, <2>2, RowKeeps
  <2>4. /\ ExplosionsOf(blasts') = exploded'
        /\ \A x \in blasts' : x.round = currentRound
    <3>1. CASE at = Nowhere
      BY <1>b, <2>1, <3>1 DEF RecordBlast
    <3>2. CASE at # Nowhere
      <4>1. /\ blasts' = blasts \cup {[at |-> planted, tick |-> tick, round |-> currentRound]}
            /\ exploded' = exploded \cup {[at |-> planted, tick |-> tick]}
        BY <2>1, <3>2 DEF RecordBlast
      <4>2. ExplosionsOf(blasts') = exploded'
        <5> DEFINE new == [at |-> planted, tick |-> tick, round |-> currentRound]
        <5>1. ExplosionsOf({new}) = {[at |-> planted, tick |-> tick]}
          BY DEF ExplosionsOf
        <5>2. ExplosionsOf(blasts \cup {new}) = ExplosionsOf(blasts) \cup ExplosionsOf({new})
          BY OneMoreBlast
        <5>. QED
          BY <1>b, <4>1, <5>1, <5>2
      <4>3. \A x \in blasts' : x.round = currentRound
        BY <1>b, <4>1
      <4>. QED
        BY <4>2, <4>3
    <3>. QED
      BY <3>1, <3>2
  <2>5. BlastsAreTheRounds'
    BY <1>b, <1>3, <2>1, <2>3, <2>4 DEF BlastsAreTheRounds, BombsTypeOK, ExplosionsOf, clock
  <2>. QED
    BY <2>1, <2>3, <2>5 DEF BombInv, PlantInv
<1>4. ASSUME OnHeExplode, LET d == detonations'[Len(detonations')] IN HeBlast(- d.place, - d.of),
             UNCHANGED clock
      PROVE  BombInv'
  <2>1. PICK g \in flown, spot \in Spots : EmitDetonate(g, EntOf(g), spot) /\ throws[g].type = "HE"
    BY <1>4 DEF OnHeExplode
  <2>2. /\ g \in Nat \ {0} /\ Len(detonations) \in Nat
        /\ EntOf(g) \in Ents /\ EntOf(g) # 0
    BY GrenFacts
  <2>3. PICK row : detonations' = Append(detonations, row) /\ row.of = g /\ row.place = g
    <3>1. Claims(EntOf(g), g, EntOf(g), spot)
      BY <2>1, OwnClaim
    <3>2. grenadePos[EntOf(g)].id = g
      BY DEF GrenInv, FlownInv
    <3>. QED
      BY <2>2, <3>1, <3>2 DEF Claims
  <2>4. detonations'[Len(detonations')] = row
    <3>1. detonations \in Seq(DetonationRows)
      BY GrenFacts
    <3>. QED
      BY <2>3, <3>1, AppendProperties
  <2>5. HeBlast(- g, - g) /\ - g # Nowhere
    BY <1>4, <2>2, <2>3, <2>4 DEF Nowhere
  <2>6. /\ blasts' = blasts \cup {[at |-> - g, tick |-> tick, round |-> currentRound]}
        /\ exploded' = exploded \cup {[at |-> - g, tick |-> tick]}
        /\ UNCHANGED <<bomb, planted, bombs>>
    BY <1>4, <2>5 DEF HeBlast, RecordBlast
  <2>7. /\ ExplosionsOf(blasts') = exploded'
        /\ \A x \in blasts' : x.round = currentRound
    <3>1. ExplosionsOf(blasts') = exploded'
      <4> DEFINE new == [at |-> - g, tick |-> tick, round |-> currentRound]
      <4>1. ExplosionsOf({new}) = {[at |-> - g, tick |-> tick]}
        BY DEF ExplosionsOf
      <4>2. ExplosionsOf(blasts \cup {new}) = ExplosionsOf(blasts) \cup ExplosionsOf({new})
        BY OneMoreBlast
      <4>. QED
        BY <1>b, <2>6, <4>1, <4>2
    <3>2. \A x \in blasts' : x.round = currentRound
      BY <1>b, <2>6
    <3>. QED
      BY <3>1, <3>2
  <2>8. BlastsAreTheRounds'
    BY <1>b, <1>4, <2>6, <2>7 DEF BlastsAreTheRounds, BombsTypeOK, ExplosionsOf, clock
  <2>. QED
    BY <2>6, <2>8 DEF BombInv, PlantInv, Plants
<1>5. CASE RoundStartBombs
  <2>1. blasts' = {} /\ exploded' = {} /\ bomb' = "carried" /\ planted' = Nowhere /\ bombs' = bombs
    BY <1>5 DEF RoundStartBombs, ForgetBlasts
  <2>2. BlastsAreTheRounds'
    BY <1>b, <2>1 DEF BlastsAreTheRounds, BombsTypeOK, ExplosionsOf
  <2>. QED
    BY <2>1, <2>2 DEF BombInv, PlantInv
<1>6. CASE UNCHANGED bombVars /\ UNCHANGED currentRound
  <2>1. BlastsAreTheRounds'
    BY <1>b, <1>6 DEF bombVars, BlastsAreTheRounds, BombsTypeOK, ExplosionsOf
  <2>. QED
    BY <1>6, <2>1 DEF bombVars, BombInv, PlantInv, Plants
<1>. QED
  BY <1>a, <1>1, <1>2, <1>3, <1>4, <1>5, <1>6, BombSteps

\* BlastsAreTheRounds: the blasts that hold smoke open are the explosions of
\* this round, each where it was, although a bomb's place may have to be taken
\* from the list of every round (onBombExplode, lastPlantPos, recordBlast).
THEOREM BlastsOfTheRound == Spec => []BlastsAreTheRounds
<1>1. Init => BombInv
  BY BombInvInit DEF Init
<1>2. BaseInv /\ GrenInv /\ BombInv /\ [Next]_vars => BombInv'
  BY BombInvStep
<1>3. BombInv => BlastsAreTheRounds
  BY DEF BombInv
<1>. QED
  BY <1>1, <1>2, <1>3, BaseAlways, GrenAlways, PTL DEF Spec

-----------------------------------------------------------------------------
(* Infernos. *)

\* The looks are less far apart than this.
Apart == InfernoEvery + MaxGap - 1

LooksInv ==
    /\ lastInfernoSample \in 0 .. MaxTick
    /\ lastInfernoSample < tick /\ tick - lastInfernoSample <= Apart

LitRows == [burns : BOOLEAN, first : 0 .. MaxTick, last : 0 .. MaxTick, round : 1 .. MaxRounds]

\* What burns is in an inferno that is there, and those are of this round.
FlamesInv ==
    /\ lit \in [Lit -> LitRows] /\ Lit \subseteq Flames
    /\ \A f \in Lit : /\ lit[f].first <= lit[f].last /\ lit[f].last < tick
                      /\ lit[f].first = 0 => lit[f].last = 0
                      /\ lit[f].burns => f[1] \in present
    /\ \A id \in present : Of(id) # {} /\ \A f \in Of(id) : lit[f].round = currentRound

KnownInv ==
    \A id \in DOMAIN infernos :
      /\ infernos[id] \in 1 .. MaxRounds
      /\ Of(id) # {} /\ \A f \in Of(id) : lit[f].round = infernos[id]

\* A flame that is known and still burns was seen at the last look; one that
\* burns and is not known was lit after it.
FiresInv ==
    /\ DOMAIN fires \subseteq Lit
    /\ \A f \in DOMAIN fires :
         /\ fires[f] \in [first : Ticks, last : Ticks]
         /\ lit[f].first # 0
         /\ lit[f].first <= fires[f].first /\ fires[f].first - lit[f].first < Apart
         /\ fires[f].last <= lit[f].last /\ lit[f].last - fires[f].last < Apart
         /\ lit[f].burns => fires[f].last = lastInfernoSample
         /\ ~ finalized => f[1] \in DOMAIN infernos
    /\ \A f \in Lit \ DOMAIN fires :
         /\ lit[f].last - lit[f].first < Apart
         /\ lit[f].burns /\ lit[f].first # 0 => lit[f].first > lastInfernoSample

EmittedInv ==
    /\ ~ finalized => emitted = {}
    /\ finalized => \A f \in DOMAIN fires : \E e \in emitted : e.id = f[1] /\ f \in e.fires
    /\ \A e \in emitted :
         /\ e.fires \subseteq DOMAIN fires
         /\ \A f \in e.fires :
              /\ e.round = lit[f].round
              /\ \E g, h \in e.fires : /\ lit[g].first <= e.first /\ e.first <= fires[f].first
                                       /\ e.last <= lit[h].last /\ e.last >= fires[f].last

InfernoInv == LooksInv /\ FlamesInv /\ KnownInv /\ FiresInv /\ EmittedInv

\* How the infernos move.
LEMMA InfernoSteps ==
    ASSUME scene \in Scenes, [Next]_vars
    PROVE  \/ Light(scene.flames) /\ UNCHANGED clock
           \/ (PutOut \/ RemoveInferno) /\ UNCHANGED clock
           \/ TrackInfernos /\ \E gap \in 1 .. MaxGap : ClockFrame(gap)
           \/ RoundStartInfernos /\ ClockRoundStart
           \/ FlushInfernos /\ ClockFinalize
           \/ UNCHANGED infernoVars /\ UNCHANGED <<tick, currentRound, finalized>>
<1>1. CASE GameFires
  BY <1>1 DEF GameFires, FireBullet, clock, sites, clock
<1>2. CASE Hurt
  BY <1>2 DEF Hurt, OnPlayerHurt, OnLateHurt, clock, sites, clock
<1>3. CASE Kill
  BY <1>3 DEF Kill, OnKill, clock, sites, clock
<1>4. CASE WeaponFire
  BY <1>4 DEF WeaponFire, OnWeaponFire, clock, sites, clock
<1>5. CASE SpottersChanged
  BY <1>5 DEF SpottersChanged, OnPlayerSpottersChanged, clock, sites, clock
<1>6. CASE GrenadeThrow
  BY <1>6 DEF GrenadeThrow, sites, clock
<1>7. CASE GrenadeDestroy
  BY <1>7 DEF GrenadeDestroy, sites, clock
<1>8. CASE HeExplode
  BY <1>8 DEF HeExplode, sites, clock
<1>9. CASE FireGrenadeStart
  BY <1>9 DEF FireGrenadeStart, sites, clock
<1>10. CASE BombEvent
  BY <1>10 DEF BombEvent, sites, clock
<1>11. CASE Fire
  BY <1>11 DEF Fire, sites, clock
<1>12. CASE SmokeStart
  BY <1>12 DEF SmokeStart, sites, clock
<1>13. CASE SmokeExpired
  BY <1>13 DEF SmokeExpired, sites, clock
<1>14. CASE FrameDone
  BY <1>14, ScenesAssumption DEF FrameDone, sites, clock
<1>15. CASE RoundStart
  BY <1>15 DEF RoundStart, sites, clock
<1>16. CASE FreezetimeEnd
  BY <1>16 DEF FreezetimeEnd, sites, clock, ClockFreezeEnd
<1>17. CASE EndOfficial
  BY <1>17 DEF EndOfficial, sites, clock, ClockEndOfficial
<1>18. CASE Finalize
  BY <1>18 DEF Finalize, sites, clock
<1>19. CASE Replays
  BY <1>19 DEF Replays, sites, clock
<1>20. CASE Others
  BY <1>20 DEF Others, sites, clock
<1>21. CASE Returned
  BY <1>21 DEF Returned, vars, sites, clock, infernoVars
<1>22. CASE UNCHANGED vars
  BY <1>22 DEF vars, sites, clock
<1>. QED
  BY <1>1, <1>2, <1>3, <1>4, <1>5, <1>6, <1>7, <1>8, <1>9, <1>10, <1>11, <1>12, <1>13, <1>14, <1>15, <1>16, <1>17, <1>18, <1>19, <1>20, <1>21,
     <1>22 DEF Next

\* What InfernoInv and ClockInv say, taken apart.
LEMMA InfernoFacts ==
    ASSUME ClockInv, InfernoInv
    PROVE  /\ lit \in [Lit -> LitRows] /\ Lit \subseteq Flames
           /\ \A f \in Lit : /\ lit[f] \in LitRows
                             /\ lit[f].first \in Nat /\ lit[f].last \in Nat
                             /\ lit[f].round \in 1 .. MaxRounds
                             /\ lit[f].first <= lit[f].last /\ lit[f].last < tick
           /\ DOMAIN fires \subseteq Lit
           /\ \A f \in DOMAIN fires : /\ fires[f] \in [first : Ticks, last : Ticks]
                                      /\ fires[f].first \in Nat /\ fires[f].last \in Nat
           /\ tick \in Nat /\ lastInfernoSample \in Nat /\ currentRound \in 1 .. MaxRounds
           /\ (Parsing => tick \in Ticks) /\ Apart \in Nat \ {0}
           /\ MaxGap \in Nat \ {0} /\ InfernoEvery \in Nat \ {0}
<1>1. \A f \in Lit : lit[f] \in LitRows
  BY DEF InfernoInv, FlamesInv
<1>2. \A f \in Lit : /\ lit[f].first \in Nat /\ lit[f].last \in Nat /\ lit[f].round \in 1 .. MaxRounds
  BY <1>1, ClockAssumption DEF LitRows
<1>3. \A f \in DOMAIN fires : fires[f] \in [first : Ticks, last : Ticks]
  BY DEF InfernoInv, FiresInv
<1>4. \A f \in DOMAIN fires : fires[f].first \in Nat /\ fires[f].last \in Nat
  BY <1>3 DEF Ticks
<1>5. /\ tick \in Nat /\ lastInfernoSample \in Nat /\ currentRound \in 1 .. MaxRounds
      /\ (Parsing => tick \in Ticks)
  BY ClockAssumption DEF ClockInv, ClockTypeOK, InfernoInv, LooksInv, Parsing, Ticks
<1>6. MaxGap \in Nat \ {0} /\ InfernoEvery \in Nat \ {0} /\ Apart \in Nat \ {0}
  BY ClockAssumption, InfernosAssumption DEF Apart
<1>. QED
  BY <1>1, <1>2, <1>3, <1>4, <1>5, <1>6 DEF InfernoInv, FlamesInv, FiresInv

LEMMA InfernoInvInit == ClockInit /\ InfernosInit => InfernoInv
<1>. SUFFICES ASSUME ClockInit, InfernosInit PROVE InfernoInv
  OBVIOUS
<1>1. /\ tick = 1 /\ lastInfernoSample = 0 /\ lit = <<>> /\ Lit = {} /\ present = {}
      /\ infernos = <<>> /\ DOMAIN infernos = {} /\ DOMAIN fires = {} /\ emitted = {} /\ ~ finalized
  BY DEF ClockInit, InfernosInit, Lit
<1>2. LooksInv
  BY <1>1, ClockAssumption, InfernosAssumption DEF LooksInv, Apart
<1>3. lit \in [Lit -> LitRows]
  <2>1. lit \in Seq(LitRows) /\ Len(lit) = 0
    BY <1>1, EmptySeq
  <2>2. lit \in [1 .. Len(lit) -> LitRows]
    BY <2>1, LenProperties
  <2>. QED
    BY <1>1, <2>1, <2>2
<1>4. FlamesInv
  BY <1>1, <1>3 DEF FlamesInv
<1>. QED
  BY <1>1, <1>2, <1>4 DEF InfernoInv, KnownInv, FiresInv, EmittedInv

\* A flame is lit: it is new, and of a new inferno or one of this round.
LEMMA LightKeeps ==
    ASSUME ClockInv, InfernoInv, NEW flames \in SUBSET Flames, Light(flames), UNCHANGED clock
    PROVE  InfernoInv'
<1> DEFINE new == [burns |-> TRUE, first |-> 0, last |-> 0, round |-> currentRound]
<1>a. PICK n \in flames \ Lit :
        /\ n[1] \in present \/ Of(n[1]) = {}
        /\ lit' = [g \in Lit \cup {n} |-> IF g = n THEN new ELSE lit[g]]
        /\ present' = present \cup {n[1]}
  BY DEF Light
<1>b. /\ UNCHANGED <<lastInfernoSample, infernos, fires, emitted, tick, currentRound, finalized>>
      /\ Parsing /\ tick \in Ticks
  BY InfernoFacts DEF Light, clock
<1>c. /\ \A f \in Lit : lit[f] \in LitRows /\ lit[f].last < tick
      /\ DOMAIN fires \subseteq Lit /\ Lit \subseteq Flames
      /\ tick \in Nat \ {0} /\ currentRound \in 1 .. MaxRounds /\ Apart \in Nat \ {0}
  BY <1>b, InfernoFacts DEF Ticks
<1>1. new \in LitRows /\ new.burns /\ new.first = 0 /\ new.last = 0 /\ new.round = currentRound
  <2>1. 0 \in 0 .. MaxTick
    BY ClockAssumption
  <2>. QED
    BY <1>c, <2>1 DEF LitRows
<1>. HIDE DEF new
<1>2. /\ Lit' = Lit \cup {n} /\ n \notin Lit /\ n \in Flames
      /\ lit'[n] = new /\ \A f \in Lit : lit'[f] = lit[f]
      /\ lit' \in [Lit' -> LitRows]
  <2>1. Lit' = Lit \cup {n}
    BY <1>a DEF Lit
  <2>. QED
    BY <1>a, <1>c, <1>1, <2>1
<1>3. /\ \A id : id # n[1] => Of(id)' = Of(id)
      /\ Of(n[1])' = Of(n[1]) \cup {n}
  BY <1>2 DEF Of
<1>4. \A f \in Of(n[1]) : lit[f].round = currentRound
  BY <1>a DEF InfernoInv, FlamesInv
<1>5. LooksInv'
  BY <1>b DEF InfernoInv, LooksInv
<1>6. FlamesInv'
  <2>1. \A f \in Lit' : /\ lit'[f].first <= lit'[f].last /\ lit'[f].last < tick
                        /\ lit'[f].first = 0 => lit'[f].last = 0
                        /\ lit'[f].burns => f[1] \in present'
    BY <1>a, <1>c, <1>1, <1>2 DEF InfernoInv, FlamesInv
  <2>2. ASSUME NEW id \in present'
        PROVE  Of(id)' # {} /\ \A f \in Of(id)' : lit'[f].round = currentRound
    <3>1. CASE id = n[1]
      <4>1. \A f \in Of(id) : f \in Lit
        BY DEF Of
      <4>. QED
        BY <1>1, <1>2, <1>3, <1>4, <3>1, <4>1
    <3>2. CASE id # n[1]
      <4>1. id \in present /\ Of(id)' = Of(id)
        BY <1>a, <1>3, <3>2
      <4>. QED
        BY <1>2, <4>1 DEF InfernoInv, FlamesInv, Of
    <3>. QED
      BY <3>1, <3>2
  <2>3. Lit' \subseteq Flames
    BY <1>c, <1>2
  <2>. QED
    BY <1>b, <1>2, <2>1, <2>2, <2>3 DEF FlamesInv
<1>7. KnownInv'
  <2>. SUFFICES ASSUME NEW id \in DOMAIN infernos
                PROVE  /\ infernos[id] \in 1 .. MaxRounds
                       /\ Of(id)' # {} /\ \A f \in Of(id)' : lit'[f].round = infernos[id]
    BY <1>b DEF KnownInv
  <2>1. infernos[id] \in 1 .. MaxRounds /\ Of(id) # {} /\ \A f \in Of(id) : lit[f].round = infernos[id]
    BY DEF InfernoInv, KnownInv
  <2>2. \A f \in Of(id) : f \in Lit
    BY DEF Of
  <2>3. CASE id = n[1]
    BY <1>1, <1>2, <1>3, <1>4, <2>1, <2>2, <2>3
  <2>4. CASE id # n[1]
    BY <1>2, <1>3, <2>1, <2>2, <2>4
  <2>. QED
    BY <2>3, <2>4
<1>8. FiresInv'
  <2>1. \A f \in Lit' \ DOMAIN fires : /\ lit'[f].last - lit'[f].first < Apart
                                       /\ lit'[f].burns /\ lit'[f].first # 0 =>
                                            lit'[f].first > lastInfernoSample
    BY <1>c, <1>1, <1>2 DEF InfernoInv, FiresInv
  <2>2. \A f \in DOMAIN fires : lit'[f] = lit[f]
    BY <1>c, <1>2
  <2>. QED
    BY <1>b, <1>c, <1>2, <2>1, <2>2 DEF InfernoInv, FiresInv
<1>9. EmittedInv'
  BY <1>b DEF InfernoInv, EmittedInv, Parsing
<1>. QED
  BY <1>5, <1>6, <1>7, <1>8, <1>9 DEF InfernoInv

\* Flames go out, and infernos that do not burn are removed.
LEMMA OutKeeps ==
    ASSUME ClockInv, InfernoInv, UNCHANGED <<lastInfernoSample, infernos, fires, emitted>>,
           UNCHANGED <<tick, finalized>>, Parsing,
           Lit' = Lit, lit' \in [Lit -> LitRows],
           \A f \in Lit : /\ lit'[f].first = lit[f].first /\ lit'[f].last = lit[f].last
                          /\ lit'[f].round = lit[f].round
                          /\ lit'[f].burns => lit[f].burns /\ f[1] \in present',
           present' \subseteq present, present' = {} \/ currentRound' = currentRound
    PROVE  InfernoInv'
<1>1. \A id : Of(id)' = Of(id)
  BY DEF Of
<1>2. \A id : \A f \in Of(id) : f \in Lit
  BY DEF Of
<1>3. LooksInv'
  BY DEF InfernoInv, LooksInv
<1>4. FlamesInv'
  BY <1>1, <1>2 DEF InfernoInv, FlamesInv
<1>5. KnownInv'
  BY <1>1, <1>2 DEF InfernoInv, KnownInv
<1>6. FiresInv'
  <2>1. DOMAIN fires \subseteq Lit
    BY InfernoFacts
  <2>. QED
    BY <2>1 DEF InfernoInv, FiresInv
<1>7. EmittedInv'
  BY DEF InfernoInv, EmittedInv, Parsing
<1>. QED
  BY <1>3, <1>4, <1>5, <1>6, <1>7 DEF InfernoInv

LEMMA NextLook ==
    \A t, u, s, g, e \in Nat :
      u > t /\ u <= t + g /\ s <= t /\ t - s < e => u - s <= e + g - 1 /\ s < u
OBVIOUS

\* A frame: what burns has burned, and is looked at when it is time.
LEMMA TrackKeeps ==
    ASSUME ClockInv, InfernoInv, TrackInfernos, NEW gap \in 1 .. MaxGap, ClockFrame(gap)
    PROVE  InfernoInv'
<1>a. /\ lit' = Burned /\ UNCHANGED <<present, emitted, currentRound, finalized>>
      /\ Parsing /\ tick' \in tick + 1 .. tick + gap /\ tick \in Ticks /\ ~ finalized
  BY InfernoFacts DEF TrackInfernos, ClockFrame, Parsing
<1>b. /\ lit \in [Lit -> LitRows] /\ Lit \subseteq Flames /\ DOMAIN fires \subseteq Lit
      /\ \A f \in Lit : /\ lit[f] \in LitRows /\ lit[f].first \in Nat /\ lit[f].last \in Nat
                        /\ lit[f].first <= lit[f].last /\ lit[f].last < tick
      /\ \A f \in DOMAIN fires : /\ fires[f] \in [first : Ticks, last : Ticks]
                                 /\ fires[f].first \in Nat /\ fires[f].last \in Nat
      /\ tick \in Nat \ {0} /\ tick' \in Nat /\ tick' > tick /\ tick' <= tick + MaxGap
      /\ lastInfernoSample \in Nat /\ lastInfernoSample < tick /\ tick - lastInfernoSample <= Apart
      /\ MaxGap \in Nat \ {0} /\ InfernoEvery \in Nat \ {0} /\ Apart = InfernoEvery + MaxGap - 1
  <2>1. lastInfernoSample < tick /\ tick - lastInfernoSample <= Apart
    BY DEF InfernoInv, LooksInv
  <2>2. /\ lit \in [Lit -> LitRows] /\ Lit \subseteq Flames /\ DOMAIN fires \subseteq Lit
        /\ \A f \in Lit : /\ lit[f] \in LitRows /\ lit[f].first \in Nat /\ lit[f].last \in Nat
                          /\ lit[f].first <= lit[f].last /\ lit[f].last < tick
        /\ \A f \in DOMAIN fires : /\ fires[f] \in [first : Ticks, last : Ticks]
                                   /\ fires[f].first \in Nat /\ fires[f].last \in Nat
        /\ tick \in Nat /\ lastInfernoSample \in Nat
        /\ MaxGap \in Nat \ {0} /\ InfernoEvery \in Nat \ {0}
    BY InfernoFacts
  <2>3. tick \in Nat \ {0} /\ tick' \in Nat /\ tick' > tick /\ tick' <= tick + MaxGap
    BY <1>a, <2>2 DEF Ticks
  <2>. QED
    BY <2>1, <2>2, <2>3 DEF Apart
<1>c. /\ tick \in Nat /\ tick' \in Nat /\ tick' > tick /\ tick' <= tick + MaxGap
      /\ lastInfernoSample \in Nat /\ lastInfernoSample <= tick /\ tick <= tick
      /\ MaxGap \in Nat /\ InfernoEvery \in Nat /\ tick - tick < InfernoEvery
  BY <1>b
<1>1. Lit' = Lit /\ \A id : Of(id)' = Of(id)
  BY <1>a DEF Burned, Lit, Of
<1>2. \A f \in Lit : lit'[f] \in LitRows
  <2>. SUFFICES ASSUME NEW f \in Lit PROVE lit'[f] \in LitRows
    OBVIOUS
  <2>1. CASE ~ lit[f].burns
    BY <1>a, <1>b, <2>1 DEF Burned
  <2>2. CASE lit[f].burns
    <3>1. lit'[f] = [lit[f] EXCEPT !.first = IF @ = 0 THEN tick ELSE @, !.last = tick]
      BY <1>a, <2>2 DEF Burned
    <3>2. tick \in 0 .. MaxTick
      BY <1>a DEF Ticks
    <3>. QED
      BY <1>b, <3>1, <3>2 DEF LitRows
  <2>. QED
    BY <2>1, <2>2
<1>3. \A f \in Lit : /\ lit'[f].burns = lit[f].burns /\ lit'[f].round = lit[f].round
                     /\ lit'[f].first = IF lit[f].burns /\ lit[f].first = 0 THEN tick
                                        ELSE lit[f].first
                     /\ lit'[f].last = IF lit[f].burns THEN tick ELSE lit[f].last
  <2>. SUFFICES ASSUME NEW f \in Lit
                PROVE  /\ lit'[f].burns = lit[f].burns /\ lit'[f].round = lit[f].round
                       /\ lit'[f].first = IF lit[f].burns /\ lit[f].first = 0 THEN tick
                                          ELSE lit[f].first
                       /\ lit'[f].last = IF lit[f].burns THEN tick ELSE lit[f].last
    OBVIOUS
  <2>1. CASE ~ lit[f].burns
    <3>1. lit'[f] = lit[f]
      BY <1>a, <2>1 DEF Burned
    <3>. QED
      BY <2>1, <3>1
  <2>2. CASE lit[f].burns
    <3>1. lit'[f] = [lit[f] EXCEPT !.first = IF @ = 0 THEN tick ELSE @, !.last = tick]
      BY <1>a, <2>2 DEF Burned
    <3>. QED
      BY <1>b, <2>2, <3>1 DEF LitRows
  <2>. QED
    BY <2>1, <2>2
<1>4. lit' \in [Lit' -> LitRows]
  BY <1>a, <1>1, <1>2 DEF Burned
<1>5. FlamesInv'
  <2>1. \A id : \A f \in Of(id) : f \in Lit
    BY DEF Of
  <2>2. \A f \in Lit : /\ lit'[f].first <= lit'[f].last /\ lit'[f].last < tick'
                       /\ lit'[f].first = 0 => lit'[f].last = 0
                       /\ lit'[f].burns => f[1] \in present
    BY <1>b, <1>3 DEF InfernoInv, FlamesInv
  <2>3. \A id \in present : Of(id) # {} /\ \A f \in Of(id) : lit'[f].round = currentRound
    BY <1>3, <2>1 DEF InfernoInv, FlamesInv
  <2>. QED
    BY <1>a, <1>b, <1>1, <1>4, <2>2, <2>3 DEF FlamesInv
<1>6. EmittedInv'
  <2>1. emitted' = {} /\ ~ finalized'
    BY <1>a DEF InfernoInv, EmittedInv
  <2>. QED
    BY <2>1 DEF EmittedInv
<1>7. CASE /\ tick - lastInfernoSample < InfernoEvery
           /\ UNCHANGED <<lastInfernoSample, infernos, fires>>
  <2>1. LooksInv'
    <3>1. tick' - lastInfernoSample <= InfernoEvery + MaxGap - 1 /\ lastInfernoSample < tick'
      BY <1>c, <1>7, NextLook
    <3>2. lastInfernoSample \in 0 .. MaxTick
      BY DEF InfernoInv, LooksInv
    <3>. QED
      BY <1>7, <3>1, <3>2 DEF LooksInv, Apart
  <2>2. KnownInv'
    <3>1. \A id : \A f \in Of(id) : f \in Lit
      BY DEF Of
    <3>. QED
      BY <1>1, <1>3, <1>7, <3>1 DEF InfernoInv, KnownInv
  <2>3. ASSUME NEW f \in DOMAIN fires
        PROVE  /\ lit'[f].first # 0
               /\ lit'[f].first <= fires[f].first /\ fires[f].first - lit'[f].first < Apart
               /\ fires[f].last <= lit'[f].last /\ lit'[f].last - fires[f].last < Apart
               /\ lit'[f].burns => fires[f].last = lastInfernoSample
               /\ f[1] \in DOMAIN infernos
    <3>1. /\ lit[f].first # 0
          /\ lit[f].first <= fires[f].first /\ fires[f].first - lit[f].first < Apart
          /\ fires[f].last <= lit[f].last /\ lit[f].last - fires[f].last < Apart
          /\ lit[f].burns => fires[f].last = lastInfernoSample
          /\ f[1] \in DOMAIN infernos
      BY <1>a DEF InfernoInv, FiresInv
    <3>. QED
      BY <1>b, <1>3, <1>7, <2>3, <3>1
  <2>4. ASSUME NEW f \in Lit \ DOMAIN fires
        PROVE  /\ lit'[f].last - lit'[f].first < Apart
               /\ lit'[f].burns /\ lit'[f].first # 0 => lit'[f].first > lastInfernoSample
    <3>1. /\ lit[f].last - lit[f].first < Apart
          /\ lit[f].burns /\ lit[f].first # 0 => lit[f].first > lastInfernoSample
      BY DEF InfernoInv, FiresInv
    <3>. QED
      BY <1>b, <1>3, <1>7, <2>4, <3>1
  <2>5. FiresInv'
    BY <1>a, <1>b, <1>1, <1>7, <2>3, <2>4 DEF FiresInv
  <2>. QED
    BY <1>5, <1>6, <2>1, <2>2, <2>5 DEF InfernoInv
<1>8. CASE /\ tick - lastInfernoSample >= InfernoEvery
           /\ lastInfernoSample' = tick
           /\ infernos' = [id \in DOMAIN infernos \cup present |->
                IF id \in DOMAIN infernos THEN infernos[id] ELSE currentRound]
           /\ fires' = [f \in DOMAIN fires \cup Burning |->
                [first |-> IF f \in DOMAIN fires THEN fires[f].first ELSE tick,
                 last |-> IF f \in Burning THEN tick ELSE fires[f].last]]
  <2>a. \A f \in Lit : f \in Burning <=> lit[f].burns
    BY DEF Burning, InfernoInv, FlamesInv
  <2>b. /\ Burning \subseteq Lit /\ DOMAIN fires' = DOMAIN fires \cup Burning
        /\ DOMAIN infernos' = DOMAIN infernos \cup present
    BY <1>8 DEF Burning
  <2>1. LooksInv'
    <3>1. tick' - tick <= InfernoEvery + MaxGap - 1 /\ tick < tick'
      BY <1>c, NextLook
    <3>2. tick \in 0 .. MaxTick
      BY <1>a DEF Ticks
    <3>. QED
      BY <1>8, <3>1, <3>2 DEF LooksInv, Apart
  <2>2. KnownInv'
    <3>. SUFFICES ASSUME NEW id \in DOMAIN infernos \cup present
                  PROVE  /\ infernos'[id] \in 1 .. MaxRounds
                         /\ Of(id) # {} /\ \A f \in Of(id) : lit'[f].round = infernos'[id]
      BY <1>1, <2>b DEF KnownInv
    <3>1. \A f \in Of(id) : f \in Lit
      BY DEF Of
    <3>2. CASE id \in DOMAIN infernos
      <4>1. infernos'[id] = infernos[id]
        BY <1>8, <3>2
      <4>. QED
        BY <1>3, <3>1, <3>2, <4>1 DEF InfernoInv, KnownInv
    <3>3. CASE id \notin DOMAIN infernos
      <4>1. infernos'[id] = currentRound
        BY <1>8, <3>3
      <4>2. id \in present /\ currentRound \in 1 .. MaxRounds
        BY <3>3, InfernoFacts
      <4>. QED
        BY <1>3, <3>1, <4>1, <4>2 DEF InfernoInv, FlamesInv
    <3>. QED
      BY <3>2, <3>3
  <2>3. ASSUME NEW f \in DOMAIN fires'
        PROVE  /\ fires'[f] \in [first : Ticks, last : Ticks]
               /\ lit'[f].first # 0
               /\ lit'[f].first <= fires'[f].first /\ fires'[f].first - lit'[f].first < Apart
               /\ fires'[f].last <= lit'[f].last /\ lit'[f].last - fires'[f].last < Apart
               /\ lit'[f].burns => fires'[f].last = tick
               /\ f[1] \in DOMAIN infernos'
    <3>1. f \in Lit
      BY <1>b, <2>b, <2>3
    <3>2. fires'[f] = [first |-> IF f \in DOMAIN fires THEN fires[f].first ELSE tick,
                       last |-> IF f \in Burning THEN tick ELSE fires[f].last]
      BY <1>8, <2>b, <2>3
    <3>3. /\ fires'[f].first = IF f \in DOMAIN fires THEN fires[f].first ELSE tick
          /\ fires'[f].last = IF f \in Burning THEN tick ELSE fires[f].last
      BY <3>2
    <3>4. CASE f \in DOMAIN fires
      <4>1. /\ lit[f].first # 0
            /\ lit[f].first <= fires[f].first /\ fires[f].first - lit[f].first < Apart
            /\ fires[f].last <= lit[f].last /\ lit[f].last - fires[f].last < Apart
            /\ f[1] \in DOMAIN infernos
            /\ fires[f].first \in Ticks /\ fires[f].last \in Ticks
        BY <1>a, <3>4 DEF InfernoInv, FiresInv
      <4>2. fires'[f] \in [first : Ticks, last : Ticks]
        BY <1>a, <3>2, <3>4, <4>1
      <4>. QED
        BY <1>b, <1>3, <2>a, <2>b, <3>1, <3>3, <3>4, <4>1, <4>2
    <3>5. CASE f \notin DOMAIN fires
      <4>1. f \in Burning /\ lit[f].burns /\ f[1] \in present
        BY <2>b, <2>3, <3>5 DEF Burning
      <4>2. lit[f].first # 0 => lit[f].first > lastInfernoSample
        BY <3>1, <3>5, <4>1 DEF InfernoInv, FiresInv
      <4>3. fires'[f] \in [first : Ticks, last : Ticks]
        BY <1>a, <3>2, <3>5, <4>1
      <4>. QED
        BY <1>b, <1>3, <2>b, <3>1, <3>3, <3>5, <4>1, <4>2, <4>3
    <3>. QED
      BY <3>4, <3>5
  <2>4. ASSUME NEW f \in Lit \ DOMAIN fires'
        PROVE  lit'[f].last - lit'[f].first < Apart /\ ~ lit'[f].burns
    <3>1. f \notin DOMAIN fires /\ ~ lit[f].burns
      BY <2>a, <2>b
    <3>2. lit[f].last - lit[f].first < Apart
      BY <3>1 DEF InfernoInv, FiresInv
    <3>. QED
      BY <1>3, <3>1, <3>2
  <2>5. FiresInv'
    BY <1>b, <1>1, <1>8, <2>b, <2>3, <2>4 DEF FiresInv
  <2>. QED
    BY <1>5, <1>6, <2>1, <2>2, <2>5 DEF InfernoInv
<1>. QED
  BY <1>7, <1>8 DEF TrackInfernos

\* finalize: a row for each inferno that was seen burning, which spans its flames.
LEMMA FlushKeeps ==
    ASSUME ClockInv, InfernoInv, FlushInfernos, ClockFinalize
    PROVE  InfernoInv'
<1>a. /\ UNCHANGED <<lit, present, lastInfernoSample, fires, tick, currentRound>>
      /\ finalized' /\ ~ finalized /\ infernos' = <<>> /\ DOMAIN infernos' = {}
  BY DEF FlushInfernos, ClockFinalize
<1> DEFINE firstOf(id) == CHOOSE t \in {fires[f].first : f \in Seen(id)} :
                            \A f \in Seen(id) : t <= fires[f].first
           lastOf(id) == CHOOSE t \in {fires[f].last : f \in Seen(id)} :
                            \A f \in Seen(id) : t >= fires[f].last
           rowOf(id) == [id |-> id, round |-> infernos[id], first |-> firstOf(id),
                         last |-> lastOf(id), fires |-> Seen(id)]
<1>1. emitted' = {rowOf(id) : id \in {i \in DOMAIN infernos : Seen(i) # {}}}
  BY DEF FlushInfernos
<1>2. ASSUME NEW id \in DOMAIN infernos, Seen(id) # {}
      PROVE  /\ Seen(id) \subseteq DOMAIN fires
             /\ \A f \in Seen(id) : infernos[id] = lit[f].round
             /\ \E g \in Seen(id) : /\ lit[g].first <= firstOf(id)
                                    /\ \A f \in Seen(id) : firstOf(id) <= fires[f].first
             /\ \E h \in Seen(id) : /\ lastOf(id) <= lit[h].last
                                    /\ \A f \in Seen(id) : lastOf(id) >= fires[f].last
  <2>1. /\ Seen(id) \subseteq DOMAIN fires /\ \A f \in Seen(id) : f \in Of(id)
    BY InfernoFacts DEF Seen, Of
  <2>2. \A f \in Seen(id) : infernos[id] = lit[f].round
    BY <1>2, <2>1 DEF InfernoInv, KnownInv
  <2>3. \A f \in Seen(id) : /\ fires[f].first \in 0 .. MaxTick /\ fires[f].last \in 0 .. MaxTick
                            /\ lit[f].first <= fires[f].first /\ fires[f].last <= lit[f].last
    BY <2>1 DEF InfernoInv, FiresInv, Ticks
  <2>4. \E g \in Seen(id) : /\ lit[g].first <= firstOf(id)
                            /\ \A f \in Seen(id) : firstOf(id) <= fires[f].first
    <3> DEFINE S == {fires[f].first : f \in Seen(id)}
    <3>1. S \in SUBSET Nat /\ S # {}
      <4>1. \A f \in Seen(id) : fires[f].first \in Nat
        BY <2>3
      <4>. QED
        BY <1>2, <4>1
    <3>2. \E t \in S : \A f \in Seen(id) : t <= fires[f].first
      <4>1. PICK t \in S : \A u \in S : t <= u
        BY <3>1, HasLeast
      <4>. QED
        BY <4>1
    <3>3. firstOf(id) \in S /\ \A f \in Seen(id) : firstOf(id) <= fires[f].first
      BY <3>2
    <3>. HIDE DEF firstOf
    <3>4. PICK g \in Seen(id) : firstOf(id) = fires[g].first
      BY <3>3
    <3>. QED
      BY <2>3, <3>3, <3>4
  <2>5. \E h \in Seen(id) : /\ lastOf(id) <= lit[h].last
                            /\ \A f \in Seen(id) : lastOf(id) >= fires[f].last
    <3> DEFINE S == {fires[f].last : f \in Seen(id)}
    <3>1. S \subseteq 0 .. MaxTick /\ S # {}
      BY <1>2, <2>3
    <3>2. \E t \in S : \A f \in Seen(id) : t >= fires[f].last
      <4>1. PICK t \in S : \A u \in S : t >= u
        BY <3>1, HasGreatest, ClockAssumption
      <4>. QED
        BY <4>1
    <3>3. lastOf(id) \in S /\ \A f \in Seen(id) : lastOf(id) >= fires[f].last
      BY <3>2
    <3>. HIDE DEF lastOf
    <3>4. PICK h \in Seen(id) : lastOf(id) = fires[h].last
      BY <3>3
    <3>. QED
      BY <2>3, <3>3, <3>4
  <2>. HIDE DEF firstOf, lastOf
  <2>. QED
    BY <2>1, <2>2, <2>4, <2>5
<1>. HIDE DEF firstOf, lastOf
<1>3. LooksInv' /\ FlamesInv' /\ KnownInv' /\ FiresInv'
  <2>1. Lit' = Lit /\ \A id : Of(id)' = Of(id)
    BY <1>a DEF Lit, Of
  <2>. QED
    BY <1>a, <2>1 DEF InfernoInv, LooksInv, FlamesInv, KnownInv, FiresInv
<1>4. \A f \in DOMAIN fires : \E e \in emitted' : e.id = f[1] /\ f \in e.fires
  <2>. SUFFICES ASSUME NEW f \in DOMAIN fires PROVE \E e \in emitted' : e.id = f[1] /\ f \in e.fires
    OBVIOUS
  <2>1. f[1] \in DOMAIN infernos /\ f \in Seen(f[1])
    BY <1>a DEF InfernoInv, FiresInv, Seen
  <2>2. rowOf(f[1]) \in emitted'
    BY <1>1, <2>1
  <2>3. rowOf(f[1]).id = f[1] /\ rowOf(f[1]).fires = Seen(f[1])
    OBVIOUS
  <2>. QED
    BY <2>1, <2>2, <2>3
<1>5. ASSUME NEW e \in emitted'
      PROVE  /\ e.fires \subseteq DOMAIN fires
             /\ \A f \in e.fires :
                  /\ e.round = lit[f].round
                  /\ \E g, h \in e.fires : /\ lit[g].first <= e.first /\ e.first <= fires[f].first
                                           /\ e.last <= lit[h].last /\ e.last >= fires[f].last
  <2>1. PICK id \in DOMAIN infernos : Seen(id) # {} /\ e = rowOf(id)
    BY <1>1, <1>5
  <2>2. /\ e.fires = Seen(id) /\ e.round = infernos[id] /\ e.first = firstOf(id)
        /\ e.last = lastOf(id)
    BY <2>1
  <2>. QED
    BY <1>2, <2>1, <2>2
<1>6. EmittedInv'
  BY <1>a, <1>4, <1>5 DEF EmittedInv
<1>. QED
  BY <1>3, <1>6 DEF InfernoInv

LEMMA FlameOut ==
    ASSUME NEW e \in LitRows
    PROVE  LET out == [e EXCEPT !.burns = FALSE]
           IN  /\ out \in LitRows /\ ~ out.burns
               /\ out.first = e.first /\ out.last = e.last /\ out.round = e.round
BY DEF LitRows

LEMMA InfernoInvStep ==
    ASSUME BaseInv, InfernoInv, [Next]_vars
    PROVE  InfernoInv'
<1>a. scene \in Scenes /\ ClockInv /\ scene.flames \subseteq Flames
  BY ScenesAssumption DEF BaseInv
<1>b. lit \in [Lit -> LitRows] /\ \A f \in Lit : lit[f] \in LitRows
  BY <1>a, InfernoFacts
<1>1. ASSUME Light(scene.flames), UNCHANGED clock PROVE InfernoInv'
  BY <1>a, <1>1, LightKeeps
<1>2. ASSUME PutOut, UNCHANGED clock PROVE InfernoInv'
  <2>1. PICK f \in Lit : lit' = [lit EXCEPT ![f].burns = FALSE]
    BY <1>2 DEF PutOut
  <2>2. Lit' = Lit /\ \A g \in Lit : lit'[g] = IF g = f THEN [lit[f] EXCEPT !.burns = FALSE] ELSE lit[g]
    BY <1>b, <2>1 DEF Lit
  <2>3. \A g \in Lit : /\ lit'[g] \in LitRows
                       /\ lit'[g].first = lit[g].first /\ lit'[g].last = lit[g].last
                       /\ lit'[g].round = lit[g].round
                       /\ lit'[g].burns => lit[g].burns
    <3>1. \A g \in Lit : lit'[g] = lit[g] \/ lit'[g] = [lit[g] EXCEPT !.burns = FALSE]
      BY <2>2
    <3>. QED
      BY <1>b, <3>1, FlameOut
  <2>4. lit' \in [Lit -> LitRows]
    BY <1>b, <2>1, <2>2, <2>3
  <2>5. /\ UNCHANGED <<present, lastInfernoSample, infernos, fires, emitted, tick, finalized, currentRound>>
        /\ Parsing
    BY <1>2 DEF PutOut, clock
  <2>6. \A g \in Lit : lit'[g].burns => g[1] \in present'
    BY <2>3, <2>5 DEF InfernoInv, FlamesInv
  <2>. QED
    BY <1>a, <2>2, <2>3, <2>4, <2>5, <2>6, OutKeeps
<1>3. ASSUME RemoveInferno, UNCHANGED clock PROVE InfernoInv'
  <2>1. PICK id \in present : /\ \A f \in Of(id) : ~ lit[f].burns
                              /\ present' = present \ {id}
    BY <1>3 DEF RemoveInferno
  <2>2. /\ UNCHANGED <<lit, lastInfernoSample, infernos, fires, emitted, tick, finalized, currentRound>>
        /\ Parsing /\ Lit' = Lit
    BY <1>3 DEF RemoveInferno, clock, Lit
  <2>3. \A f \in Lit : lit[f].burns => f[1] \in present'
    BY <2>1 DEF InfernoInv, FlamesInv, Of
  <2>. QED
    BY <1>a, <1>b, <2>1, <2>2, <2>3, OutKeeps
<1>4. ASSUME TrackInfernos, NEW gap \in 1 .. MaxGap, ClockFrame(gap) PROVE InfernoInv'
  BY <1>a, <1>4, TrackKeeps
<1>5. CASE RoundStartInfernos /\ ClockRoundStart
  <2>1. /\ UNCHANGED <<lastInfernoSample, infernos, fires, emitted, tick, finalized>>
        /\ Parsing /\ present' = {} /\ lit' = [f \in Lit |-> [lit[f] EXCEPT !.burns = FALSE]]
    BY <1>5 DEF RoundStartInfernos, ClockRoundStart
  <2>2. Lit' = Lit /\ \A f \in Lit : lit'[f] = [lit[f] EXCEPT !.burns = FALSE]
    BY <2>1 DEF Lit
  <2>3. \A f \in Lit : /\ lit'[f] \in LitRows
                       /\ lit'[f].first = lit[f].first /\ lit'[f].last = lit[f].last
                       /\ lit'[f].round = lit[f].round /\ ~ lit'[f].burns
    BY <1>b, <2>2, FlameOut
  <2>4. lit' \in [Lit -> LitRows]
    BY <2>1, <2>2, <2>3
  <2>. QED
    BY <1>a, <2>1, <2>2, <2>3, <2>4, OutKeeps
<1>6. CASE FlushInfernos /\ ClockFinalize
  BY <1>a, <1>6, FlushKeeps
<1>7. CASE UNCHANGED infernoVars /\ UNCHANGED <<tick, currentRound, finalized>>
  <2>1. Lit' = Lit /\ \A id : Of(id)' = Of(id)
    BY <1>7 DEF infernoVars, Lit, Of
  <2>. QED
    BY <1>7, <2>1 DEF infernoVars, InfernoInv, LooksInv, FlamesInv, KnownInv, FiresInv, EmittedInv
<1>. QED
  BY <1>a, <1>1, <1>2, <1>3, <1>4, <1>5, <1>6, <1>7, InfernoSteps

LEMMA InfernoInvIsEnough == ClockInv /\ InfernoInv => InfernosAreTheGames
<1>. SUFFICES ASSUME ClockInv, InfernoInv PROVE InfernosAreTheGames
  OBVIOUS
<1>1. present \subseteq {f[1] : f \in Lit}
  BY DEF InfernoInv, FlamesInv, Of
<1>2. InfernosTypeOK
  BY <1>1 DEF InfernosTypeOK, InfernoInv, LooksInv, FlamesInv, KnownInv, FiresInv
<1>3. /\ \A f \in DOMAIN fires :
           /\ lit[f].first <= fires[f].first /\ fires[f].last <= lit[f].last
           /\ fires[f].first - lit[f].first < Apart /\ lit[f].last - fires[f].last < Apart
      /\ \A f \in Lit \ DOMAIN fires : lit[f].last - lit[f].first < Apart
  BY DEF InfernoInv, FiresInv
<1>. QED
  BY <1>2, <1>3 DEF InfernosAreTheGames, InfernoInv, EmittedInv, Apart

\* InfernosAreTheGames: what is kept of a fire begins and ends less than a look
\* away from what burned, for any distance of the looks and any gaps between
\* frames (trackInfernos, flushInfernos).
THEOREM InfernosOfTheGame == Spec => []InfernosAreTheGames
<1>1. Init => InfernoInv
  BY InfernoInvInit DEF Init
<1>2. BaseInv /\ InfernoInv /\ [Next]_vars => InfernoInv'
  BY InfernoInvStep
<1>3. BaseInv /\ InfernoInv => InfernosAreTheGames
  BY InfernoInvIsEnough DEF BaseInv
<1>. QED
  BY <1>1, <1>2, <1>3, BaseAlways, PTL DEF Spec

-----------------------------------------------------------------------------
(* Clouds. *)

CloudRows == [of : Nat, endTick : Nat, exportIdx : Nat]
VolumeRows == [gid : Nat, round : 1 .. MaxRounds, startTick : Ticks, endTick : Nat]

\* No two projectiles that are still to go off or smoke have one number, and
\* all are of this round.
AloftInv ==
    /\ up \subseteq DOMAIN throws /\ up \cap flown = {}
    /\ \A g \in flown : throws[g].round = currentRound
    /\ \A g \in up : \A h \in up \cup flown : EntOf(g) = EntOf(h) => g = h

\* A cloud has not been one of something still to go off; the number a cloud is
\* known by is that of its smoke, and it has not ended.
RegistryInv ==
    /\ smokes \in Seq(CloudRows) /\ smokeVolumes \in Seq(VolumeRows)
    /\ smokeByEnt \in [Ents -> 0 .. Len(smokes)]
    /\ \A i \in DOMAIN smokes : /\ smokes[i].of \in DOMAIN throws \ flown
                                /\ smokes[i].exportIdx \in 0 .. Len(smokeVolumes)
    /\ \A e \in Ents : smokeByEnt[e] # 0 => EntOf(smokes[smokeByEnt[e]].of) = e
    /\ OccludersAreTheGames

\* The logs that are read, of some tracks.
OpenOf(vt) == {vt[e] : e \in Ents} \ {0}
JobLogs(js) == {js[i].log : i \in DOMAIN js}
LogRows == [gid : Nat, of : Nat, round : 1 .. MaxRounds, startTick : Ticks, endTick : Nat]

\* A log is that of its throw.
LogsOfThrows(ts, ls) ==
    /\ ls \in Seq(LogRows)
    /\ \A l \in DOMAIN ls : /\ ls[l].of \in DOMAIN ts /\ ls[l].gid = ls[l].of
                            /\ ls[l].round = ts[ls[l].of].round

\* A number is that of the log's own throw, and the logs that are read are
\* those that have not ended.
TracksOfLogs(ts, vt, ls) ==
    /\ vt \in [Ents -> 0 .. Len(ls)]
    /\ \A e \in Ents : vt[e] # 0 => ts[ls[vt[e]].of].ent = e
    /\ \A l \in DOMAIN ls : l \in OpenOf(vt) <=> ls[l].endTick = 0

JobRows(ls) == [log : DOMAIN ls, state : {"run", "cloud", "nothing"}]

\* Every log is read, waits for a replay or is replayed, once.
JobsOfLogs(vt, ls, c, js) ==
    /\ c \in Seq(DOMAIN ls)
    /\ js \in Seq(JobRows(ls))
    /\ \A i, j \in DOMAIN c : c[i] = c[j] => i = j
    /\ \A i, j \in DOMAIN js : js[i].log = js[j].log => i = j
    /\ \A i \in DOMAIN c : c[i] \notin JobLogs(js)
    /\ \A l \in DOMAIN ls : l \in OpenOf(vt) <=> l \notin ToSet(c) \cup JobLogs(js)
    /\ Len(c) + Len(js) + Cardinality(OpenOf(vt)) = Len(ls)

\* What Parse returns.
Collected ==
    /\ finalized /\ closing = <<>> /\ voxelJobs = <<>>
    /\ Len(smokeVoxels) + voxelSkipped = Len(logs)
    /\ \A i, j \in DOMAIN smokeVoxels : i < j =>
         /\ smokeVoxels[i] # smokeVoxels[j]
         /\ logs[smokeVoxels[i]].startTick <= logs[smokeVoxels[j]].startTick

ReplayInv ==
    /\ LogsOfThrows(throws, logs)
    /\ TracksOfLogs(throws, voxelTracks, logs)
    /\ ~ returned => JobsOfLogs(voxelTracks, logs, closing, voxelJobs)
    /\ finalized => OpenOf(voxelTracks) = {}
    /\ returned => Collected
    /\ elsewhere \in 0 .. ReplaySlots

CloudInv == AloftInv /\ RegistryInv /\ ReplayInv

\* The logs that are read are finitely many.
LEMMA OpenIsFinite ==
    ASSUME NEW n \in Nat, NEW vt \in [Ents -> 0 .. n]
    PROVE  OpenOf(vt) \subseteq 1 .. n /\ IsFiniteSet(OpenOf(vt)) /\ Cardinality(OpenOf(vt)) \in Nat
<1>1. OpenOf(vt) \subseteq 1 .. n
  BY DEF OpenOf
<1>2. IsFiniteSet(1 .. n)
  BY FS_Interval
<1>3. IsFiniteSet(OpenOf(vt))
  BY <1>1, <1>2, FS_Subset
<1>. QED
  BY <1>1, <1>3, FS_CardinalityType

\* s has every member of C, once.
Lists(s, C) ==
    /\ s \in Seq(C) /\ DOMAIN s = 1 .. Len(s)
    /\ Cardinality(C) \in Nat /\ Len(s) = Cardinality(C)
    /\ ToSet(s) = C
    /\ \A i, j \in DOMAIN s : s[i] = s[j] => i = j

TracksOf(es) == {voxelTracks[e] : e \in es} \ {0}

LEMMA ClosingLists ==
    ASSUME NEW n \in Nat, voxelTracks \in [Ents -> 0 .. n], NEW es \in SUBSET Ents, NEW s \in Closing(es)
    PROVE  Lists(s, TracksOf(es))
<1> DEFINE C == TracksOf(es)
<1>1. s \in [1 .. Cardinality(C) -> C] /\ IsInjective(s)
  BY DEF Closing, TracksOf
<1>2. C \subseteq OpenOf(voxelTracks)
  BY DEF OpenOf, TracksOf
<1>. HIDE DEF C
<1>3. IsFiniteSet(C) /\ Cardinality(C) \in Nat
  BY <1>2, OpenIsFinite, FS_Subset, FS_CardinalityType
<1>4. IsFiniteSet(1 .. Cardinality(C)) /\ Cardinality(1 .. Cardinality(C)) = Cardinality(C)
  BY <1>3, FS_Interval
<1>5. s \in Injection(1 .. Cardinality(C), C)
  BY <1>1 DEF Injection
<1>6. s \in Surjection(1 .. Cardinality(C), C)
  BY <1>3, <1>4, <1>5, FS_Injection
<1>7. \A c \in C : \E i \in 1 .. Cardinality(C) : s[i] = c
  BY <1>6 DEF Surjection
<1>8. s \in Seq(C) /\ Len(s) = Cardinality(C)
  BY <1>1, <1>3, ASeqOf
<1>9. DOMAIN s = 1 .. Len(s)
  BY <1>1, <1>8
<1>10. ToSet(s) = C
  BY <1>1, <1>7 DEF ToSet
<1>. QED
  BY <1>1, <1>3, <1>8, <1>9, <1>10 DEF C, Lists, IsInjective

\* Some logs end, and wait for their replays.
EndedLogs(ls, s, t) ==
    [i \in DOMAIN ls |-> IF i \in ToSet(s) THEN [ls[i] EXCEPT !.endTick = t] ELSE ls[i]]

LEMMA EndedLogsAre ==
    ASSUME NEW ls \in Seq(LogRows), NEW s, NEW t \in Nat
    PROVE  /\ EndedLogs(ls, s, t) \in Seq(LogRows)
           /\ Len(EndedLogs(ls, s, t)) = Len(ls) /\ DOMAIN EndedLogs(ls, s, t) = DOMAIN ls
           /\ \A l \in DOMAIN ls : /\ EndedLogs(ls, s, t)[l].of = ls[l].of
                                   /\ EndedLogs(ls, s, t)[l].gid = ls[l].gid
                                   /\ EndedLogs(ls, s, t)[l].round = ls[l].round
                                   /\ EndedLogs(ls, s, t)[l].startTick = ls[l].startTick
                                   /\ EndedLogs(ls, s, t)[l].endTick =
                                        IF l \in ToSet(s) THEN t ELSE ls[l].endTick
<1> DEFINE new == EndedLogs(ls, s, t)
<1>1. Len(ls) \in Nat /\ DOMAIN ls = 1 .. Len(ls) /\ \A l \in DOMAIN ls : ls[l] \in LogRows
  OBVIOUS
<1>2. \A l \in DOMAIN ls : new[l] = IF l \in ToSet(s) THEN [ls[l] EXCEPT !.endTick = t] ELSE ls[l]
  BY DEF EndedLogs
<1>3. /\ new = [l \in 1 .. Len(ls) |-> new[l]] /\ DOMAIN new = DOMAIN ls
  BY <1>1 DEF EndedLogs
<1>. HIDE DEF new
<1>4. \A l \in DOMAIN ls : /\ new[l] \in LogRows
                           /\ new[l].of = ls[l].of /\ new[l].gid = ls[l].gid
                           /\ new[l].round = ls[l].round /\ new[l].startTick = ls[l].startTick
                           /\ new[l].endTick = IF l \in ToSet(s) THEN t ELSE ls[l].endTick
  <2>. SUFFICES ASSUME NEW l \in DOMAIN ls
                PROVE  /\ new[l] \in LogRows
                       /\ new[l].of = ls[l].of /\ new[l].gid = ls[l].gid
                       /\ new[l].round = ls[l].round /\ new[l].startTick = ls[l].startTick
                       /\ new[l].endTick = IF l \in ToSet(s) THEN t ELSE ls[l].endTick
    OBVIOUS
  <2>1. ls[l] \in LogRows
    BY <1>1
  <2>2. CASE l \in ToSet(s)
    <3>1. new[l] = [ls[l] EXCEPT !.endTick = t]
      BY <1>2, <2>2
    <3>. QED
      BY <2>1, <2>2, <3>1 DEF LogRows
  <2>3. CASE l \notin ToSet(s)
    <3>1. new[l] = ls[l]
      BY <1>2, <2>3
    <3>. QED
      BY <2>1, <2>3, <3>1
  <2>. QED
    BY <2>2, <2>3
<1>5. new \in Seq(LogRows) /\ Len(new) = Len(ls)
  <2>1. \A l \in 1 .. Len(ls) : new[l] \in LogRows
    BY <1>1, <1>4
  <2>. QED
    BY <1>1, <1>3, <2>1, ASeqOf
<1>. QED
  BY <1>3, <1>4, <1>5 DEF new

\* All that is known of the logs.
Replaying(ts, vt, ls, c, js) == LogsOfThrows(ts, ls) /\ TracksOfLogs(ts, vt, ls) /\ JobsOfLogs(vt, ls, c, js)

LogsAt(vt, es) == {vt[e] : e \in es} \ {0}
Untracked(vt, es) == [e \in Ents |-> IF e \in es THEN 0 ELSE vt[e]]

LEMMA Moved == \A a, b, c, d, e \in Nat : d = a - b /\ c + a = e => b + c + d = e
OBVIOUS

LEMMA CloseLogs ==
    ASSUME NEW ts, NEW vt, NEW ls, NEW js, NEW es \in SUBSET Ents, NEW s, NEW t \in Nat \ {0},
           Replaying(ts, vt, ls, <<>>, js), Lists(s, LogsAt(vt, es))
    PROVE  Replaying(ts, Untracked(vt, es), EndedLogs(ls, s, t), s, js)
<1> DEFINE C == LogsAt(vt, es)
           vt2 == Untracked(vt, es)
           ls2 == EndedLogs(ls, s, t)
<1>. USE DEF Replaying
<1>1. /\ ls \in Seq(LogRows) /\ Len(ls) \in Nat /\ DOMAIN ls = 1 .. Len(ls)
      /\ vt \in [Ents -> 0 .. Len(ls)]
  BY DEF LogsOfThrows, TracksOfLogs
<1>2. /\ ls2 \in Seq(LogRows) /\ Len(ls2) = Len(ls) /\ DOMAIN ls2 = DOMAIN ls
      /\ \A l \in DOMAIN ls : /\ ls2[l].of = ls[l].of /\ ls2[l].gid = ls[l].gid
                              /\ ls2[l].round = ls[l].round
                              /\ ls2[l].endTick = IF l \in C THEN t ELSE ls[l].endTick
  BY <1>1, EndedLogsAre DEF Lists
<1>3. /\ vt2 \in [Ents -> 0 .. Len(ls)]
      /\ \A e \in Ents : vt2[e] = IF e \in es THEN 0 ELSE vt[e]
  BY <1>1 DEF Untracked
<1>4. C \subseteq OpenOf(vt)
  BY DEF OpenOf, LogsAt
<1>. HIDE DEF vt2, ls2
<1>5. OpenOf(vt2) = OpenOf(vt) \ C
  <2>1. ASSUME NEW l \in OpenOf(vt), l \notin C PROVE l \in OpenOf(vt2)
    <3>1. PICK e \in Ents : l = vt[e] /\ l # 0
      BY <2>1 DEF OpenOf
    <3>2. vt2[e] = l
      BY <1>3, <2>1, <3>1 DEF LogsAt
    <3>. QED
      BY <3>1, <3>2 DEF OpenOf
  <2>2. ASSUME NEW l \in OpenOf(vt2) PROVE l \in OpenOf(vt) /\ l \notin C
    <3>1. PICK e \in Ents : l = vt2[e] /\ l # 0
      BY <2>2 DEF OpenOf
    <3>2. e \notin es /\ l = vt[e]
      BY <1>3, <3>1
    <3>3. \A f \in es : vt[f] # l
      BY <3>1, <3>2 DEF TracksOfLogs
    <3>. QED
      BY <3>1, <3>2, <3>3 DEF OpenOf, LogsAt
  <2>. QED
    BY <2>1, <2>2
<1>6. LogsOfThrows(ts, ls2)
  BY <1>2 DEF LogsOfThrows
<1>7. TracksOfLogs(ts, vt2, ls2)
  <2>1. \A e \in Ents : vt2[e] # 0 => ts[ls2[vt2[e]].of].ent = e
    <3>. SUFFICES ASSUME NEW e \in Ents, vt2[e] # 0 PROVE ts[ls2[vt2[e]].of].ent = e
      OBVIOUS
    <3>1. vt2[e] = vt[e] /\ vt[e] \in DOMAIN ls
      BY <1>1, <1>3
    <3>2. ls2[vt[e]].of = ls[vt[e]].of
      BY <1>2, <3>1
    <3>. QED
      BY <3>1, <3>2 DEF TracksOfLogs
  <2>2. \A l \in DOMAIN ls : l \in OpenOf(vt2) <=> ls2[l].endTick = 0
    BY <1>2, <1>5 DEF TracksOfLogs
  <2>. QED
    BY <1>2, <1>3, <2>1, <2>2 DEF TracksOfLogs
<1>8. JobsOfLogs(vt2, ls2, s, js)
  <2>1. C \subseteq DOMAIN ls
    BY <1>1, <1>4, OpenIsFinite
  <2>2. s \in Seq(DOMAIN ls2)
    BY <1>2, <2>1, SeqMonotonic DEF Lists
  <2>3. /\ js \in Seq(JobRows(ls2))
        /\ \A i, j \in DOMAIN js : js[i].log = js[j].log => i = j
    BY <1>2 DEF JobsOfLogs, JobRows
  <2>4. /\ ToSet(s) = C /\ \A i \in DOMAIN s : s[i] \in C
        /\ \A i, j \in DOMAIN s : s[i] = s[j] => i = j
    BY DEF Lists, ToSet
  <2>5. ToSet(<<>>) = {}
    BY DEF ToSet
  <2>6. \A l \in DOMAIN ls : l \in OpenOf(vt) <=> l \notin JobLogs(js)
    BY <2>5 DEF JobsOfLogs
  <2>7. \A i \in DOMAIN s : s[i] \notin JobLogs(js)
    BY <1>4, <2>1, <2>4, <2>6
  <2>8. \A l \in DOMAIN ls : l \in OpenOf(vt2) <=> l \notin ToSet(s) \cup JobLogs(js)
    BY <1>4, <1>5, <2>4, <2>6
  <2>9. Len(s) + Len(js) + Cardinality(OpenOf(vt2)) = Len(ls2)
    <3>1. IsFiniteSet(OpenOf(vt)) /\ Cardinality(OpenOf(vt)) \in Nat
      BY <1>1, OpenIsFinite
    <3>2. Cardinality(OpenOf(vt2)) = Cardinality(OpenOf(vt)) - Cardinality(OpenOf(vt) \cap C)
      BY <1>5, <3>1, FS_Difference
    <3>3. OpenOf(vt) \cap C = C
      BY <1>4
    <3>4. Len(s) = Cardinality(C) /\ Cardinality(C) \in Nat
      BY DEF Lists
    <3>5. Len(<<>>) + Len(js) + Cardinality(OpenOf(vt)) = Len(ls) /\ Len(<<>>) = 0 /\ Len(js) \in Nat
      BY DEF JobsOfLogs
    <3>6. Cardinality(OpenOf(vt2)) = Cardinality(OpenOf(vt)) - Len(s)
      BY <3>2, <3>3, <3>4
    <3>7. Len(js) + Cardinality(OpenOf(vt)) = Len(ls) /\ Len(s) \in Nat
      BY <3>1, <3>4, <3>5
    <3>8. Cardinality(OpenOf(vt2)) \in Nat
      BY <1>1, <1>3, OpenIsFinite
    <3>. QED
      BY <1>1, <1>2, <3>1, <3>5, <3>6, <3>7, <3>8, Moved
  <2>. QED
    BY <1>2, <2>2, <2>3, <2>4, <2>7, <2>8, <2>9 DEF JobsOfLogs
<1>. QED
  BY <1>6, <1>7, <1>8 DEF vt2, ls2

\* A log that is new, of a throw with this number.
NewLogOf(ts, e, new) ==
    /\ new \in LogRows /\ new.of \in DOMAIN ts /\ new.gid = new.of
    /\ new.round = ts[new.of].round /\ new.endTick = 0 /\ ts[new.of].ent = e

\* A log is opened under a number that has none.
LEMMA OpenLog ==
    ASSUME NEW ts, NEW vt, NEW ls, NEW c, NEW js, NEW e \in Ents, NEW new, NewLogOf(ts, e, new),
           Replaying(ts, vt, ls, c, js), vt[e] = 0
    PROVE  Replaying(ts, [vt EXCEPT ![e] = Len(ls) + 1], Append(ls, new), c, js)
<1> DEFINE vt2 == [vt EXCEPT ![e] = Len(ls) + 1]
           ls2 == Append(ls, new)
<1>. USE DEF Replaying, NewLogOf
<1> DEFINE n == Len(ls) + 1
<1>1. /\ ls \in Seq(LogRows) /\ Len(ls) \in Nat /\ DOMAIN ls = 1 .. Len(ls)
      /\ vt \in [Ents -> 0 .. Len(ls)]
  BY DEF LogsOfThrows, TracksOfLogs
<1>2. /\ ls2 \in Seq(LogRows) /\ Len(ls2) = n /\ DOMAIN ls2 = 1 .. n
      /\ \A l \in DOMAIN ls : ls2[l] = ls[l]
      /\ ls2[n] = new
  BY <1>1
<1>3. n \in Nat \ {0} /\ n \notin DOMAIN ls /\ DOMAIN ls2 = DOMAIN ls \cup {n}
  BY <1>1, <1>2
<1>. HIDE DEF n
<1>4. /\ vt2 \in [Ents -> 0 .. n] /\ vt2[e] = n
      /\ \A f \in Ents : f # e => vt2[f] = vt[f]
  <2>1. n \in 0 .. n /\ 0 .. Len(ls) \subseteq 0 .. n
    BY <1>1 DEF n
  <2>. QED
    BY <1>1, <2>1 DEF n
<1>. HIDE DEF vt2, ls2
<1>5. OpenOf(vt2) = OpenOf(vt) \cup {n} /\ n \notin OpenOf(vt)
  <2>1. n \in OpenOf(vt2)
    BY <1>3, <1>4 DEF OpenOf
  <2>2. ASSUME NEW l \in OpenOf(vt) PROVE l \in OpenOf(vt2)
    <3>1. PICK f \in Ents : l = vt[f] /\ l # 0
      BY <2>2 DEF OpenOf
    <3>2. vt2[f] = l
      BY <1>4, <3>1
    <3>. QED
      BY <3>1, <3>2 DEF OpenOf
  <2>3. ASSUME NEW l \in OpenOf(vt2), l # n PROVE l \in OpenOf(vt)
    <3>1. PICK f \in Ents : l = vt2[f] /\ l # 0
      BY <2>3 DEF OpenOf
    <3>2. vt[f] = l
      BY <1>4, <2>3, <3>1
    <3>. QED
      BY <3>1, <3>2 DEF OpenOf
  <2>4. OpenOf(vt) \subseteq DOMAIN ls
    BY <1>1, OpenIsFinite
  <2>. QED
    BY <1>3, <2>1, <2>2, <2>3, <2>4
<1>6. LogsOfThrows(ts, ls2)
  BY <1>2, <1>3 DEF LogsOfThrows
<1>7. TracksOfLogs(ts, vt2, ls2)
  <2>1. \A f \in Ents : vt2[f] # 0 => ts[ls2[vt2[f]].of].ent = f
    <3>. SUFFICES ASSUME NEW f \in Ents, vt2[f] # 0 PROVE ts[ls2[vt2[f]].of].ent = f
      OBVIOUS
    <3>1. CASE f = e
      BY <1>2, <1>4, <3>1
    <3>2. CASE f # e
      <4>1. vt2[f] = vt[f] /\ vt[f] \in DOMAIN ls
        BY <1>1, <1>4, <3>2
      <4>2. ls2[vt[f]].of = ls[vt[f]].of
        BY <1>2, <4>1
      <4>. QED
        BY <4>1, <4>2 DEF TracksOfLogs
    <3>. QED
      BY <3>1, <3>2
  <2>2. \A l \in DOMAIN ls2 : l \in OpenOf(vt2) <=> ls2[l].endTick = 0
    BY <1>2, <1>3, <1>5 DEF TracksOfLogs
  <2>. QED
    BY <1>2, <1>4, <2>1, <2>2 DEF TracksOfLogs
<1>8. JobsOfLogs(vt2, ls2, c, js)
  <2>1. DOMAIN ls \subseteq DOMAIN ls2
    BY <1>3
  <2>2. c \in Seq(DOMAIN ls2)
    BY <2>1, SeqMonotonic DEF JobsOfLogs
  <2>3. js \in Seq(JobRows(ls2))
    <3>1. JobRows(ls) \subseteq JobRows(ls2)
      BY <2>1 DEF JobRows
    <3>. QED
      BY <3>1, SeqMonotonic DEF JobsOfLogs
  <2>4. ToSet(c) \subseteq DOMAIN ls /\ JobLogs(js) \subseteq DOMAIN ls
    <3>1. \A i \in DOMAIN c : c[i] \in DOMAIN ls
      BY DEF JobsOfLogs
    <3>2. \A i \in DOMAIN js : js[i] \in JobRows(ls)
      BY DEF JobsOfLogs
    <3>3. \A i \in DOMAIN js : js[i].log \in DOMAIN ls
      BY <3>2 DEF JobRows
    <3>. QED
      BY <3>1, <3>3 DEF ToSet, JobLogs
  <2>5. \A l \in DOMAIN ls2 : l \in OpenOf(vt2) <=> l \notin ToSet(c) \cup JobLogs(js)
    <3>1. \A l \in DOMAIN ls : l \in OpenOf(vt) <=> l \notin ToSet(c) \cup JobLogs(js)
      BY DEF JobsOfLogs
    <3>. QED
      BY <1>3, <1>5, <2>4, <3>1
  <2>6. Len(c) + Len(js) + Cardinality(OpenOf(vt2)) = Len(ls2)
    <3>1. IsFiniteSet(OpenOf(vt)) /\ Cardinality(OpenOf(vt)) \in Nat
      BY <1>1, OpenIsFinite
    <3>2. Cardinality(OpenOf(vt2)) = Cardinality(OpenOf(vt)) + 1
      BY <1>5, <3>1, FS_AddElement
    <3>3. /\ Len(c) + Len(js) + Cardinality(OpenOf(vt)) = Len(ls)
          /\ Len(c) \in Nat /\ Len(js) \in Nat
      BY DEF JobsOfLogs
    <3>4. Len(c) + Len(js) + (Cardinality(OpenOf(vt)) + 1) = Len(ls) + 1
      BY <3>1, <3>3
    <3>. QED
      BY <1>2, <3>2, <3>4 DEF n
  <2>. QED
    BY <2>2, <2>3, <2>5, <2>6 DEF JobsOfLogs
<1>. QED
  BY <1>6, <1>7, <1>8 DEF vt2, ls2

\* The first log that waits gets a replay.
LEMMA StartJob ==
    ASSUME NEW vt, NEW ls, NEW c, NEW js, JobsOfLogs(vt, ls, c, js), c # <<>>,
           OpenOf(vt) \subseteq DOMAIN ls,
           NEW js2, js2 = Append(js, [log |-> Head(c), state |-> "run"])
    PROVE  JobsOfLogs(vt, ls, Tail(c), js2)
<1> DEFINE job == [log |-> Head(c), state |-> "run"]
           Jobs == JobRows(ls)
           n == Len(js) + 1
<1>1. /\ c \in Seq(DOMAIN ls) /\ js \in Seq(Jobs) /\ Len(c) \in Nat /\ Len(js) \in Nat
      /\ DOMAIN c = 1 .. Len(c) /\ DOMAIN js = 1 .. Len(js)
  BY DEF JobsOfLogs
<1>2. /\ Head(c) = c[1] /\ Head(c) \in DOMAIN ls /\ 1 \in DOMAIN c
      /\ Tail(c) \in Seq(DOMAIN ls) /\ Len(Tail(c)) = Len(c) - 1
      /\ DOMAIN Tail(c) = 1 .. Len(c) - 1
      /\ \A i \in 1 .. Len(c) - 1 : Tail(c)[i] = c[i + 1] /\ i + 1 \in DOMAIN c /\ i + 1 # 1
  BY <1>1, HeadTailProperties
<1>3. job \in Jobs /\ job.log = Head(c)
  BY <1>2 DEF JobRows
<1>. HIDE DEF job, Jobs
<1>4. /\ js2 \in Seq(Jobs) /\ Len(js2) = n /\ DOMAIN js2 = 1 .. n
      /\ \A i \in DOMAIN js : js2[i] = js[i] /\ i # n
      /\ js2[n] = job /\ n \in DOMAIN js2
      /\ \A i \in DOMAIN js2 : i \in DOMAIN js \/ i = n
  BY <1>1, <1>3 DEF job
<1>. HIDE DEF n
<1>5. JobLogs(js2) = JobLogs(js) \cup {Head(c)}
  BY <1>3, <1>4 DEF JobLogs
<1>6. /\ \A i, j \in DOMAIN c : c[i] = c[j] => i = j
      /\ \A i, j \in DOMAIN js : js[i].log = js[j].log => i = j
      /\ \A i \in DOMAIN c : c[i] \notin JobLogs(js)
      /\ \A l \in DOMAIN ls : l \in OpenOf(vt) <=> l \notin ToSet(c) \cup JobLogs(js)
      /\ Len(c) + Len(js) + Cardinality(OpenOf(vt)) = Len(ls)
  BY DEF JobsOfLogs
<1>7. ToSet(c) = ToSet(Tail(c)) \cup {Head(c)}
  <2>1. ASSUME NEW i \in DOMAIN c PROVE c[i] \in ToSet(Tail(c)) \cup {Head(c)}
    <3>1. CASE i = 1
      BY <1>2, <3>1
    <3>2. CASE i # 1
      <4>1. i - 1 \in DOMAIN Tail(c) /\ Tail(c)[i - 1] = c[i]
        BY <1>1, <1>2, <3>2
      <4>. QED
        BY <4>1 DEF ToSet
    <3>. QED
      BY <3>1, <3>2
  <2>2. \A i \in DOMAIN Tail(c) : Tail(c)[i] \in ToSet(c)
    BY <1>2 DEF ToSet
  <2>3. Head(c) \in ToSet(c)
    BY <1>2 DEF ToSet
  <2>. QED
    BY <2>1, <2>2, <2>3 DEF ToSet
<1>8. \A i, j \in DOMAIN Tail(c) : Tail(c)[i] = Tail(c)[j] => i = j
  <2>. SUFFICES ASSUME NEW i \in 1 .. Len(c) - 1, NEW j \in 1 .. Len(c) - 1, Tail(c)[i] = Tail(c)[j]
                PROVE  i = j
    BY <1>2
  <2>1. c[i + 1] = c[j + 1] /\ i + 1 \in DOMAIN c /\ j + 1 \in DOMAIN c
    BY <1>2
  <2>2. i + 1 = j + 1
    BY <1>6, <2>1
  <2>. QED
    BY <1>1, <2>2
<1>9. \A i \in DOMAIN Tail(c) : Tail(c)[i] \notin JobLogs(js2)
  <2>. SUFFICES ASSUME NEW i \in 1 .. Len(c) - 1 PROVE Tail(c)[i] \notin JobLogs(js2)
    BY <1>2
  <2>1. Tail(c)[i] = c[i + 1] /\ i + 1 \in DOMAIN c /\ i + 1 # 1
    BY <1>2
  <2>2. c[i + 1] \notin JobLogs(js) /\ c[i + 1] # c[1]
    BY <1>2, <1>6, <2>1
  <2>. QED
    BY <1>2, <1>5, <2>1, <2>2
<1>10. \A i, j \in DOMAIN js2 : js2[i].log = js2[j].log => i = j
  <2>1. Head(c) \notin JobLogs(js)
    BY <1>2, <1>6
  <2>2. \A i \in DOMAIN js : js[i].log # Head(c)
    BY <2>1 DEF JobLogs
  <2>. QED
    BY <1>3, <1>4, <1>6, <2>2
<1>11. \A l \in DOMAIN ls : l \in OpenOf(vt) <=> l \notin ToSet(Tail(c)) \cup JobLogs(js2)
  BY <1>5, <1>6, <1>7
<1>12. Len(Tail(c)) + Len(js2) + Cardinality(OpenOf(vt)) = Len(ls)
  <2>1. Len(Tail(c)) + Len(js2) = Len(c) + Len(js)
    BY <1>1, <1>2, <1>4 DEF n
  <2>. QED
    BY <1>6, <2>1
<1>. QED
  BY <1>2, <1>4, <1>8, <1>9, <1>10, <1>11, <1>12 DEF JobsOfLogs, Jobs

\* A replay ends; its log is no other's.
LEMMA EndJob ==
    ASSUME NEW vt, NEW ls, NEW c, NEW js, JobsOfLogs(vt, ls, c, js),
           NEW i \in DOMAIN js, NEW how \in Export,
           NEW js2, js2 = [js EXCEPT ![i].state = how]
    PROVE  JobsOfLogs(vt, ls, c, js2)
<1> DEFINE Jobs == JobRows(ls)
           job == [js[i] EXCEPT !.state = how]
<1>1. js \in Seq(Jobs) /\ Len(js) \in Nat /\ DOMAIN js = 1 .. Len(js) /\ js[i] \in Jobs
  BY DEF JobsOfLogs
<1>2. job \in Jobs /\ job.log = js[i].log
  BY <1>1 DEF Export, JobRows
<1>. HIDE DEF Jobs, job
<1>3. js2 = [js EXCEPT ![i] = job]
  BY DEF job
<1>4. /\ js2 \in Seq(Jobs) /\ Len(js2) = Len(js) /\ DOMAIN js2 = DOMAIN js
      /\ \A j \in DOMAIN js : js2[j] = IF j = i THEN job ELSE js[j]
  BY <1>1, <1>2, <1>3, ExceptSeq
<1>5. \A j \in DOMAIN js : js2[j].log = js[j].log
  BY <1>2, <1>4
<1>6. JobLogs(js2) = JobLogs(js)
  BY <1>4, <1>5 DEF JobLogs
<1>7. /\ c \in Seq(DOMAIN ls)
      /\ \A k, l \in DOMAIN c : c[k] = c[l] => k = l
      /\ \A k, l \in DOMAIN js : js[k].log = js[l].log => k = l
      /\ \A k \in DOMAIN c : c[k] \notin JobLogs(js)
      /\ \A l \in DOMAIN ls : l \in OpenOf(vt) <=> l \notin ToSet(c) \cup JobLogs(js)
      /\ Len(c) + Len(js) + Cardinality(OpenOf(vt)) = Len(ls)
  BY DEF JobsOfLogs
<1>8. \A k, l \in DOMAIN js2 : js2[k].log = js2[l].log => k = l
  BY <1>4, <1>5, <1>7
<1>. QED
  BY <1>4, <1>6, <1>7, <1>8 DEF JobsOfLogs, Jobs

\* How the clouds move.
LEMMA CloudSteps ==
    ASSUME scene \in Scenes, [Next]_vars
    PROVE  \/ OnGrenadeThrow(scene.types, Numbers) /\ UNCHANGED <<cloudVars, clock>>
           \/ /\ OnHeExplode \/ OnFireGrenadeStart \/ GoesOut \/ \E staying : OnGrenadeDestroy(staying)
              /\ UNCHANGED <<cloudVars, clock>>
           \/ OnSmokeStart(scene.outcomes) /\ ~ Blocked /\ UNCHANGED clock
           \/ OnSmokeExpired /\ ~ Blocked /\ UNCHANGED clock
           \/ PollSmokeVoxels /\ ~ Blocked /\ UNCHANGED <<grenadeVars, currentRound, finalized>> /\ Parsing
           \/ ResetSmokes /\ ~ Blocked /\ RoundStartGrenades /\ UNCHANGED finalized /\ Parsing
           \/ FinalizeClouds /\ ~ Blocked /\ UNCHANGED grenadeVars /\ ClockFinalize
           \/ /\ StartReplay \/ EndReplay \/ CollectSmokeVoxels \/ OtherParse
              /\ UNCHANGED <<grenadeVars, clock>>
           \/ UNCHANGED <<cloudVars, grenadeVars, currentRound, finalized>>
<1>1. CASE GameFires
  BY <1>1 DEF GameFires, FireBullet, clock, nades, clock, Handling
<1>2. CASE Hurt
  BY <1>2 DEF Hurt, OnPlayerHurt, OnLateHurt, clock, nades, clock, Handling
<1>3. CASE Kill
  BY <1>3 DEF Kill, OnKill, clock, nades, clock, Handling
<1>4. CASE WeaponFire
  BY <1>4 DEF WeaponFire, OnWeaponFire, clock, nades, clock, Handling
<1>5. CASE SpottersChanged
  BY <1>5 DEF SpottersChanged, OnPlayerSpottersChanged, clock, nades, clock, Handling
<1>6. CASE GrenadeThrow
  BY <1>6 DEF GrenadeThrow, nades, clock, Handling
<1>7. CASE GrenadeDestroy
  BY <1>7 DEF GrenadeDestroy, nades, clock, Handling
<1>8. CASE HeExplode
  BY <1>8 DEF HeExplode, nades, clock, Handling
<1>9. CASE FireGrenadeStart
  BY <1>9 DEF FireGrenadeStart, nades, clock, Handling
<1>10. CASE BombEvent
  BY <1>10 DEF BombEvent, nades, clock, Handling
<1>11. CASE Fire
  BY <1>11 DEF Fire, nades, clock, Handling
<1>12. CASE SmokeStart
  BY <1>12 DEF SmokeStart, nades, clock, Handling
<1>13. CASE SmokeExpired
  BY <1>13 DEF SmokeExpired, nades, clock, Handling
<1>14. CASE FrameDone
  BY <1>14, ScenesAssumption DEF FrameDone, nades, clock, Handling, ClockFrame
<1>15. CASE RoundStart
  BY <1>15 DEF RoundStart, nades, clock, Handling, ClockRoundStart
<1>16. CASE FreezetimeEnd
  BY <1>16 DEF FreezetimeEnd, nades, clock, Handling, ClockFreezeEnd
<1>17. CASE EndOfficial
  BY <1>17 DEF EndOfficial, nades, clock, Handling, ClockEndOfficial
<1>18. CASE Finalize
  BY <1>18 DEF Finalize, nades, clock, Handling
<1>19. CASE Replays
  BY <1>19 DEF Replays, nades, clock, Handling
<1>20. CASE Others
  BY <1>20 DEF Others, nades, clock, Handling
<1>21. CASE Returned
  BY <1>21 DEF Returned, vars, nades, clock, Handling, cloudVars, grenadeVars
<1>22. CASE UNCHANGED vars
  BY <1>22 DEF vars, nades, clock, Handling
<1>. QED
  BY <1>1, <1>2, <1>3, <1>4, <1>5, <1>6, <1>7, <1>8, <1>9, <1>10, <1>11, <1>12, <1>13, <1>14, <1>15, <1>16, <1>17, <1>18, <1>19, <1>20, <1>21,
     <1>22 DEF Next

LEMMA CloudInvInit == GrenadesInit /\ ClockInit /\ CloudsInit => CloudInv
<1>. SUFFICES ASSUME GrenadesInit, ClockInit, CloudsInit PROVE CloudInv
  OBVIOUS
<1>1. /\ up = {} /\ flown = {} /\ smokes = <<>> /\ smokeVolumes = <<>>
      /\ logs = <<>> /\ closing = <<>> /\ voxelJobs = <<>> /\ ~ returned /\ ~ finalized
      /\ smokeByEnt = [e \in Ents |-> 0] /\ voxelTracks = [e \in Ents |-> 0] /\ elsewhere = 0
  BY DEF GrenadesInit, ClockInit, CloudsInit
<1>2. /\ Len(smokes) = 0 /\ DOMAIN smokes = {} /\ Len(logs) = 0 /\ DOMAIN logs = {}
      /\ Len(closing) = 0 /\ DOMAIN closing = {} /\ Len(voxelJobs) = 0 /\ DOMAIN voxelJobs = {}
  BY <1>1
<1>3. AloftInv
  BY <1>1 DEF AloftInv
<1>4. OccludersAreTheGames
  BY <1>1, <1>2 DEF OccludersAreTheGames
<1>5. RegistryInv
  <2>1. smokes \in Seq(CloudRows) /\ smokeVolumes \in Seq(VolumeRows)
    BY <1>1, EmptySeq
  <2>. QED
    BY <1>1, <1>2, <1>4, <2>1 DEF RegistryInv
<1>6. OpenOf(voxelTracks) = {}
  BY <1>1 DEF OpenOf
<1>7. LogsOfThrows(throws, logs) /\ TracksOfLogs(throws, voxelTracks, logs)
  <2>1. logs \in Seq(LogRows)
    BY <1>1, EmptySeq
  <2>. QED
    BY <1>1, <1>2, <2>1 DEF LogsOfThrows, TracksOfLogs
<1>8. JobsOfLogs(voxelTracks, logs, closing, voxelJobs)
  <2>1. closing \in Seq(DOMAIN logs) /\ voxelJobs \in Seq(JobRows(logs))
    BY <1>1, EmptySeq
  <2>2. Cardinality(OpenOf(voxelTracks)) = 0
    BY <1>6, FS_EmptySet
  <2>. QED
    BY <1>2, <2>1, <2>2 DEF JobsOfLogs
<1>9. ReplayInv
  BY <1>1, <1>6, <1>7, <1>8, CloudsAssumption DEF ReplayInv
<1>. QED
  BY <1>3, <1>5, <1>9 DEF CloudInv

\* Grenades that go off, other than smokes, do not matter to the clouds.
LEMMA CloudsStay ==
    ASSUME CloudInv, UNCHANGED <<cloudVars, throws, currentRound, finalized>>, flown' \subseteq flown
    PROVE  CloudInv'
<1>1. \A g : EntOf(g)' = EntOf(g)
  BY DEF EntOf
<1>2. AloftInv'
  BY <1>1 DEF CloudInv, AloftInv, cloudVars
<1>3. RegistryInv'
  BY <1>1 DEF CloudInv, RegistryInv, OccludersAreTheGames, cloudVars
<1>4. ReplayInv'
  BY DEF CloudInv, ReplayInv, Collected, cloudVars
<1>. QED
  BY <1>2, <1>3, <1>4 DEF CloudInv

\* Nor do throws, as no number of a smoke is given to them.
LEMMA CloudsStayAtThrow ==
    ASSUME GrenInv, CloudInv, NEW types, OnGrenadeThrow(types, Numbers), UNCHANGED <<cloudVars, clock>>
    PROVE  CloudInv'
<1> DEFINE gid == Len(throws) + 1
<1>1. PICK e \in Ents \ Numbers, t \in types :
        /\ flown' = flown \cup {gid}
        /\ throws' = Append(throws, [tick |-> tick, round |-> currentRound, type |-> t, ent |-> e])
  BY DEF OnGrenadeThrow
<1>2. throws \in Seq(ThrowRows) /\ Len(throws) \in Nat /\ DOMAIN throws = 1 .. Len(throws)
  BY GrenFacts
<1>3. /\ DOMAIN throws' = DOMAIN throws \cup {gid} /\ gid \notin DOMAIN throws
      /\ \A g \in DOMAIN throws : throws'[g] = throws[g]
      /\ throws'[gid].ent = e /\ throws'[gid].round = currentRound
  <2> DEFINE row == [tick |-> tick, round |-> currentRound, type |-> t, ent |-> e]
  <2>1. row.ent = e /\ row.round = currentRound
    OBVIOUS
  <2>2. throws' = Append(throws, row)
    BY <1>1
  <2>. HIDE DEF row
  <2>3. /\ Len(throws') = gid /\ DOMAIN throws' = 1 .. gid
        /\ \A g \in 1 .. Len(throws) : throws'[g] = throws[g]
        /\ throws'[gid] = row
    BY <1>2, <2>2
  <2>4. 1 .. gid = 1 .. Len(throws) \cup {gid} /\ gid \notin 1 .. Len(throws)
    BY <1>2
  <2>. QED
    BY <1>2, <2>1, <2>3, <2>4
<1>. HIDE DEF gid
<1>4. \A g \in DOMAIN throws : throws'[g].ent = EntOf(g)
  BY <1>3 DEF EntOf
<1>5. /\ up' = up /\ up \subseteq DOMAIN throws /\ \A g \in up : EntOf(g) # e
      /\ flown \subseteq DOMAIN throws /\ currentRound' = currentRound
  BY GrenFacts DEF Numbers, CloudInv, AloftInv, cloudVars, clock
<1>6. AloftInv'
  <2>1. up \subseteq DOMAIN throws' /\ up \cap flown' = {}
    BY <1>1, <1>3, <1>5 DEF CloudInv, AloftInv
  <2>2. \A g \in flown' : throws'[g].round = currentRound
    BY <1>1, <1>3, <1>5 DEF CloudInv, AloftInv
  <2>3. ASSUME NEW g \in up, NEW h \in up \cup flown', throws'[g].ent = throws'[h].ent
        PROVE  g = h
    <3>1. CASE h = gid
      BY <1>3, <1>4, <1>5, <2>3, <3>1
    <3>2. CASE h # gid
      <4>1. h \in up \cup flown /\ EntOf(g) = EntOf(h)
        BY <1>1, <1>4, <1>5, <2>3, <3>2
      <4>. QED
        BY <4>1 DEF CloudInv, AloftInv
    <3>. QED
      BY <3>1, <3>2
  <2>. QED
    BY <1>5, <2>1, <2>2, <2>3 DEF AloftInv, EntOf
<1>7. \A i \in DOMAIN smokes : /\ smokes[i].of \in DOMAIN throws' \ flown'
                               /\ throws'[smokes[i].of].ent = EntOf(smokes[i].of)
  BY <1>1, <1>3, <1>4 DEF CloudInv, RegistryInv
<1>8. RegistryInv'
  <2>1. UNCHANGED <<smokes, smokeByEnt, smokeVolumes, up, currentRound>>
    BY DEF cloudVars, clock
  <2>2. \A e1 \in Ents : smokeByEnt[e1] # 0 => smokeByEnt[e1] \in DOMAIN smokes
    BY DEF CloudInv, RegistryInv
  <2>3. \A e1 \in Ents : smokeByEnt[e1] # 0 => throws'[smokes[smokeByEnt[e1]].of].ent = e1
    BY <1>7, <2>2 DEF CloudInv, RegistryInv
  <2>4. OccludersAreTheGames'
    BY <1>7, <2>1 DEF CloudInv, RegistryInv, OccludersAreTheGames, EntOf
  <2>. QED
    BY <1>7, <2>1, <2>3, <2>4 DEF CloudInv, RegistryInv, EntOf
<1>9. ReplayInv'
  <2>1. UNCHANGED <<voxelTracks, closing, voxelJobs, elsewhere, logs, smokeVoxels, voxelSkipped, returned, finalized>>
    BY DEF cloudVars, clock
  <2>2. \A l \in DOMAIN logs : logs[l].of \in DOMAIN throws
    BY DEF CloudInv, ReplayInv, LogsOfThrows
  <2>3. LogsOfThrows(throws', logs)
    BY <1>3, <2>2 DEF CloudInv, ReplayInv, LogsOfThrows
  <2>4. TracksOfLogs(throws', voxelTracks, logs)
    <3>1. \A f \in Ents : voxelTracks[f] # 0 => voxelTracks[f] \in DOMAIN logs
      BY DEF CloudInv, ReplayInv, TracksOfLogs, LogsOfThrows
    <3>. QED
      BY <1>3, <2>2, <3>1 DEF CloudInv, ReplayInv, TracksOfLogs
  <2>. QED
    BY <2>1, <2>3, <2>4 DEF CloudInv, ReplayInv, Collected
<1>. QED
  BY <1>6, <1>8, <1>9 DEF CloudInv

\* Closing logs, as its handlers do.
LEMMA CloseReplays ==
    ASSUME ReplayInv, ~ Blocked, ~ finalized, tick \in Nat \ {0},
           NEW es \in SUBSET Ents, NEW s \in Closing(es),
           closing' = s, logs' = Ended(s),
           voxelTracks' = [e \in Ents |-> IF e \in es THEN 0 ELSE voxelTracks[e]],
           UNCHANGED <<throws, replayVars>>,
           finalized' \in BOOLEAN, finalized' => es = Ents
    PROVE  ReplayInv'
<1>1. /\ LogsOfThrows(throws, logs) /\ TracksOfLogs(throws, voxelTracks, logs)
      /\ elsewhere \in 0 .. ReplaySlots /\ ~ returned
      /\ Replaying(throws, voxelTracks, logs, <<>>, voxelJobs)
  BY DEF ReplayInv, Collected, Blocked, Replaying
<1>2. voxelTracks \in [Ents -> 0 .. Len(logs)] /\ Len(logs) \in Nat
  BY <1>1 DEF TracksOfLogs, LogsOfThrows
<1>3. Lists(s, LogsAt(voxelTracks, es))
  BY <1>2, ClosingLists DEF TracksOf, LogsAt
<1>4. logs' = EndedLogs(logs, s, tick) /\ voxelTracks' = Untracked(voxelTracks, es)
  BY DEF Ended, EndedLogs, Untracked
<1>5. Replaying(throws, voxelTracks', logs', s, voxelJobs)
  BY <1>1, <1>3, <1>4, CloseLogs
<1>6. finalized' => OpenOf(voxelTracks') = {}
  BY DEF OpenOf
<1>7. UNCHANGED <<throws, voxelJobs, elsewhere, returned>>
  BY DEF replayVars
<1>. QED
  BY <1>1, <1>5, <1>6, <1>7 DEF ReplayInv, Replaying

\* What the registry rests on.
LEMMA RegistryStays ==
    ASSUME CloudInv, UNCHANGED <<throws, flown, currentRound, registryVars>>
    PROVE  AloftInv' /\ RegistryInv'
<1>1. \A g : EntOf(g)' = EntOf(g)
  BY DEF EntOf
<1>. QED
  BY <1>1 DEF CloudInv, AloftInv, RegistryInv, OccludersAreTheGames, registryVars

\* A smoke that starts has its own number and claims its own entry.
LEMMA SmokeStartIs ==
    ASSUME BaseInv, GrenInv, OnSmokeStart(scene.outcomes)
    PROVE  \E e \in Ents, opened \in Opened, g \in flown :
             /\ e = EntOf(g)
             /\ flown' = flown \ {g} /\ up' = up \cup {g}
             /\ OpenSmoke(opened, e, g, g) /\ OpenSmokeVoxels(e, g, g)
             /\ tick \in Ticks /\ ~ finalized
             /\ UNCHANGED <<throws, replayVars>>
<1>1. PICK e \in Ents, spot \in Spots, opened \in scene.outcomes :
        LET g == entity[e]
            gid == detonations'[Len(detonations')].gid
        IN  /\ g \in flown /\ throws[g].type = "Smoke"
            /\ EmitDetonate(g, e, spot)
            /\ flown' = flown \ {g}
            /\ up' = up \cup {g}
            /\ OpenSmoke(opened, e, g, gid)
            /\ OpenSmokeVoxels(e, g, gid)
  BY DEF OnSmokeStart
<1> DEFINE g == entity[e]
           row == [tick |-> tick, round |-> currentRound, type |-> throws[g].type,
                   gid |-> grenadePos[e].id, place |-> grenadePos[e].id,
                   number |-> e, of |-> g, lost |-> e # EntOf(g) /\ spot # g]
<1>2. opened \in Opened
  BY <1>1, ScenesAssumption DEF BaseInv
<1>3. Parsing /\ UNCHANGED <<throws, replayVars>> /\ tick \in Ticks /\ ~ finalized
  BY DEF OnSmokeStart, Parsing, BaseInv, ClockInv, ClockTypeOK, Ticks
<1>4. g \in flown /\ g # 0 /\ EmitDetonate(g, e, spot)
  <2>1. g \in flown /\ EmitDetonate(g, e, spot)
    BY <1>1
  <2>2. flown \subseteq 1 .. Len(throws)
    BY GrenFacts
  <2>. QED
    BY <2>1, <2>2
<1>1s. throws[g].type = "Smoke"
  BY <1>1
<1>5. e = EntOf(g)
  BY <1>4 DEF GrenInv, FlownInv
<1>. HIDE DEF g
<1>6. Claims(e, g, e, spot) /\ grenadePos[e].id = g /\ e # 0
  BY <1>1s, <1>4, <1>5, OwnClaim, GrenFacts DEF GrenInv, FlownInv
<1>7. detonations' = Append(detonations, row)
  BY <1>6 DEF Claims
<1>8. row.gid = g
  BY <1>6
<1>. HIDE DEF row
<1>9. detonations'[Len(detonations')] = row
  BY <1>7, GrenFacts
<1>10. OpenSmoke(opened, e, g, g) /\ OpenSmokeVoxels(e, g, g) /\ flown' = flown \ {g} /\ up' = up \cup {g}
  BY <1>1, <1>8, <1>9 DEF g
<1>. QED
  BY <1>2, <1>3, <1>4, <1>5, <1>10

\* Its cloud has a number that no other one is known by.
LEMMA OpenKeepsRegistry ==
    ASSUME BaseInv, GrenInv, CloudInv,
           NEW g \in flown, NEW opened \in Opened, tick \in Ticks,
           flown' = flown \ {g}, up' = up \cup {g}, OpenSmoke(opened, EntOf(g), g, g),
           UNCHANGED <<throws, currentRound>>
    PROVE  AloftInv' /\ RegistryInv'
<1> DEFINE e == EntOf(g)
           n == Len(smokes) + 1
           x == IF opened = "volume" THEN Len(smokeVolumes) + 1 ELSE 0
           cloud == [of |-> g, endTick |-> 0, exportIdx |-> x]
           volume == [gid |-> g, round |-> currentRound, startTick |-> tick, endTick |-> 0]
<1>1. \A h : EntOf(h)' = EntOf(h)
  BY DEF EntOf
<1>2. /\ flown \subseteq DOMAIN throws /\ DOMAIN throws = 1 .. Len(throws) /\ Len(throws) \in Nat
      /\ e \in Ents
  BY GrenFacts
<1>3. \A h \in up : EntOf(h) # e /\ h # g
  BY DEF CloudInv, AloftInv
<1>4. AloftInv'
  <2>1. \A h \in flown : h # g => EntOf(h) # EntOf(g)
    BY NumbersApart
  <2>. QED
    BY <1>1, <1>2, <1>3, <2>1 DEF CloudInv, AloftInv
<1>5. /\ smokes \in Seq(CloudRows) /\ Len(smokes) \in Nat /\ DOMAIN smokes = 1 .. Len(smokes)
      /\ smokeVolumes \in Seq(VolumeRows) /\ Len(smokeVolumes) \in Nat
      /\ DOMAIN smokeVolumes = 1 .. Len(smokeVolumes)
      /\ smokeByEnt \in [Ents -> 0 .. Len(smokes)]
      /\ \A i \in DOMAIN smokes : smokes[i].of \in DOMAIN throws \ flown
                                  /\ smokes[i].exportIdx \in 0 .. Len(smokeVolumes)
      /\ \A f \in Ents : smokeByEnt[f] # 0 => EntOf(smokes[smokeByEnt[f]].of) = f
      /\ OccludersAreTheGames
  BY DEF CloudInv, RegistryInv
<1>6. /\ cloud \in CloudRows /\ cloud.of = g /\ cloud.endTick = 0 /\ cloud.exportIdx = x
      /\ volume \in VolumeRows /\ volume.gid = g /\ volume.round = currentRound /\ volume.endTick = 0
  BY <1>2, <1>5 DEF CloudRows, VolumeRows, BaseInv, ClockInv, ClockTypeOK
<1>7. /\ smokeVolumes' = IF opened = "volume" THEN Append(smokeVolumes, volume) ELSE smokeVolumes
      /\ \/ opened = "nothing" /\ UNCHANGED <<smokes, smokeByEnt>>
         \/ /\ opened # "nothing"
            /\ smokes' = Append(smokes, cloud)
            /\ smokeByEnt' = [smokeByEnt EXCEPT ![e] = n]
  BY DEF OpenSmoke
<1>. HIDE DEF cloud, volume
<1>8. /\ smokeVolumes' \in Seq(VolumeRows) /\ Len(smokeVolumes') \in Nat
      /\ Len(smokeVolumes) <= Len(smokeVolumes')
      /\ \A i \in DOMAIN smokeVolumes : smokeVolumes'[i] = smokeVolumes[i]
      /\ x # 0 => x \in 1 .. Len(smokeVolumes') /\ smokeVolumes'[x] = volume
      /\ x \in 0 .. Len(smokeVolumes')
  BY <1>5, <1>6, <1>7
<1>. HIDE DEF x
<1>9. CASE UNCHANGED <<smokes, smokeByEnt>>
  <2>1. \A i \in DOMAIN smokes : smokes[i].exportIdx # 0 => smokes[i].exportIdx \in DOMAIN smokeVolumes
    BY <1>5
  <2>2. OccludersAreTheGames'
    BY <1>1, <1>5, <1>8, <1>9, <2>1 DEF OccludersAreTheGames
  <2>3. \A i \in DOMAIN smokes : /\ smokes[i].of \in DOMAIN throws \ flown'
                                 /\ smokes[i].exportIdx \in 0 .. Len(smokeVolumes')
    BY <1>5, <1>8
  <2>. QED
    BY <1>1, <1>4, <1>5, <1>8, <1>9, <2>2, <2>3 DEF RegistryInv
<1>10. CASE smokes' = Append(smokes, cloud) /\ smokeByEnt' = [smokeByEnt EXCEPT ![e] = n]
  <2>1. /\ smokes' \in Seq(CloudRows) /\ Len(smokes') = n /\ DOMAIN smokes' = 1 .. n
        /\ \A i \in DOMAIN smokes : smokes'[i] = smokes[i]
        /\ smokes'[n] = cloud
    BY <1>5, <1>6, <1>10
  <2>2. DOMAIN smokes' = DOMAIN smokes \cup {n} /\ n \notin DOMAIN smokes /\ n \in Nat \ {0}
    BY <1>5, <2>1
  <2>3. n \in 0 .. n /\ 0 .. Len(smokes) \subseteq 0 .. n
    BY <1>5
  <2>. HIDE DEF n
  <2>4. /\ smokeByEnt' \in [Ents -> 0 .. n] /\ smokeByEnt'[e] = n
        /\ \A f \in Ents : f # e => smokeByEnt'[f] = smokeByEnt[f]
    BY <1>2, <1>5, <1>10, <2>3
  <2>5. \A f \in Ents : smokeByEnt[f] # 0 => smokeByEnt[f] \in DOMAIN smokes
    BY <1>5
  <2>6. \A i \in DOMAIN smokes' : /\ smokes'[i].of \in DOMAIN throws \ flown'
                                  /\ smokes'[i].exportIdx \in 0 .. Len(smokeVolumes')
    <3>1. \A i \in DOMAIN smokes : /\ smokes[i].of \in DOMAIN throws \ flown'
                                   /\ smokes[i].exportIdx \in 0 .. Len(smokeVolumes')
      BY <1>5, <1>8
    <3>2. g \in DOMAIN throws \ flown'
      BY <1>2
    <3>. QED
      BY <1>6, <1>8, <2>1, <2>2, <3>1, <3>2
  <2>7. \A f \in Ents : smokeByEnt'[f] # 0 => EntOf(smokes'[smokeByEnt'[f]].of) = f
    <3>. SUFFICES ASSUME NEW f \in Ents, smokeByEnt'[f] # 0
                  PROVE  EntOf(smokes'[smokeByEnt'[f]].of) = f
      OBVIOUS
    <3>1. CASE f = e
      BY <1>6, <2>1, <2>4, <3>1
    <3>2. CASE f # e
      <4>1. smokeByEnt'[f] = smokeByEnt[f] /\ smokes'[smokeByEnt[f]] = smokes[smokeByEnt[f]]
        BY <2>1, <2>4, <2>5, <3>2
      <4>. QED
        BY <1>5, <4>1
    <3>. QED
      BY <3>1, <3>2
  <2>8. ASSUME NEW i \in DOMAIN smokes', smokes'[i].endTick = 0
        PROVE  smokes'[i].of \in up' /\ smokeByEnt'[EntOf(smokes'[i].of)] = i
    <3>1. CASE i = n
      BY <1>6, <2>1, <2>4, <3>1
    <3>2. CASE i # n
      <4>1. i \in DOMAIN smokes /\ smokes'[i] = smokes[i]
        BY <2>1, <2>2, <3>2
      <4>2. smokes[i].of \in up /\ smokeByEnt[EntOf(smokes[i].of)] = i
        BY <1>5, <2>8, <4>1 DEF OccludersAreTheGames
      <4>3. EntOf(smokes[i].of) # e /\ EntOf(smokes[i].of) \in Ents
        BY <1>3, <1>5, <4>1, <4>2, GrenFacts
      <4>. QED
        BY <2>4, <4>1, <4>2, <4>3
    <3>. QED
      BY <3>1, <3>2
  <2>9. ASSUME NEW i \in DOMAIN smokes', smokes'[i].exportIdx # 0
        PROVE  /\ smokeVolumes'[smokes'[i].exportIdx].gid = smokes'[i].of
               /\ smokeVolumes'[smokes'[i].exportIdx].round = currentRound
               /\ smokeVolumes'[smokes'[i].exportIdx].endTick = smokes'[i].endTick
    <3>1. CASE i = n
      BY <1>6, <1>8, <2>1, <2>9, <3>1
    <3>2. CASE i # n
      <4>1. i \in DOMAIN smokes /\ smokes'[i] = smokes[i]
        BY <2>1, <2>2, <3>2
      <4>2. smokes[i].exportIdx \in DOMAIN smokeVolumes
        BY <1>5, <2>9, <4>1
      <4>3. smokeVolumes'[smokes[i].exportIdx] = smokeVolumes[smokes[i].exportIdx]
        BY <1>8, <4>2
      <4>. QED
        BY <1>5, <2>9, <4>1, <4>3 DEF OccludersAreTheGames
    <3>. QED
      BY <3>1, <3>2
  <2>10. ASSUME NEW f \in Ents, smokeByEnt'[f] # 0 PROVE smokes'[smokeByEnt'[f]].endTick = 0
    <3>1. CASE f = e
      BY <1>6, <2>1, <2>4, <3>1
    <3>2. CASE f # e
      <4>1. smokeByEnt'[f] = smokeByEnt[f] /\ smokes'[smokeByEnt[f]] = smokes[smokeByEnt[f]]
        BY <2>1, <2>4, <2>5, <2>10, <3>2
      <4>. QED
        BY <1>5, <2>10, <4>1 DEF OccludersAreTheGames
    <3>. QED
      BY <3>1, <3>2
  <2>11. ASSUME NEW i \in DOMAIN smokes', NEW j \in DOMAIN smokes', smokes'[i].of = smokes'[j].of
         PROVE  i = j
    <3>1. \A k \in DOMAIN smokes : smokes'[k].of = smokes[k].of /\ smokes[k].of # g
      BY <1>5, <2>1
    <3>2. smokes'[n].of = g /\ \A k \in DOMAIN smokes' : k \in DOMAIN smokes \/ k = n
      BY <1>6, <2>1, <2>2
    <3>3. i \in DOMAIN smokes <=> j \in DOMAIN smokes
      BY <2>2, <2>11, <3>1, <3>2
    <3>4. CASE i \in DOMAIN smokes
      BY <1>5, <2>11, <3>1, <3>3, <3>4 DEF OccludersAreTheGames
    <3>5. CASE i \notin DOMAIN smokes
      BY <3>2, <3>3, <3>5
    <3>. QED
      BY <3>4, <3>5
  <2>12. OccludersAreTheGames'
    BY <1>1, <2>8, <2>9, <2>10, <2>11 DEF OccludersAreTheGames
  <2>13. smokeByEnt' \in [Ents -> 0 .. Len(smokes')]
    BY <2>1, <2>4
  <2>. QED
    BY <1>1, <1>4, <1>8, <2>1, <2>6, <2>7, <2>12, <2>13 DEF RegistryInv
<1>. QED
  BY <1>7, <1>9, <1>10

LEMMA SmokeStartKeeps ==
    ASSUME BaseInv, GrenInv, CloudInv, OnSmokeStart(scene.outcomes), ~ Blocked, UNCHANGED clock
    PROVE  CloudInv'
<1>1. PICK e \in Ents, opened \in Opened, g \in flown :
             /\ e = EntOf(g)
             /\ flown' = flown \ {g} /\ up' = up \cup {g}
             /\ OpenSmoke(opened, e, g, g) /\ OpenSmokeVoxels(e, g, g)
             /\ tick \in Ticks /\ ~ finalized
             /\ UNCHANGED <<throws, replayVars>>
  BY SmokeStartIs
<1>2. UNCHANGED <<currentRound, finalized>> /\ tick \in Nat \ {0}
  BY <1>1 DEF clock, Ticks
<1>3. AloftInv' /\ RegistryInv'
  BY <1>1, <1>2, OpenKeepsRegistry
<1> DEFINE new == NewLog(g, g)
           vt2 == Untracked(voxelTracks, {e})
<1>4. PICK s \in Closing({e}) :
        /\ closing' = s /\ logs' = Append(EndedLogs(logs, s, tick), new)
        /\ voxelTracks' = [voxelTracks EXCEPT ![e] = Len(logs) + 1]
  BY <1>1 DEF OpenSmokeVoxels, Ended, EndedLogs
<1> DEFINE ls2 == EndedLogs(logs, s, tick)
<1>5. /\ LogsOfThrows(throws, logs) /\ TracksOfLogs(throws, voxelTracks, logs)
      /\ elsewhere \in 0 .. ReplaySlots /\ ~ returned
      /\ Replaying(throws, voxelTracks, logs, <<>>, voxelJobs)
  BY <1>1 DEF CloudInv, ReplayInv, Collected, Blocked, Replaying
<1>6. voxelTracks \in [Ents -> 0 .. Len(logs)] /\ Len(logs) \in Nat
  BY <1>5 DEF TracksOfLogs, LogsOfThrows
<1>7. Lists(s, LogsAt(voxelTracks, {e}))
  BY <1>6, ClosingLists DEF TracksOf, LogsAt
<1>8. Replaying(throws, vt2, ls2, s, voxelJobs) /\ vt2[e] = 0
  BY <1>2, <1>5, <1>7, CloseLogs DEF Untracked
<1>9. voxelTracks' = [vt2 EXCEPT ![e] = Len(ls2) + 1]
  <2>1. Len(ls2) = Len(logs)
    BY <1>2, <1>5, EndedLogsAre DEF LogsOfThrows
  <2>2. \A f \in Ents : f # e => vt2[f] = voxelTracks[f]
    BY DEF Untracked
  <2>. QED
    BY <1>4, <1>6, <2>1, <2>2 DEF Untracked
<1>10. NewLogOf(throws, e, new)
  <2>1. /\ flown \subseteq DOMAIN throws /\ DOMAIN throws = 1 .. Len(throws) /\ Len(throws) \in Nat
    BY GrenFacts
  <2>2. currentRound \in 1 .. MaxRounds
    BY DEF BaseInv, ClockInv, ClockTypeOK
  <2>. QED
    BY <1>1, <2>1, <2>2 DEF NewLog, NewLogOf, LogRows, CloudInv, AloftInv, EntOf
<1>11. logs' = Append(ls2, new)
  BY <1>4
<1>. HIDE DEF new, vt2, ls2
<1>12. Replaying(throws, voxelTracks', logs', s, voxelJobs)
  <2>1. Replaying(throws, [vt2 EXCEPT ![e] = Len(ls2) + 1], Append(ls2, new), s, voxelJobs)
    BY <1>8, <1>10, OpenLog
  <2>. QED
    BY <1>9, <1>11, <2>1
<1>13. ReplayInv'
  BY <1>1, <1>2, <1>4, <1>5, <1>12 DEF ReplayInv, Replaying, replayVars
<1>. QED
  BY <1>3, <1>13 DEF CloudInv

LEMMA BaseInvIsTyped == BaseInv => finalized \in BOOLEAN
BY DEF BaseInv, ClockInv, ClockTypeOK

\* A smoke that fades takes its cloud out of the registry, and its number.
LEMMA SmokeExpiredKeeps ==
    ASSUME BaseInv, GrenInv, CloudInv, OnSmokeExpired, ~ Blocked, UNCHANGED clock
    PROVE  CloudInv'
<1>a. UNCHANGED <<throws, flown, currentRound, finalized, replayVars>> /\ ~ finalized /\ tick \in Nat \ {0}
  BY DEF OnSmokeExpired, Parsing, grenadeVars, clock, BaseInv, ClockInv, ClockTypeOK
<1>b. PICK g \in up :
        /\ up' = up \ {g}
        /\ \E s \in Closing({EntOf(g)}) : closing' = s /\ logs' = Ended(s)
        /\ voxelTracks' = [voxelTracks EXCEPT ![EntOf(g)] = 0]
        /\ \/ /\ smokeByEnt[EntOf(g)] = 0
              /\ UNCHANGED <<smokes, smokeVolumes, smokeByEnt>>
           \/ /\ smokeByEnt[EntOf(g)] # 0
              /\ smokes' = [smokes EXCEPT ![smokeByEnt[EntOf(g)]].endTick = tick]
              /\ LET x == smokes[smokeByEnt[EntOf(g)]].exportIdx
                 IN  smokeVolumes' = IF x = 0 THEN smokeVolumes
                                     ELSE [smokeVolumes EXCEPT ![x].endTick = tick]
              /\ smokeByEnt' = [smokeByEnt EXCEPT ![EntOf(g)] = 0]
  BY DEF OnSmokeExpired
<1> DEFINE e == EntOf(g)
           idx == smokeByEnt[e]
<1>1. \A h : EntOf(h)' = EntOf(h)
  BY <1>a DEF EntOf
<1>2. up \subseteq DOMAIN throws /\ e \in Ents
  BY GrenFacts DEF CloudInv, AloftInv
<1>3. ReplayInv'
  <2>1. voxelTracks' = [f \in Ents |-> IF f \in {e} THEN 0 ELSE voxelTracks[f]]
    BY <1>b DEF CloudInv, ReplayInv, TracksOfLogs
  <2>2. PICK s \in Closing({e}) : closing' = s /\ logs' = Ended(s)
    BY <1>b
  <2>3. {e} \in SUBSET Ents /\ finalized' \in BOOLEAN /\ ~ finalized'
    BY <1>a, <1>2, BaseInvIsTyped
  <2>. QED
    BY <1>a, <2>1, <2>2, <2>3, CloseReplays DEF CloudInv
<1>4. AloftInv'
  BY <1>a, <1>b, <1>1 DEF CloudInv, AloftInv
<1>5. /\ smokes \in Seq(CloudRows) /\ Len(smokes) \in Nat /\ DOMAIN smokes = 1 .. Len(smokes)
      /\ smokeVolumes \in Seq(VolumeRows) /\ Len(smokeVolumes) \in Nat
      /\ DOMAIN smokeVolumes = 1 .. Len(smokeVolumes)
      /\ smokeByEnt \in [Ents -> 0 .. Len(smokes)]
      /\ \A i \in DOMAIN smokes : smokes[i].of \in DOMAIN throws \ flown
                                  /\ smokes[i].exportIdx \in 0 .. Len(smokeVolumes)
      /\ \A f \in Ents : smokeByEnt[f] # 0 => EntOf(smokes[smokeByEnt[f]].of) = f
      /\ OccludersAreTheGames
  BY DEF CloudInv, RegistryInv
<1>6. \A h \in up : EntOf(h) = e => h = g
  BY DEF CloudInv, AloftInv
<1>7. CASE idx = 0
  <2>1. UNCHANGED <<smokes, smokeVolumes, smokeByEnt>>
    BY <1>b, <1>7
  <2>2. \A i \in DOMAIN smokes : smokes[i].endTick = 0 => smokes[i].of # g
    BY <1>5, <1>7 DEF OccludersAreTheGames
  <2>3. OccludersAreTheGames'
    BY <1>a, <1>b, <1>1, <1>5, <2>1, <2>2 DEF OccludersAreTheGames
  <2>. QED
    BY <1>a, <1>1, <1>3, <1>4, <1>5, <2>1, <2>3 DEF CloudInv, RegistryInv
<1>8. CASE idx # 0
  <2> DEFINE x == smokes[idx].exportIdx
             cloud == [smokes[idx] EXCEPT !.endTick = tick]
             volume == [smokeVolumes[x] EXCEPT !.endTick = tick]
  <2>1. /\ smokes' = [smokes EXCEPT ![idx] = cloud]
        /\ smokeVolumes' = IF x = 0 THEN smokeVolumes ELSE [smokeVolumes EXCEPT ![x] = volume]
        /\ smokeByEnt' = [smokeByEnt EXCEPT ![e] = 0]
    BY <1>b, <1>8
  <2>2. idx \in DOMAIN smokes /\ smokes[idx].endTick = 0 /\ smokes[idx].of = g /\ x \in 0 .. Len(smokeVolumes)
    <3>1. idx \in DOMAIN smokes
      BY <1>2, <1>5, <1>8
    <3>2. smokes[idx].endTick = 0 /\ EntOf(smokes[idx].of) = e
      BY <1>2, <1>5, <1>8 DEF OccludersAreTheGames
    <3>3. smokes[idx].of \in up
      BY <1>5, <3>1, <3>2 DEF OccludersAreTheGames
    <3>. QED
      BY <1>5, <1>6, <3>1, <3>2, <3>3
  <2>3. /\ cloud \in CloudRows /\ cloud.of = g /\ cloud.exportIdx = x /\ cloud.endTick = tick
    <3>1. smokes[idx] \in CloudRows
      BY <1>5, <2>2
    <3>. QED
      BY <1>a, <2>2, <3>1 DEF CloudRows
  <2>4. x # 0 => /\ x \in DOMAIN smokeVolumes
                 /\ volume \in VolumeRows /\ volume.gid = g
                 /\ volume.round = currentRound /\ volume.endTick = tick
    <3>. SUFFICES ASSUME x # 0
                  PROVE  /\ x \in DOMAIN smokeVolumes
                         /\ volume \in VolumeRows /\ volume.gid = g
                         /\ volume.round = currentRound /\ volume.endTick = tick
      OBVIOUS
    <3>1. x \in DOMAIN smokeVolumes /\ smokeVolumes[x] \in VolumeRows
      BY <1>5, <2>2
    <3>2. smokeVolumes[x].gid = g /\ smokeVolumes[x].round = currentRound
      BY <1>5, <2>2 DEF OccludersAreTheGames
    <3>. QED
      BY <1>a, <3>1, <3>2 DEF VolumeRows
  <2>5. \A i \in DOMAIN smokes : i # idx => smokes[i].of # g
    BY <1>5, <2>2 DEF OccludersAreTheGames
  <2>. HIDE DEF cloud, volume, x, idx
  <2>6. /\ smokes' \in Seq(CloudRows) /\ Len(smokes') = Len(smokes) /\ DOMAIN smokes' = DOMAIN smokes
        /\ \A i \in DOMAIN smokes : smokes'[i] = IF i = idx THEN cloud ELSE smokes[i]
    BY <1>5, <2>1, <2>2, <2>3, ExceptSeq
  <2>7. /\ smokeVolumes' \in Seq(VolumeRows) /\ Len(smokeVolumes') = Len(smokeVolumes)
        /\ \A i \in DOMAIN smokeVolumes :
             smokeVolumes'[i] = IF x # 0 /\ i = x THEN volume ELSE smokeVolumes[i]
    BY <1>5, <2>1, <2>4, ExceptSeq
  <2>8. /\ smokeByEnt' \in [Ents -> 0 .. Len(smokes)]
        /\ \A f \in Ents : smokeByEnt'[f] = IF f = e THEN 0 ELSE smokeByEnt[f]
    <3>1. 0 \in 0 .. Len(smokes)
      BY <1>5
    <3>2. /\ smokeByEnt \in [Ents -> 0 .. Len(smokes)]
          /\ smokeByEnt' = [smokeByEnt EXCEPT ![e] = 0]
      BY <1>5, <2>1
    <3>. HIDE DEF e
    <3>. QED
      BY <3>1, <3>2
  <2>9. \A i \in DOMAIN smokes : /\ smokes'[i].of = smokes[i].of
                                 /\ smokes'[i].exportIdx = smokes[i].exportIdx
                                 /\ smokes'[i].endTick = IF i = idx THEN tick ELSE smokes[i].endTick
    BY <2>2, <2>3, <2>6 DEF x
  <2>10. \A f \in Ents : smokeByEnt[f] # 0 => smokeByEnt[f] \in DOMAIN smokes
    BY <1>5
  <2>11. ASSUME NEW i \in DOMAIN smokes, smokes'[i].endTick = 0
         PROVE  smokes'[i].of \in up' /\ smokeByEnt'[EntOf(smokes'[i].of)] = i
    <3>1. i # idx /\ smokes[i].endTick = 0 /\ smokes'[i].of = smokes[i].of
      BY <1>a, <2>9, <2>11
    <3>2. smokes[i].of \in up /\ smokeByEnt[EntOf(smokes[i].of)] = i /\ smokes[i].of # g
      BY <1>5, <2>5, <3>1 DEF OccludersAreTheGames
    <3>3. EntOf(smokes[i].of) # e /\ EntOf(smokes[i].of) \in Ents
      BY <1>2, <1>6, <3>2, GrenFacts
    <3>. QED
      BY <1>b, <2>8, <3>1, <3>2, <3>3
  <2>12. ASSUME NEW i \in DOMAIN smokes, smokes'[i].exportIdx # 0
         PROVE  /\ smokeVolumes'[smokes'[i].exportIdx].gid = smokes'[i].of
                /\ smokeVolumes'[smokes'[i].exportIdx].round = currentRound
                /\ smokeVolumes'[smokes'[i].exportIdx].endTick = smokes'[i].endTick
    <3>1. /\ smokes'[i].exportIdx = smokes[i].exportIdx /\ smokes'[i].of = smokes[i].of
          /\ smokes[i].exportIdx \in DOMAIN smokeVolumes
      BY <1>5, <2>9, <2>12
    <3>2. /\ smokeVolumes[smokes[i].exportIdx].gid = smokes[i].of
          /\ smokeVolumes[smokes[i].exportIdx].round = currentRound
          /\ smokeVolumes[smokes[i].exportIdx].endTick = smokes[i].endTick
      BY <1>5, <2>12, <3>1 DEF OccludersAreTheGames
    <3>3. CASE i = idx
      <4>1. smokes[i].exportIdx = x /\ x # 0
        BY <2>12, <3>1, <3>3 DEF x
      <4>2. smokeVolumes'[x] = volume
        BY <2>4, <2>7, <4>1
      <4>. QED
        BY <2>2, <2>4, <2>9, <3>1, <3>3, <4>1, <4>2
    <3>4. CASE i # idx
      <4>1. smokes[i].of # g
        BY <2>5, <3>4
      <4>2. x # 0 => smokeVolumes[x].gid = g
        BY <1>5, <2>2 DEF OccludersAreTheGames, x
      <4>3. ~ (x # 0 /\ smokes[i].exportIdx = x)
        BY <3>2, <4>1, <4>2
      <4>4. smokeVolumes'[smokes[i].exportIdx] = smokeVolumes[smokes[i].exportIdx]
        BY <2>7, <3>1, <4>3
      <4>. QED
        BY <2>9, <3>1, <3>2, <3>4, <4>4
    <3>. QED
      BY <3>3, <3>4
  <2>13. ASSUME NEW f \in Ents, smokeByEnt'[f] # 0 PROVE smokes'[smokeByEnt'[f]].endTick = 0
    <3>1. f # e /\ smokeByEnt'[f] = smokeByEnt[f] /\ smokeByEnt[f] \in DOMAIN smokes
      BY <2>8, <2>10, <2>13
    <3>2. smokeByEnt[f] # idx
      BY <1>5, <2>2, <2>13, <3>1
    <3>. QED
      BY <1>5, <2>9, <2>13, <3>1, <3>2 DEF OccludersAreTheGames
  <2>14. \A i, j \in DOMAIN smokes : smokes'[i].of = smokes'[j].of => i = j
    BY <1>5, <2>9 DEF OccludersAreTheGames
  <2>15. OccludersAreTheGames'
    BY <1>a, <1>1, <2>6, <2>11, <2>12, <2>13, <2>14 DEF OccludersAreTheGames
  <2>16. \A f \in Ents : smokeByEnt'[f] # 0 => EntOf(smokes'[smokeByEnt'[f]].of) = f
    BY <1>5, <2>8, <2>9, <2>10
  <2>17. \A i \in DOMAIN smokes : /\ smokes'[i].of \in DOMAIN throws \ flown
                                  /\ smokes'[i].exportIdx \in 0 .. Len(smokeVolumes)
    BY <1>5, <2>9
  <2>18. RegistryInv'
    BY <1>a, <1>1, <2>6, <2>7, <2>8, <2>15, <2>16, <2>17 DEF RegistryInv
  <2>. QED
    BY <1>3, <1>4, <2>18 DEF CloudInv
<1>. QED
  BY <1>7, <1>8

\* The other handlers that close logs.
LEMMA PollKeeps ==
    ASSUME BaseInv, CloudInv, PollSmokeVoxels, ~ Blocked, Parsing,
           UNCHANGED <<grenadeVars, currentRound, finalized>>
    PROVE  CloudInv'
<1> DEFINE gone == {e \in Ents : voxelTracks[e] # 0 /\ entity[e] # logs[voxelTracks[e]].of}
<1>1. UNCHANGED <<throws, flown, replayVars, registryVars>> /\ ~ finalized /\ tick \in Nat \ {0}
      /\ gone \in SUBSET Ents
  BY DEF PollSmokeVoxels, Parsing, grenadeVars, BaseInv, ClockInv, ClockTypeOK
<1>2. PICK s \in Closing(gone) : closing' = s /\ logs' = Ended(s)
  BY DEF PollSmokeVoxels
<1>3. voxelTracks' = [e \in Ents |-> IF e \in gone THEN 0 ELSE voxelTracks[e]]
  BY DEF PollSmokeVoxels
<1>. HIDE DEF gone
<1>4. finalized' = FALSE
  BY <1>1, BaseInvIsTyped
<1>5. ReplayInv'
  BY <1>1, <1>2, <1>3, <1>4, CloseReplays DEF CloudInv
<1>6. AloftInv' /\ RegistryInv'
  BY <1>1, RegistryStays
<1>. QED
  BY <1>5, <1>6 DEF CloudInv

LEMMA CloseAllReplays ==
    ASSUME BaseInv, CloudInv, CloseAllSmokeVoxels, ~ Blocked, ~ finalized, finalized' \in BOOLEAN,
           UNCHANGED <<throws, replayVars>>
    PROVE  ReplayInv'
<1>1. tick \in Nat \ {0} /\ Ents \in SUBSET Ents
  BY DEF BaseInv, ClockInv, ClockTypeOK
<1>2. PICK s \in Closing(Ents) : closing' = s /\ logs' = Ended(s)
  BY DEF CloseAllSmokeVoxels
<1>3. voxelTracks' = [e \in Ents |-> IF e \in Ents THEN 0 ELSE voxelTracks[e]]
  BY DEF CloseAllSmokeVoxels
<1>. QED
  BY <1>1, <1>2, <1>3, CloseReplays DEF CloudInv

LEMMA ResetKeeps ==
    ASSUME BaseInv, CloudInv, ResetSmokes, RoundStartGrenades, ~ Blocked, Parsing, UNCHANGED finalized
    PROVE  CloudInv'
<1>1. /\ up' = {} /\ flown' = {} /\ smokes' = <<>> /\ smokeByEnt' = [e \in Ents |-> 0]
      /\ UNCHANGED <<throws, smokeVolumes, replayVars>> /\ ~ finalized
  BY DEF ResetSmokes, ForgetClouds, RoundStartGrenades, Parsing
<1>2. finalized' = FALSE
  BY <1>1, BaseInvIsTyped
<1>3. ReplayInv'
  BY <1>1, <1>2, CloseAllReplays DEF ResetSmokes
<1>4. smokes' \in Seq(CloudRows) /\ Len(smokes') = 0 /\ DOMAIN smokes' = {}
  BY <1>1, EmptySeq
<1>5. AloftInv'
  BY <1>1 DEF AloftInv
<1>6. OccludersAreTheGames'
  BY <1>1, <1>4 DEF OccludersAreTheGames
<1>7. RegistryInv'
  BY <1>1, <1>4, <1>6 DEF CloudInv, RegistryInv
<1>. QED
  BY <1>3, <1>5, <1>7 DEF CloudInv

LEMMA FinalizeKeeps ==
    ASSUME BaseInv, CloudInv, FinalizeClouds, ClockFinalize, ~ Blocked, UNCHANGED grenadeVars
    PROVE  CloudInv'
<1>1. UNCHANGED <<throws, flown, currentRound, registryVars, replayVars>> /\ ~ finalized /\ finalized' = TRUE
  BY DEF FinalizeClouds, ClockFinalize, grenadeVars
<1>2. ReplayInv'
  BY <1>1, CloseAllReplays DEF FinalizeClouds
<1>3. AloftInv' /\ RegistryInv'
  BY <1>1, RegistryStays
<1>. QED
  BY <1>2, <1>3 DEF CloudInv

-----------------------------------------------------------------------------
(* The replays. *)

\* As long as Parse has not returned.
LEMMA ReplayFacts ==
    ASSUME ReplayInv, ~ returned
    PROVE  /\ JobsOfLogs(voxelTracks, logs, closing, voxelJobs)
           /\ OpenOf(voxelTracks) \subseteq DOMAIN logs
           /\ elsewhere \in 0 .. ReplaySlots
           /\ Running \subseteq DOMAIN voxelJobs /\ IsFiniteSet(Running) /\ Cardinality(Running) \in Nat
<1>1. JobsOfLogs(voxelTracks, logs, closing, voxelJobs) /\ elsewhere \in 0 .. ReplaySlots
  BY DEF ReplayInv
<1>2. logs \in Seq(LogRows) /\ voxelTracks \in [Ents -> 0 .. Len(logs)]
  BY DEF ReplayInv, LogsOfThrows, TracksOfLogs
<1>3. OpenOf(voxelTracks) \subseteq DOMAIN logs
  BY <1>2, OpenIsFinite
<1>4. voxelJobs \in Seq(JobRows(logs)) /\ Running \in SUBSET DOMAIN voxelJobs
  BY <1>1 DEF JobsOfLogs, Running, Done
<1>5. IsFiniteSet(Running) /\ Cardinality(Running) \in Nat
  BY <1>4, PlacesInOrder, FS_CardinalityType
<1>. QED
  BY <1>1, <1>3, <1>4, <1>5

LEMMA StartReplayKeeps == ReplayInv /\ StartReplay /\ UNCHANGED <<throws, finalized>> => ReplayInv'
<1>. SUFFICES ASSUME ReplayInv, StartReplay, UNCHANGED <<throws, finalized>> PROVE ReplayInv'
  OBVIOUS
<1>1. /\ closing # <<>> /\ closing' = Tail(closing)
      /\ voxelJobs' = Append(voxelJobs, [log |-> Head(closing), state |-> "run"])
      /\ UNCHANGED <<voxelTracks, elsewhere, logs, smokeVoxels, voxelSkipped, returned>>
  BY DEF StartReplay, Blocked
<1>2. ~ returned
  BY <1>1 DEF ReplayInv, Collected
<1>3. JobsOfLogs(voxelTracks, logs, Tail(closing), voxelJobs')
  BY <1>1, <1>2, ReplayFacts, StartJob
<1>. QED
  BY <1>1, <1>2, <1>3 DEF ReplayInv

LEMMA EndReplayKeeps == ReplayInv /\ EndReplay /\ UNCHANGED <<throws, finalized>> => ReplayInv'
<1>. SUFFICES ASSUME ReplayInv, EndReplay, UNCHANGED <<throws, finalized>> PROVE ReplayInv'
  OBVIOUS
<1>1. PICK i \in Running, how \in Export : voxelJobs' = [voxelJobs EXCEPT ![i].state = how]
  BY DEF EndReplay
<1>2. UNCHANGED <<voxelTracks, closing, elsewhere, logs, smokeVoxels, voxelSkipped, returned>>
  BY DEF EndReplay
<1>3. ~ returned
  <2>1. i \in DOMAIN voxelJobs
    BY DEF Running, Done
  <2>2. voxelJobs = <<>> => DOMAIN voxelJobs = {}
    OBVIOUS
  <2>. QED
    BY <2>1, <2>2 DEF ReplayInv, Collected
<1>4. i \in DOMAIN voxelJobs
  BY DEF Running, Done
<1>5. JobsOfLogs(voxelTracks, logs, closing, voxelJobs')
  BY <1>1, <1>3, <1>4, ReplayFacts, EndJob
<1>. QED
  BY <1>2, <1>3, <1>5 DEF ReplayInv

LEMMA OtherParseKeeps == ReplayInv /\ OtherParse /\ UNCHANGED <<throws, finalized>> => ReplayInv'
<1>. SUFFICES ASSUME ReplayInv, OtherParse, UNCHANGED <<throws, finalized>> PROVE ReplayInv'
  OBVIOUS
<1>1. /\ \/ Cardinality(Running) + elsewhere < ReplaySlots /\ elsewhere' = elsewhere + 1
         \/ elsewhere > 0 /\ elsewhere' = elsewhere - 1
      /\ UNCHANGED <<voxelTracks, closing, voxelJobs, logs, smokeVoxels, voxelSkipped, returned>>
  BY DEF OtherParse
<1>2. Cardinality(Running) \in Nat
  <2>1. CASE returned
    <3>1. Running = {}
      BY <2>1 DEF ReplayInv, Collected, Running, Done
    <3>. QED
      BY <3>1, FS_EmptySet
  <2>. QED
    BY <2>1, ReplayFacts
<1>3. elsewhere' \in 0 .. ReplaySlots
  BY <1>1, <1>2, CloudsAssumption DEF ReplayInv
<1>. QED
  BY <1>1, <1>3 DEF ReplayInv, Collected

\* To order by two keys, and by the place what has the same, is a total order.
LexBefore(a, b, i, c, d, j) == a < c \/ (a = c /\ b < d) \/ (a = c /\ b = d /\ i < j)

LEMMA LexIsTotal ==
    ASSUME NEW P \in SUBSET Nat, NEW key \in [P -> Nat \X Nat], NEW R,
           \A i, j \in P : <<i, j>> \in R <=>
             LexBefore(key[i][1], key[i][2], i, key[j][1], key[j][2], j)
    PROVE  TotalOrder(P, R)
<1>1. \A i \in P : key[i][1] \in Nat /\ key[i][2] \in Nat /\ i \in Nat
  OBVIOUS
<1>2. ASSUME NEW i \in P, NEW j \in P
      PROVE  <<i, j>> \in R <=>
        \/ key[i][1] < key[j][1]
        \/ key[i][1] = key[j][1] /\ key[i][2] < key[j][2]
        \/ key[i][1] = key[j][1] /\ key[i][2] = key[j][2] /\ i < j
  BY DEF LexBefore
<1>3. ASSUME NEW i \in P PROVE <<i, i>> \notin R
  BY <1>1, <1>2
<1>4. ASSUME NEW i \in P, NEW j \in P, NEW k \in P, <<i, j>> \in R, <<j, k>> \in R
      PROVE  <<i, k>> \in R
  <2> DEFINE a == key[i][1]
             b == key[j][1]
             c == key[k][1]
             d == key[i][2]
             e == key[j][2]
             f == key[k][2]
  <2>1. {a, b, c, d, e, f, i, j, k} \subseteq Nat
    BY <1>1
  <2>2. /\ a < b \/ (a = b /\ d < e) \/ (a = b /\ d = e /\ i < j)
        /\ b < c \/ (b = c /\ e < f) \/ (b = c /\ e = f /\ j < k)
    BY <1>2, <1>4
  <2>3. <<i, k>> \in R <=> a < c \/ (a = c /\ d < f) \/ (a = c /\ d = f /\ i < k)
    BY <1>2
  <2>. HIDE DEF a, b, c, d, e, f
  <2>. QED
    BY <2>1, <2>2, <2>3
<1>5. ASSUME NEW i \in P, NEW j \in P, i # j
      PROVE  <<i, j>> \in R \/ <<j, i>> \in R
  BY <1>1, <1>2, <1>5
<1>. QED
  BY <1>3, <1>4, <1>5 DEF TotalOrder

\* What is collected: the logs of some of the replays, in the order of the
\* ticks their smokes started on.
InTickOrder(vs) ==
    \A i, j \in DOMAIN vs : i < j =>
      vs[i] # vs[j] /\ logs[vs[i]].startTick <= logs[vs[j]].startTick

LEMMA SortedLogs ==
    ASSUME logs \in Seq(LogRows), NEW ls \in Seq(DOMAIN logs),
           NEW P \in SUBSET DOMAIN ls,
           \A i, j \in DOMAIN ls : ls[i] = ls[j] => i = j,
           NEW out, out = SortSmokeVoxels(SubSequence(ls, P))
    PROVE  Len(out) = Cardinality(P) /\ InTickOrder(out)
<1> DEFINE sub == SubSequence(ls, P)
           at == InOrder(P)
           R == {x \in (DOMAIN sub) \X (DOMAIN sub) :
                   \/ LogBefore(sub[x[1]], sub[x[2]])
                   \/ ~ LogBefore(sub[x[2]], sub[x[1]]) /\ x[1] < x[2]}
           to == Place(DOMAIN sub, R)
<1>1. Selection(DOMAIN logs, sub, ls, P, at)
  BY SubSequenceIs
<1>. HIDE DEF sub, at
<1>2. /\ sub \in Seq(DOMAIN logs) /\ Len(sub) = Cardinality(P) /\ Len(sub) \in Nat
      /\ DOMAIN sub = 1 .. Len(sub)
      /\ \A k \in 1 .. Len(sub) : at[k] \in DOMAIN ls /\ sub[k] = ls[at[k]]
      /\ \A k, l \in 1 .. Len(sub) : k < l => at[k] < at[l]
      /\ DOMAIN ls \subseteq Nat
  <2>1. /\ sub \in Seq(DOMAIN logs) /\ Len(sub) = Cardinality(P) /\ Cardinality(P) \in Nat
        /\ at \in [1 .. Cardinality(P) -> P]
        /\ \A k \in 1 .. Cardinality(P) : sub[k] = ls[at[k]]
        /\ \A k, l \in 1 .. Cardinality(P) : k < l => at[k] < at[l]
    BY <1>1 DEF Selection
  <2>2. DOMAIN ls \subseteq Nat /\ P \subseteq DOMAIN ls
    BY PlacesInOrder
  <2>3. DOMAIN sub = 1 .. Len(sub)
    BY <2>1
  <2>4. \A k \in 1 .. Cardinality(P) : at[k] \in DOMAIN ls
    BY <2>1, <2>2
  <2>. QED
    BY <2>1, <2>2, <2>3, <2>4
<1>3. \A k, l \in DOMAIN sub : sub[k] = sub[l] => k = l
  <2>. SUFFICES ASSUME NEW k \in 1 .. Len(sub), NEW l \in 1 .. Len(sub), sub[k] = sub[l]
                PROVE  k = l
    BY <1>2
  <2>1. at[k] = at[l] /\ at[k] \in Nat
    BY <1>2
  <2>2. ~ (k < l) /\ ~ (l < k)
    BY <1>2, <2>1
  <2>. QED
    BY <2>2
<1>4. \A k \in DOMAIN sub : /\ logs[sub[k]].startTick \in Nat /\ logs[sub[k]].gid \in Nat
  <2>1. \A l \in DOMAIN logs : logs[l] \in LogRows
    OBVIOUS
  <2>2. \A k \in DOMAIN sub : sub[k] \in DOMAIN logs
    BY <1>2
  <2>3. \A l \in DOMAIN logs : logs[l].startTick \in Nat /\ logs[l].gid \in Nat
    <3>1. ASSUME NEW e \in LogRows PROVE e.startTick \in Nat /\ e.gid \in Nat
      BY DEF LogRows, Ticks
    <3>. QED
      BY <2>1, <3>1
  <2>. QED
    BY <2>2, <2>3
<1>5. \A i, j \in DOMAIN sub : <<i, j>> \in R <=>
        LogBefore(sub[i], sub[j]) \/ (~ LogBefore(sub[j], sub[i]) /\ i < j)
  OBVIOUS
<1>. HIDE DEF R
<1>6. TotalOrder(DOMAIN sub, R)
  <2> DEFINE key == [k \in DOMAIN sub |-> <<logs[sub[k]].startTick, logs[sub[k]].gid>>]
  <2>1. key \in [DOMAIN sub -> Nat \X Nat] /\ DOMAIN sub \in SUBSET Nat
    BY <1>2, <1>4, SMTT(20)
  <2>2. ASSUME NEW i \in DOMAIN sub, NEW j \in DOMAIN sub
        PROVE  <<i, j>> \in R <=>
                 LexBefore(key[i][1], key[i][2], i, key[j][1], key[j][2], j)
    <3> DEFINE a == logs[sub[i]].startTick
               b == logs[sub[j]].startTick
               c == logs[sub[i]].gid
               d == logs[sub[j]].gid
    <3>1. /\ key[i][1] = a /\ key[i][2] = c /\ key[j][1] = b /\ key[j][2] = d
          /\ {a, b, c, d, i, j} \subseteq Nat
      BY <1>2, <1>4
    <3>2. <<i, j>> \in R <=>
            \/ a < b \/ (a = b /\ c < d)
            \/ ~ (b < a \/ (b = a /\ d < c)) /\ i < j
      BY <1>5 DEF LogBefore
    <3>. HIDE DEF a, b, c, d, key
    <3>. QED
      BY <3>1, <3>2 DEF LexBefore
  <2>. HIDE DEF key
  <2>. QED
    BY <2>1, <2>2, LexIsTotal
<1>7. Arrangement(DOMAIN logs, Ordered(sub, R), sub, R, to)
  BY <1>2, <1>6, OrderedIs
<1>8. out = Ordered(sub, R)
  BY DEF SortSmokeVoxels, R, sub
<1>. HIDE DEF to
<1>9. /\ out \in Seq(DOMAIN logs) /\ Len(out) = Len(sub) /\ DOMAIN out = 1 .. Len(sub)
      /\ \A k \in 1 .. Len(sub) : to[k] \in DOMAIN sub /\ out[k] = sub[to[k]]
      /\ \A k, l \in 1 .. Len(sub) : k < l => <<to[k], to[l]>> \in R
  <2>1. /\ out \in Seq(DOMAIN logs) /\ Len(out) = Len(sub)
        /\ to \in [1 .. Len(sub) -> 1 .. Len(sub)]
        /\ \A k \in 1 .. Len(sub) : out[k] = sub[to[k]]
        /\ \A k, l \in 1 .. Len(sub) : k < l => <<to[k], to[l]>> \in R
    BY <1>7, <1>8 DEF Arrangement
  <2>2. DOMAIN sub = 1 .. Len(sub)
    BY <1>2
  <2>3. DOMAIN out = 1 .. Len(sub)
    BY <2>1
  <2>4. \A k \in 1 .. Len(sub) : to[k] \in DOMAIN sub
    BY <2>1, <2>2
  <2>. QED
    BY <2>1, <2>3, <2>4
<1>10. ASSUME NEW i \in DOMAIN out, NEW j \in DOMAIN out, i < j
       PROVE  out[i] # out[j] /\ logs[out[i]].startTick <= logs[out[j]].startTick
  <2>1. <<to[i], to[j]>> \in R /\ to[i] \in DOMAIN sub /\ to[j] \in DOMAIN sub
    BY <1>9, <1>10
  <2>2. to[i] # to[j]
    BY <1>6, <2>1 DEF TotalOrder
  <2>3. out[i] # out[j]
    BY <1>3, <1>9, <2>1, <2>2
  <2>4. LogBefore(sub[to[i]], sub[to[j]]) \/ ~ LogBefore(sub[to[j]], sub[to[i]])
    BY <1>5, <2>1
  <2>5. logs[sub[to[i]]].startTick \in Nat /\ logs[sub[to[j]]].startTick \in Nat
    BY <1>4, <2>1
  <2>6. logs[sub[to[i]]].startTick <= logs[sub[to[j]]].startTick
    BY <2>4, <2>5 DEF LogBefore
  <2>. QED
    BY <1>9, <2>3, <2>6
<1>. QED
  BY <1>2, <1>9, <1>10 DEF InTickOrder

LEMMA CollectKeeps == ReplayInv /\ CollectSmokeVoxels /\ UNCHANGED <<throws, finalized>> => ReplayInv'
<1>. SUFFICES ASSUME ReplayInv, CollectSmokeVoxels, UNCHANGED <<throws, finalized>> PROVE ReplayInv'
  OBVIOUS
<1> DEFINE ls == [i \in DOMAIN voxelJobs |-> voxelJobs[i].log]
<1>1. /\ finalized /\ ~ returned /\ closing = <<>> /\ Running = {}
      /\ smokeVoxels' = SortSmokeVoxels(SubSequence(ls, Done("cloud")))
      /\ voxelSkipped' = Cardinality(Done("nothing"))
      /\ voxelJobs' = <<>> /\ returned' = TRUE
      /\ UNCHANGED <<voxelTracks, closing, elsewhere, logs>>
  BY DEF CollectSmokeVoxels, Collectable, Blocked
<1>2. /\ JobsOfLogs(voxelTracks, logs, closing, voxelJobs) /\ OpenOf(voxelTracks) = {}
      /\ logs \in Seq(LogRows)
  BY <1>1, ReplayFacts DEF ReplayInv, LogsOfThrows
<1>3. /\ voxelJobs \in Seq(JobRows(logs)) /\ Len(voxelJobs) \in Nat
      /\ DOMAIN voxelJobs = 1 .. Len(voxelJobs)
      /\ \A i \in DOMAIN voxelJobs : voxelJobs[i] \in JobRows(logs)
      /\ \A i, j \in DOMAIN voxelJobs : voxelJobs[i].log = voxelJobs[j].log => i = j
  BY <1>2 DEF JobsOfLogs
<1>4. /\ ls \in Seq(DOMAIN logs) /\ DOMAIN ls = DOMAIN voxelJobs
      /\ \A i, j \in DOMAIN ls : ls[i] = ls[j] => i = j
  <2>1. \A i \in DOMAIN voxelJobs : voxelJobs[i].log \in DOMAIN logs
    BY <1>3 DEF JobRows
  <2>. QED
    BY <1>3, <2>1
<1>. HIDE DEF ls
<1>5. Done("cloud") \in SUBSET DOMAIN ls
  BY <1>4 DEF Done
<1>6. Len(smokeVoxels') = Cardinality(Done("cloud")) /\ InTickOrder(smokeVoxels')
  BY <1>1, <1>2, <1>4, <1>5, SortedLogs
<1>7. Cardinality(Done("cloud")) + Cardinality(Done("nothing")) = Len(voxelJobs)
  <2>1. /\ Done("cloud") \cup Done("nothing") = DOMAIN voxelJobs
        /\ Done("cloud") \cap Done("nothing") = {}
    BY <1>1, <1>3 DEF Done, Running, JobRows
  <2>2. /\ IsFiniteSet(DOMAIN voxelJobs) /\ Cardinality(DOMAIN voxelJobs) = Len(voxelJobs)
    BY <1>3, PlacesInOrder
  <2>3. IsFiniteSet(Done("cloud")) /\ IsFiniteSet(Done("nothing"))
    BY <2>1, <2>2, FS_Subset
  <2>4. Cardinality(Done("cloud")) \in Nat /\ Cardinality(Done("nothing")) \in Nat
    BY <2>3, FS_CardinalityType
  <2>5. Cardinality(DOMAIN voxelJobs) = Cardinality(Done("cloud")) + Cardinality(Done("nothing"))
                                        - Cardinality({})
    BY <2>1, <2>3, FS_Union
  <2>. QED
    BY <2>2, <2>4, <2>5, FS_EmptySet
<1>8. Len(voxelJobs) = Len(logs)
  <2>1. Len(closing) + Len(voxelJobs) + Cardinality(OpenOf(voxelTracks)) = Len(logs)
    BY <1>2 DEF JobsOfLogs
  <2>2. Len(closing) = 0 /\ Cardinality(OpenOf(voxelTracks)) = 0
    BY <1>1, <1>2, FS_EmptySet
  <2>. QED
    BY <1>3, <2>1, <2>2
<1>9. Collected'
  BY <1>1, <1>6, <1>7, <1>8 DEF Collected, InTickOrder
<1>. QED
  BY <1>1, <1>9 DEF ReplayInv

-----------------------------------------------------------------------------

LEMMA CloudInvStep ==
    ASSUME BaseInv, GrenInv, CloudInv, [Next]_vars
    PROVE  CloudInv'
<1>1. CASE OnGrenadeThrow(scene.types, Numbers) /\ UNCHANGED <<cloudVars, clock>>
  BY <1>1, CloudsStayAtThrow
<1>2. CASE /\ OnHeExplode \/ OnFireGrenadeStart \/ GoesOut \/ \E staying : OnGrenadeDestroy(staying)
           /\ UNCHANGED <<cloudVars, clock>>
  <2>1. UNCHANGED <<cloudVars, throws, currentRound, finalized>> /\ flown' \subseteq flown
    BY <1>2 DEF OnHeExplode, OnFireGrenadeStart, GoesOut, OnGrenadeDestroy, clock
  <2>. QED
    BY <2>1, CloudsStay
<1>3. CASE OnSmokeStart(scene.outcomes) /\ ~ Blocked /\ UNCHANGED clock
  BY <1>3, SmokeStartKeeps
<1>4. CASE OnSmokeExpired /\ ~ Blocked /\ UNCHANGED clock
  BY <1>4, SmokeExpiredKeeps
<1>5. CASE PollSmokeVoxels /\ ~ Blocked /\ UNCHANGED <<grenadeVars, currentRound, finalized>> /\ Parsing
  BY <1>5, PollKeeps
<1>6. CASE ResetSmokes /\ ~ Blocked /\ RoundStartGrenades /\ UNCHANGED finalized /\ Parsing
  BY <1>6, ResetKeeps
<1>7. CASE FinalizeClouds /\ ~ Blocked /\ UNCHANGED grenadeVars /\ ClockFinalize
  BY <1>7, FinalizeKeeps
<1>8. CASE /\ StartReplay \/ EndReplay \/ CollectSmokeVoxels \/ OtherParse
           /\ UNCHANGED <<grenadeVars, clock>>
  <2>1. UNCHANGED <<throws, flown, currentRound, finalized, registryVars>>
    BY <1>8 DEF StartReplay, EndReplay, CollectSmokeVoxels, OtherParse, grenadeVars, clock
  <2>2. ReplayInv'
    BY <1>8, <2>1, StartReplayKeeps, EndReplayKeeps, CollectKeeps, OtherParseKeeps DEF CloudInv
  <2>3. AloftInv' /\ RegistryInv'
    BY <2>1, RegistryStays
  <2>. QED
    BY <2>2, <2>3 DEF CloudInv
<1>9. CASE UNCHANGED <<cloudVars, grenadeVars, currentRound, finalized>>
  BY <1>9, CloudsStay DEF grenadeVars
<1>. QED
  BY <1>1, <1>2, <1>3, <1>4, <1>5, <1>6, <1>7, <1>8, <1>9, CloudSteps DEF BaseInv

LEMMA CloudInvIsEnough == CloudInv => CloudsAreTheGames
<1>. SUFFICES ASSUME CloudInv PROVE CloudsAreTheGames
  OBVIOUS
<1>1. /\ up \subseteq DOMAIN throws /\ smokeByEnt \in [Ents -> 0 .. Len(smokes)]
      /\ voxelTracks \in [Ents -> 0 .. Len(logs)] /\ elsewhere \in 0 .. ReplaySlots
      /\ OccludersAreTheGames
  BY DEF CloudInv, AloftInv, RegistryInv, ReplayInv, TracksOfLogs
<1>2. /\ LogsOfThrows(throws, logs)
      /\ \A l \in DOMAIN logs : l \in OpenOf(voxelTracks) <=> logs[l].endTick = 0
  BY DEF CloudInv, ReplayInv, TracksOfLogs
<1>3. CASE ~ returned
  <2>1. JobsOfLogs(voxelTracks, logs, closing, voxelJobs)
    BY <1>3 DEF CloudInv, ReplayInv
  <2>2. /\ closing \in Seq(DOMAIN logs) /\ \A i \in DOMAIN voxelJobs : voxelJobs[i] \in JobRows(logs)
    BY <2>1 DEF JobsOfLogs
  <2>3. CloudsTypeOK
    BY <1>1, <2>2 DEF CloudsTypeOK, JobRows
  <2>4. \A l \in DOMAIN logs : l \in OpenOf(voxelTracks) <=> l \notin ToSet(closing) \cup JobLogs(voxelJobs)
    BY <2>1 DEF JobsOfLogs
  <2>5. Len(closing) + Len(voxelJobs) + Cardinality(OpenOf(voxelTracks)) = Len(logs)
    BY <2>1 DEF JobsOfLogs
  <2>6. LogsAreCollected
    BY <1>2, <1>3, <2>4, <2>5 DEF LogsAreCollected, LogsOfThrows, OpenOf, JobLogs
  <2>. QED
    BY <1>1, <2>3, <2>6 DEF CloudsAreTheGames
<1>4. CASE returned
  <2>1. Collected /\ finalized /\ OpenOf(voxelTracks) = {}
    BY <1>4 DEF CloudInv, ReplayInv, Collected
  <2>2. closing = <<>> /\ voxelJobs = <<>> /\ DOMAIN voxelJobs = {} /\ Running = {}
    BY <2>1 DEF Collected, Running, Done
  <2>3. closing \in Seq(DOMAIN logs)
    BY <2>2, EmptySeq
  <2>4. CloudsTypeOK
    BY <1>1, <2>2, <2>3 DEF CloudsTypeOK
  <2>5. LogsAreCollected
    BY <1>2, <1>4, <2>1, <2>2 DEF LogsAreCollected, LogsOfThrows, OpenOf, Collected
  <2>. QED
    BY <1>1, <2>4, <2>5 DEF CloudsAreTheGames
<1>. QED
  BY <1>3, <1>4

\* CloudsAreTheGames: a cloud occludes exactly while it does in the game and its
\* exported volume is its own (openSmoke, onSmokeExpired, resetSmokes), and every
\* voxel log is replayed and collected once, in order, however the closing
\* handlers wait for slots (closeSmokeVoxels, collectSmokeVoxels).
THEOREM CloudsOfTheGame == Spec => []CloudsAreTheGames
<1>1. Init => CloudInv
  BY CloudInvInit DEF Init
<1>2. BaseInv /\ GrenInv /\ CloudInv /\ [Next]_vars => CloudInv'
  BY CloudInvStep
<1>. QED
  BY <1>1, <1>2, CloudInvIsEnough, BaseAlways, GrenAlways, PTL DEF Spec

-----------------------------------------------------------------------------
(* Fights. *)

ShotRows == [tick : Ticks, attacker : Attackers, round : Rounds, hit : BOOLEAN]

DamageRows == [tick : Ticks, attacker : Attackers, victim : Victims, round : Rounds,
               spot : 0 .. MaxTick, bullet : 1 .. MaxShots, claimed : Nat]

ShotReports == [kind : {"fire"}, attacker : Attackers]

HarmReports == [kind : {"hurt", "kill"}, attacker : Attackers, victim : Victims,
                bullet : 1 .. MaxShots]

Shooter == engine[Len(engine)].attacker

\* What the engine has still to report is of one bullet, the next one, and its
\* shot comes last.
EngineInv ==
    /\ engine \in Seq(ShotReports \cup HarmReports)
    /\ engine # <<>> =>
         /\ engine[Len(engine)] \in ShotReports
         /\ \A i \in 1 .. Len(engine) - 1 :
              /\ engine[i] \in HarmReports
              /\ <<engine[i].attacker, engine[i].victim>> \in Pairs
              /\ engine[i].attacker = Shooter
              /\ engine[i].bullet = Len(shots) + 1
         /\ Len(shots) < MaxShots
         /\ \A k \in Shot(Shooter) : tick - shots[k].tick >= Cadence

ShotsInv ==
    /\ shots \in Seq(ShotRows) /\ Len(shots) <= MaxShots
    /\ lastShot \in [Attackers -> 0 .. Len(shots)]
    /\ \A k \in DOMAIN shots :
         /\ shots[k].tick <= tick
         /\ \A j \in DOMAIN shots : j < k /\ shots[j].attacker = shots[k].attacker =>
              shots[k].tick - shots[j].tick >= Cadence

\* What is known of the bullet b of a that did, or will do, a damage.
OfItsBullet(a, b) ==
    IF b \in DOMAIN shots
    THEN shots[b].attacker = a /\ (tick - shots[b].tick <= Late => lastShot[a] = b)
    ELSE engine # <<>> /\ b = Len(shots) + 1 /\ a = Shooter

\* A damage that is to come.
IsHarm(r) ==
    /\ r.attacker \in Attackers /\ r.victim \in Victims /\ r.bullet \in 1 .. MaxShots
    /\ <<r.attacker, r.victim>> \in Pairs

LateInv == \A r \in late : IsHarm(r) /\ OfItsBullet(r.attacker, r.bullet)

PendingInv ==
    /\ pendingHits \subseteq DOMAIN damages
    /\ finalized => pendingHits = {}
    /\ \A i \in pendingHits :
         LET d == damages[i]
         IN  /\ d.tick = tick
             /\ OfItsBullet(d.attacker, d.bullet)
             /\ d.bullet \in DOMAIN shots => tick - shots[d.bullet].tick <= Late

ClaimsInv ==
    /\ damages \in Seq(DamageRows)
    /\ \A i \in DOMAIN damages : damages[i].claimed \in 0 .. Len(shots)
    /\ \A i \in DOMAIN damages \ pendingHits :
         IF damages[i].bullet \in DOMAIN shots
         THEN damages[i].claimed = damages[i].bullet ELSE finalized
    /\ \A k \in DOMAIN shots : shots[k].hit =>
         \E i \in DOMAIN damages \ pendingHits : damages[i].claimed = k

HitInv == EngineInv /\ ShotsInv /\ LateInv /\ PendingInv /\ ClaimsInv

SightInv ==
    /\ {visStart, fovEntry, fovLosProbe} \subseteq [Pairs -> 0 .. MaxTick]
    /\ \A p \in Pairs :
         /\ visStart[p] <= tick /\ fovEntry[p] <= tick
         /\ visStart[p] # 0 => p \in spotters /\ visStart[p] >= starts[currentRound]
         /\ fovEntry[p] # 0 => fovEntry[p] >= starts[currentRound]
    /\ \A i \in DOMAIN damages :
         /\ damages[i].round <= currentRound
         /\ damages[i].spot # 0 => damages[i].spot \in starts[damages[i].round] .. damages[i].tick

EngagementRows == [id : Nat \ {0}, round : Rounds, spotTick : 0 .. MaxTick, fired : Nat,
                   hit : BOOLEAN, tracked : BOOLEAN]

AimRows == [id : Nat \ {0}, pair : Pairs, round : Rounds, firstShotFired : BOOLEAN,
            firstShotHit : BOOLEAN, firstShot : Nat]

\* Who is to die of the bullet that is being reported.
Dying == {engine[i].victim : i \in {j \in DOMAIN engine : engine[j].kind = "kill"}}

PlayersInv ==
    /\ alive \subseteq Fighters /\ spotters \subseteq Pairs /\ framesAlive \subseteq Fighters
    /\ spotted \subseteq [pair : Pairs, round : Rounds]

OpenInv ==
    /\ engagements \in [Pairs -> {NoEngagement} \cup EngagementRows]
    /\ openings \in Seq(Rounds)
    /\ \A p \in Open :
         LET e == engagements[p]
         IN  /\ e.id \in DOMAIN openings /\ openings[e.id] = e.round /\ e.round = currentRound
             /\ [pair |-> p, round |-> e.round] \in spotted
             /\ {p[1], p[2]} \subseteq alive \cup Dying
             /\ e.id \in signalled <=> e.fired > 0 \/ e.tracked
             /\ \A q \in Open : engagements[q].id = e.id => q = p
    /\ finalized => Open = {}

ClosedInv ==
    /\ aimEngagements \in Seq(AimRows)
    /\ signalled \subseteq DOMAIN openings
    /\ \A i, j \in DOMAIN aimEngagements : aimEngagements[i].id = aimEngagements[j].id => i = j
    /\ {aimEngagements[i].id : i \in DOMAIN aimEngagements}
         = signalled \ {engagements[p].id : p \in Open}
    /\ \A i \in DOMAIN aimEngagements :
         /\ aimEngagements[i].round = openings[aimEngagements[i].id]
         /\ [pair |-> aimEngagements[i].pair, round |-> aimEngagements[i].round] \in spotted

AimInv == PlayersInv /\ OpenInv /\ ClosedInv

FightInv == HitInv /\ SightInv /\ AimInv

LEMMA FightSteps ==
    ASSUME scene \in Scenes, [Next]_vars
    PROVE  \/ \E pairs \in SUBSET Pairs : FireBullet(pairs)
           \/ OnPlayerHurt
           \/ OnLateHurt
           \/ OnKill
           \/ OnWeaponFire
           \/ \E pairs \in SUBSET Pairs : OnPlayerSpottersChanged(pairs)
           \/ \E gap \in 1 .. MaxGap : \E pairs \in SUBSET Pairs :
                ClockFrame(gap) /\ FrameFights(pairs)
           \/ ClockRoundStart /\ RoundStartFights
           \/ ClockFinalize /\ FinalizeFights
           \/ /\ UNCHANGED fightVars
              /\ UNCHANGED <<tick, currentRound, starts, finalized>>
<1>. USE ScenesAssumption
<1>1. CASE GameFires
  BY <1>1 DEF GameFires, FireBullet, clock, clock
<1>2. CASE Hurt
  BY <1>2 DEF Hurt, OnPlayerHurt, OnLateHurt, clock, clock
<1>3. CASE Kill
  BY <1>3 DEF Kill, OnKill, clock, clock
<1>4. CASE WeaponFire
  BY <1>4 DEF WeaponFire, OnWeaponFire, clock, clock
<1>5. CASE SpottersChanged
  BY <1>5 DEF SpottersChanged, OnPlayerSpottersChanged, clock, clock
<1>6. CASE GrenadeThrow
  BY <1>6 DEF GrenadeThrow, clock
<1>7. CASE GrenadeDestroy
  BY <1>7 DEF GrenadeDestroy, clock
<1>8. CASE HeExplode
  BY <1>8 DEF HeExplode, clock
<1>9. CASE FireGrenadeStart
  BY <1>9 DEF FireGrenadeStart, clock
<1>10. CASE BombEvent
  BY <1>10 DEF BombEvent, clock
<1>11. CASE Fire
  BY <1>11 DEF Fire, clock
<1>12. CASE SmokeStart
  BY <1>12 DEF SmokeStart, clock
<1>13. CASE SmokeExpired
  BY <1>13 DEF SmokeExpired, clock
<1>14. CASE FrameDone
  BY <1>14, ScenesAssumption DEF FrameDone, clock
<1>15. CASE RoundStart
  BY <1>15 DEF RoundStart, clock
<1>16. CASE FreezetimeEnd
  BY <1>16 DEF FreezetimeEnd, clock, ClockFreezeEnd
<1>17. CASE EndOfficial
  BY <1>17 DEF EndOfficial, clock, ClockEndOfficial
<1>18. CASE Finalize
  BY <1>18 DEF Finalize, clock
<1>19. CASE Replays
  BY <1>19 DEF Replays, clock
<1>20. CASE Others
  BY <1>20 DEF Others, clock
<1>21. CASE Returned
  BY <1>21 DEF Returned, vars, clock, vars
<1>22. CASE UNCHANGED vars
  BY <1>22 DEF vars, clock
<1>. QED
  BY <1>1, <1>2, <1>3, <1>4, <1>5, <1>6, <1>7, <1>8, <1>9, <1>10, <1>11, <1>12, <1>13, <1>14, <1>15, <1>16, <1>17, <1>18, <1>19, <1>20, <1>21,
     <1>22 DEF Next

LEMMA FightersAreFinite ==
    /\ IsFiniteSet(Fighters) /\ IsFiniteSet(Victims) /\ IsFiniteSet(Pairs)
    /\ \A p \in Pairs : p[1] \in Attackers /\ p[2] \in Victims
    /\ \A a, v : <<a, v>> \in Pairs => a \in Attackers /\ v \in Victims
<1>1. IsFiniteSet(Pairs)
  BY FightsAssumption
<1>2. IsFiniteSet({p[1] : p \in Pairs}) /\ IsFiniteSet({p[2] : p \in Pairs})
  <2>1. ASSUME NEW k PROVE IsFiniteSet({p[k] : p \in Pairs})
    <3> DEFINE f == [p \in Pairs |-> p[k]]
               T == {p[k] : p \in Pairs}
    <3>1. f \in Surjection(Pairs, T)
      BY DEF Surjection
    <3>. HIDE DEF f, T
    <3>2. IsFiniteSet(T)
      BY <1>1, <3>1, FS_Surjection
    <3>. QED
      BY <3>2 DEF T
  <2>. QED
    BY <2>1
<1>3. IsFiniteSet(Attackers \cup Victims)
  BY <1>2, FS_Union DEF Attackers, Victims
<1>4. \A p \in Pairs : p[1] \in Attackers /\ p[2] \in Victims
  BY DEF Attackers, Victims
<1>5. ASSUME NEW a, NEW v, <<a, v>> \in Pairs
      PROVE  a \in Attackers /\ v \in Victims
  BY <1>4, <1>5
<1>. QED
  BY <1>1, <1>2, <1>3, <1>4, <1>5 DEF Fighters, Victims

\* A finite set as a sequence has each of its elements once.
LEMMA SetToSeqIs ==
    ASSUME NEW S, IsFiniteSet(S)
    PROVE  /\ SetToSeq(S) \in Seq(S)
           /\ \A i, j \in DOMAIN SetToSeq(S) : SetToSeq(S)[i] = SetToSeq(S)[j] => i = j
           /\ \A x \in S : \E i \in DOMAIN SetToSeq(S) : SetToSeq(S)[i] = x
<1> DEFINE n == Cardinality(S)
           f == SetToSeq(S)
<1>1. n \in Nat
  BY FS_CardinalityType
<1>2. \E g : ExistsBijection(1 .. n, S)
  BY FS_NatBijection, FS_CountingElements, <1>1
<1>3. PICK g : g \in Bijection(1 .. n, S)
  BY <1>2 DEF ExistsBijection
<1>4. g \in [1 .. n -> S] /\ IsInjective(g)
  BY <1>3 DEF Bijection, Injection
<1>5. f \in [1 .. n -> S] /\ IsInjective(f)
  BY <1>4 DEF SetToSeq
<1>. HIDE DEF f
<1>6. f \in Surjection(1 .. n, S)
  <2>1. f \in Injection(1 .. n, S)
    BY <1>5 DEF Injection
  <2>2. IsFiniteSet(1 .. n) /\ Cardinality(1 .. n) = n
    BY <1>1, FS_Interval
  <2>. QED
    BY <2>1, <2>2, FS_Injection
<1>7. \A x \in S : \E i \in 1 .. n : f[i] = x
  BY <1>6 DEF Surjection
<1>. QED
  BY <1>1, <1>5, <1>7 DEF f, IsInjective

\* Two lists and one thing more.
LEMMA TwoAndLast ==
    ASSUME NEW S, NEW a \in Seq(S), NEW b \in Seq(S), NEW f
    PROVE  LET c == a \o b \o <<f>>
           IN  /\ Len(c) = Len(a) + Len(b) + 1 /\ c # <<>>
               /\ c[Len(c)] = f
               /\ \A i \in 1 .. Len(c) - 1 : c[i] \in S
               /\ \A j \in 1 .. Len(b) : \E i \in 1 .. Len(c) - 1 : c[i] = b[j]
               /\ \A T : S \subseteq T /\ f \in T => c \in Seq(T)
<1> DEFINE d == a \o b
           c == d \o <<f>>
           U == S \cup {f}
<1>1. d \in Seq(S) /\ Len(d) = Len(a) + Len(b)
  BY ConcatProperties
<1>2. \A i \in 1 .. Len(d) : d[i] \in S
  BY <1>1
<1>3. \A j \in 1 .. Len(b) : d[Len(a) + j] = b[j] /\ Len(a) + j \in 1 .. Len(d)
  BY <1>1, ConcatProperties
<1>4. d \in Seq(U) /\ <<f>> \in Seq(U) /\ Len(<<f>>) = 1 /\ <<f>>[1] = f
  BY <1>1
<1>. HIDE DEF d
<1>5. /\ c \in Seq(U) /\ Len(c) = Len(d) + 1
      /\ \A i \in 1 .. Len(d) : c[i] = d[i]
      /\ c[Len(d) + 1] = f
  <2>1. /\ c \in Seq(U) /\ Len(c) = Len(d) + Len(<<f>>)
        /\ \A i \in 1 .. Len(c) : c[i] = IF i <= Len(d) THEN d[i] ELSE <<f>>[i - Len(d)]
    BY <1>4, ConcatProperties
  <2>2. Len(d) \in Nat
    BY <1>1
  <2>. QED
    BY <1>4, <2>1, <2>2
<1>6. Len(d) \in Nat /\ Len(c) - 1 = Len(d) /\ c # <<>>
  BY <1>1, <1>5
<1>7. ASSUME NEW j \in 1 .. Len(b) PROVE \E i \in 1 .. Len(c) - 1 : c[i] = b[j]
  BY <1>3, <1>5, <1>6
<1>8. ASSUME NEW T, S \subseteq T, f \in T PROVE c \in Seq(T)
  <2>1. U \subseteq T
    BY <1>8
  <2>2. \A i \in 1 .. Len(c) : c[i] \in U
    BY <1>5
  <2>3. c = [i \in 1 .. Len(c) |-> c[i]] /\ Len(c) \in Nat
    BY <1>5
  <2>. HIDE DEF c, U
  <2>. QED
    BY <2>1, <2>2, <2>3, ASeqOf
<1>. QED
  BY <1>1, <1>2, <1>5, <1>6, <1>7, <1>8 DEF d

-----------------------------------------------------------------------------
(* The matching of hits. *)

\* What resolveHits goes through.
HitLists == [damages : [DOMAIN damages -> DamageRows], shots : [DOMAIN shots -> ShotRows]]

SameDamage(d, e) ==
    /\ d.tick = e.tick /\ d.attacker = e.attacker /\ d.victim = e.victim
    /\ d.round = e.round /\ d.spot = e.spot /\ d.bullet = e.bullet

SameShot(s, t) == s.tick = t.tick /\ s.attacker = t.attacker /\ s.round = t.round

\* What the n first damages have come to, in lists.
Matched(n, lists) ==
    /\ \A i \in DOMAIN damages :
         LET d == lists.damages[i]
         IN  /\ SameDamage(d, damages[i])
             /\ d.claimed \in 0 .. Len(shots)
             /\ i \notin pendingHits \/ i > n => d.claimed = damages[i].claimed
             /\ i \in pendingHits /\ i <= n /\ d.bullet \in DOMAIN shots => d.claimed = d.bullet
    /\ \A k \in DOMAIN shots :
         /\ SameShot(lists.shots[k], shots[k])
         /\ lists.shots[k].hit =>
              \/ shots[k].hit
              \/ \E i \in pendingHits : i <= n /\ lists.damages[i].claimed = k

LEMMA HitFacts ==
    ASSUME HitInv, BaseInv
    PROVE  /\ DOMAIN shots = 1 .. Len(shots) /\ Len(shots) \in Nat
           /\ DOMAIN damages = 1 .. Len(damages) /\ Len(damages) \in Nat
           /\ \A k \in DOMAIN shots : shots[k] \in ShotRows
           /\ \A i \in DOMAIN damages : damages[i] \in DamageRows
           /\ shots \in [DOMAIN shots -> ShotRows] /\ damages \in [DOMAIN damages -> DamageRows]
           /\ {SprayTicks, Cadence, Late, tick, MaxTick, MaxShots} \subseteq Nat
           /\ Late < Cadence /\ Late < SprayTicks
           /\ Ticks \subseteq Nat
           /\ lastShot \in [Attackers -> 0 .. Len(shots)]
<1>1. shots \in Seq(ShotRows) /\ damages \in Seq(DamageRows)
  BY DEF HitInv, ShotsInv, ClaimsInv
<1>2. {SprayTicks, Cadence, Late, MaxShots} \subseteq Nat /\ Late < Cadence /\ Late < SprayTicks
  BY FightsAssumption
<1>3. tick \in Nat /\ MaxTick \in Nat
  BY ClockAssumption DEF BaseInv, ClockInv, ClockTypeOK
<1>4. lastShot \in [Attackers -> 0 .. Len(shots)]
  BY DEF HitInv, ShotsInv
<1>. QED
  BY <1>1, <1>2, <1>3, <1>4 DEF Ticks

LEMMA HitNumbers ==
    ASSUME BaseInv
    PROVE  /\ {SprayTicks, Cadence, Late, tick, MaxTick, MaxShots, MaxGap} \subseteq Nat
           /\ Late < Cadence /\ Late < SprayTicks /\ Ticks \subseteq Nat
BY ClockAssumption, FightsAssumption DEF BaseInv, ClockInv, ClockTypeOK, Ticks

LEMMA ClaimIsAShot ==
    ASSUME HitInv, BaseInv, NEW d \in DamageRows, NEW seen \in [DOMAIN shots -> ShotRows]
    PROVE  ShotForHit(d, seen) \in 0 .. Len(shots)
<1> DEFINE own == {i \in DOMAIN seen : /\ seen[i].tick = d.tick
                                       /\ seen[i].attacker = d.attacker
                                       /\ ~ seen[i].hit}
<1>1. own \subseteq 1 .. Len(shots) /\ Len(shots) \in Nat
  BY HitFacts
<1>2. own # {} => Min(own) \in own
  <2>. SUFFICES ASSUME own # {} PROVE Min(own) \in own
    OBVIOUS
  <2>1. own \in SUBSET Nat
    BY <1>1
  <2>. HIDE DEF own
  <2>2. \E x \in own : \A y \in own : x <= y
    BY <2>1, HasLeast
  <2>. QED
    BY <2>2 DEF Min
<1>3. lastShot[d.attacker] \in 0 .. Len(shots)
  BY HitFacts DEF DamageRows
<1>. QED
  BY <1>1, <1>2, <1>3 DEF ShotForHit

\* A damage claims its own bullet's shot, whatever the hits before it have
\* claimed: if the shot is of its tick then there is no other of its player,
\* and else there is none of that tick, and it is the latest.
LEMMA OwnShot ==
    ASSUME HitInv, BaseInv, NEW i \in pendingHits, damages[i].bullet \in DOMAIN shots,
           NEW d, SameDamage(d, damages[i]),
           NEW seen \in [DOMAIN shots -> ShotRows],
           \A k \in DOMAIN shots : SameShot(seen[k], shots[k])
    PROVE  ShotForHit(d, seen) = d.bullet
<1> DEFINE b == damages[i].bullet
           a == damages[i].attacker
           own == {k \in DOMAIN seen : /\ seen[k].tick = d.tick
                                       /\ seen[k].attacker = d.attacker
                                       /\ ~ seen[k].hit}
<1>1. /\ d.bullet = b /\ d.attacker = a /\ d.tick = tick
      /\ b \in DOMAIN shots /\ shots[b].attacker = a
      /\ tick - shots[b].tick <= Late /\ lastShot[a] = b
      /\ shots[b].tick \in Nat /\ shots[b].tick <= tick
      /\ b \in Nat \ {0}
  <2>1. /\ damages[i].tick = tick /\ OfItsBullet(a, b)
        /\ tick - shots[b].tick <= Late
    BY DEF HitInv, PendingInv
  <2>2. shots[b] \in ShotRows /\ b \in 1 .. Len(shots)
    BY HitFacts
  <2>3. shots[b].tick \in Nat /\ shots[b].tick <= tick
    BY <2>2, HitFacts DEF HitInv, ShotsInv, ShotRows
  <2>. QED
    BY <2>1, <2>2, <2>3, HitFacts DEF OfItsBullet, SameDamage
<1>2. ASSUME NEW k \in own PROVE k = b
  <2>1. /\ k \in DOMAIN shots /\ shots[k].tick = tick /\ shots[k].attacker = a
        /\ k \in Nat
    BY <1>1, HitFacts DEF SameShot
  <2>2. \A m, n \in DOMAIN shots : n < m /\ shots[n].attacker = shots[m].attacker =>
             shots[m].tick - shots[n].tick >= Cadence
    BY DEF HitInv, ShotsInv
  <2> DEFINE t == shots[b].tick
  <2>3. {Late, Cadence, tick, t, b, k} \subseteq Nat /\ Late < Cadence /\ tick - t <= Late /\ t <= tick
    BY <1>1, <2>1, HitFacts
  <2>4. k < b => t - tick >= Cadence
    BY <1>1, <2>1, <2>2
  <2>5. b < k => tick - t >= Cadence
    BY <1>1, <2>1, <2>2
  <2>. HIDE DEF t, b
  <2>. QED
    BY <2>3, <2>4, <2>5
<1>3. CASE own = {}
  <2>1. d.tick - seen[b].tick < SprayTicks
    <3>1. seen[b].tick = shots[b].tick /\ d.tick = tick
      BY <1>1 DEF SameShot
    <3>2. {Late, SprayTicks, tick, shots[b].tick} \subseteq Nat /\ Late < SprayTicks
      BY <1>1, HitFacts
    <3>. QED
      BY <1>1, <3>1, <3>2
  <2>. QED
    BY <1>1, <1>3, <2>1 DEF ShotForHit
<1>4. CASE own # {}
  <2>1. own = {b}
    BY <1>2, <1>4
  <2>2. Min({b}) = b
    BY <1>1 DEF Min
  <2>3. ShotForHit(d, seen) = Min(own)
    BY <1>4 DEF ShotForHit
  <2>. HIDE DEF own, b
  <2>. QED
    BY <1>1, <2>1, <2>2, <2>3
<1>. QED
  BY <1>3, <1>4

LEMMA ResolveHitKeeps ==
    ASSUME HitInv, BaseInv, NEW lists \in HitLists, NEW i \in DOMAIN damages
    PROVE  LET k == ShotForHit(lists.damages[i], lists.shots)
               after == ResolveHit(lists, i)
           IN  /\ k \in 0 .. Len(shots)
               /\ after \in HitLists
               /\ \A j \in DOMAIN damages : j # i => after.damages[j] = lists.damages[j]
               /\ after.damages[i].claimed = k
               /\ SameDamage(after.damages[i], lists.damages[i])
               /\ \A m \in DOMAIN shots : m # k => after.shots[m] = lists.shots[m]
               /\ \A m \in DOMAIN shots : SameShot(after.shots[m], lists.shots[m])
<1> DEFINE D == lists.damages
           S == lists.shots
           k == ShotForHit(D[i], S)
           after == ResolveHit(lists, i)
<1>1. D \in [DOMAIN damages -> DamageRows] /\ S \in [DOMAIN shots -> ShotRows]
  BY DEF HitLists
<1>2. k \in 0 .. Len(shots)
  BY <1>1, ClaimIsAShot
<1>3. DOMAIN shots = 1 .. Len(shots) /\ Len(shots) \in Nat
  BY HitFacts
<1>4. k \in Nat /\ (k # 0 => k \in DOMAIN shots)
  BY <1>2, <1>3
<1>5. after = [damages |-> [D EXCEPT ![i].claimed = k],
               shots |-> IF k = 0 THEN S ELSE [S EXCEPT ![k].hit = TRUE]]
  BY DEF ResolveHit
<1>. HIDE DEF D, S, k, after
<1>6. after.damages = [D EXCEPT ![i].claimed = k]
  BY <1>5
<1>7. after.shots = IF k = 0 THEN S ELSE [S EXCEPT ![k].hit = TRUE]
  BY <1>5
<1>8. /\ after.damages \in [DOMAIN damages -> DamageRows]
      /\ \A j \in DOMAIN damages : j # i => after.damages[j] = D[j]
      /\ after.damages[i].claimed = k
      /\ SameDamage(after.damages[i], D[i])
  BY <1>1, <1>4, <1>6 DEF DamageRows, SameDamage
<1>9. /\ after.shots \in [DOMAIN shots -> ShotRows]
      /\ \A m \in DOMAIN shots : m # k => after.shots[m] = S[m]
      /\ \A m \in DOMAIN shots : SameShot(after.shots[m], S[m])
  <2>1. CASE k = 0
    <3>1. \A m \in DOMAIN shots : SameShot(S[m], S[m])
      BY DEF SameShot
    <3>. QED
      BY <1>1, <1>7, <2>1, <3>1
  <2>2. CASE k # 0
    <3>1. after.shots = [S EXCEPT ![k].hit = TRUE] /\ k \in DOMAIN shots
      BY <1>4, <1>7, <2>2
    <3>2. after.shots \in [DOMAIN shots -> ShotRows]
      BY <1>1, <3>1 DEF ShotRows
    <3>3. \A m \in DOMAIN shots : m # k => after.shots[m] = S[m]
      BY <1>1, <3>1
    <3>4. after.shots[k] = [S[k] EXCEPT !.hit = TRUE]
      BY <1>1, <3>1
    <3>5. SameShot(after.shots[k], S[k])
      BY <1>1, <3>1, <3>4 DEF ShotRows, SameShot
    <3>6. \A m \in DOMAIN shots : SameShot(S[m], S[m])
      BY DEF SameShot
    <3>. QED
      BY <3>2, <3>3, <3>5, <3>6
  <2>. QED
    BY <2>1, <2>2
<1>10. after \in HitLists
  BY <1>5, <1>6, <1>7, <1>8, <1>9 DEF HitLists
<1>. QED
  BY <1>2, <1>8, <1>9, <1>10 DEF D, S, k, after

\* The walk that Resolved is the end of.
LEMMA ResolvedIsAWalk ==
    ASSUME HitInv, BaseInv
    PROVE  \E f \in [0 .. Len(damages) -> HitLists] :
             /\ f[0] = [damages |-> damages, shots |-> shots]
             /\ \A i \in 1 .. Len(damages) :
                  f[i] = IF i \in pendingHits THEN ResolveHit(f[i - 1], i) ELSE f[i - 1]
             /\ Resolved = f[Len(damages)]
<1> DEFINE n == Len(damages)
           first == [damages |-> damages, shots |-> shots]
           g == [i \in 1 .. n |->
                   [l \in HitLists |-> IF i \in pendingHits THEN ResolveHit(l, i) ELSE l]]
           Body(f) == [i \in 0 .. n |-> IF i = 0 THEN first
                         ELSE IF i \in pendingHits THEN ResolveHit(f[i - 1], i)
                         ELSE f[i - 1]]
           walk == CHOOSE f : f = Body(f)
<1>1. n \in Nat /\ DOMAIN damages = 1 .. n /\ first \in HitLists
  BY HitFacts DEF HitLists
<1>2. Resolved = walk[n]
  BY DEF Resolved
<1>3. \A i \in 1 .. n : \A l \in HitLists : ResolveHit(l, i) \in HitLists
  BY <1>1, ResolveHitKeeps
<1>4. g \in Strides(n, HitLists)
  BY <1>3 DEF Strides
<1>5. \A i \in 1 .. n : \A l \in HitLists :
        g[i][l] = IF i \in pendingHits THEN ResolveHit(l, i) ELSE l
  OBVIOUS
<1>. HIDE DEF n, first, g
<1>6. PICK f : IsWalk(n, HitLists, first, g, f)
  BY <1>1, <1>4, Walk
<1>7. \A i \in 1 .. n :
        f[i] = IF i \in pendingHits THEN ResolveHit(f[i - 1], i) ELSE f[i - 1]
  <2>1. \A i \in 1 .. n : f[i - 1] \in HitLists
    BY <1>1, <1>6 DEF IsWalk
  <2>. QED
    BY <1>5, <1>6, <2>1 DEF IsWalk
<1>8. f = Body(f)
  <2>1. \A i \in 0 .. n : i = 0 \/ i \in 1 .. n
    BY <1>1
  <2>. QED
    BY <1>6, <1>7, <2>1 DEF IsWalk
<1>9. walk = Body(walk)
  <2>. HIDE DEF Body
  <2>. QED
    BY <1>8
<1>10. /\ walk[0] = first
       /\ \A i \in 1 .. n :
            walk[i] = IF i \in pendingHits THEN ResolveHit(walk[i - 1], i) ELSE walk[i - 1]
  <2>. HIDE DEF walk
  <2>1. \A i \in 0 .. n : walk[i] = Body(walk)[i]
    BY <1>9
  <2>2. 0 \in 0 .. n /\ \A i \in 1 .. n : i \in 0 .. n /\ i # 0
    BY <1>1
  <2>. QED
    BY <2>1, <2>2
<1>11. walk \in [0 .. n -> HitLists]
  <2>. HIDE DEF walk
  <2>1. walk = [i \in 0 .. n |-> walk[i]]
    BY <1>9
  <2> DEFINE T == {i \in 0 .. n : walk[i] \in HitLists}
  <2>2. 0 \in T
    BY <1>1, <1>10
  <2>3. ASSUME NEW i \in 1 .. n, i - 1 \in T PROVE i \in T
    BY <1>1, <1>3, <1>10, <2>3
  <2>. HIDE DEF T
  <2>4. 0 .. n \subseteq T
    BY <1>1, <2>2, <2>3, UpTo
  <2>. QED
    BY <2>1, <2>4 DEF T
<1>. HIDE DEF walk
<1>. QED
  BY <1>2, <1>10, <1>11 DEF n, first

\* One damage more is matched.
LEMMA OneMoreMatched ==
    ASSUME HitInv, BaseInv, NEW i \in 1 .. Len(damages), NEW lists \in HitLists,
           Matched(i - 1, lists), NEW after,
           after = IF i \in pendingHits THEN ResolveHit(lists, i) ELSE lists
    PROVE  Matched(i, after)
<1>a. Len(damages) \in Nat /\ DOMAIN damages = 1 .. Len(damages) /\ i \in Nat
  BY HitFacts
<1>b. \A j \in DOMAIN damages : j \in Nat
  BY <1>a
<1>1. CASE i \notin pendingHits
  <2>1. \A j \in pendingHits : j <= i => j <= i - 1
    BY <1>a, <1>b, <1>1 DEF HitInv, PendingInv
  <2>2. \A j \in DOMAIN damages : j > i => j > i - 1
    BY <1>a, <1>b
  <2>3. \A j \in pendingHits : j <= i - 1 => j <= i
    BY <1>a, <1>b DEF HitInv, PendingInv
  <2>. QED
    BY <1>1, <2>1, <2>2, <2>3 DEF Matched
<1>2. CASE i \in pendingHits
  <2> DEFINE k == ShotForHit(lists.damages[i], lists.shots)
  <2>1. i \in DOMAIN damages /\ after = ResolveHit(lists, i)
    BY <1>a, <1>2
  <2>2. /\ k \in 0 .. Len(shots)
        /\ \A j \in DOMAIN damages : j # i => after.damages[j] = lists.damages[j]
        /\ after.damages[i].claimed = k
        /\ SameDamage(after.damages[i], lists.damages[i])
        /\ \A m \in DOMAIN shots : m # k => after.shots[m] = lists.shots[m]
        /\ \A m \in DOMAIN shots : SameShot(after.shots[m], lists.shots[m])
    <3> DEFINE r == ResolveHit(lists, i)
    <3>1. /\ k \in 0 .. Len(shots)
          /\ \A j \in DOMAIN damages : j # i => r.damages[j] = lists.damages[j]
          /\ r.damages[i].claimed = k
          /\ SameDamage(r.damages[i], lists.damages[i])
          /\ \A m \in DOMAIN shots : m # k => r.shots[m] = lists.shots[m]
          /\ \A m \in DOMAIN shots : SameShot(r.shots[m], lists.shots[m])
      BY <2>1, ResolveHitKeeps
    <3>2. after = r
      BY <2>1
    <3>. HIDE DEF r, k
    <3>. QED
      BY <3>1, <3>2
  <2>3. /\ \A j \in DOMAIN damages : SameDamage(lists.damages[j], damages[j])
        /\ \A m \in DOMAIN shots : SameShot(lists.shots[m], shots[m])
        /\ lists.shots \in [DOMAIN shots -> ShotRows]
    BY DEF Matched, HitLists
  <2>4. damages[i].bullet \in DOMAIN shots => k = damages[i].bullet
    <3>. SUFFICES ASSUME damages[i].bullet \in DOMAIN shots PROVE k = damages[i].bullet
      OBVIOUS
    <3>1. SameDamage(lists.damages[i], damages[i])
      BY <2>1, <2>3
    <3>2. k = lists.damages[i].bullet
      BY <1>2, <2>3, <3>1, OwnShot
    <3>. QED
      BY <3>1, <3>2 DEF SameDamage
  <2>. HIDE DEF k
  <2>5. \A j \in DOMAIN damages : j # i => (j <= i <=> j <= i - 1) /\ (j > i <=> j > i - 1)
    BY <1>a, <1>b
  <2>6. ASSUME NEW j \in DOMAIN damages
        PROVE  LET d == after.damages[j]
               IN  /\ SameDamage(d, damages[j])
                   /\ d.claimed \in 0 .. Len(shots)
                   /\ j \notin pendingHits \/ j > i => d.claimed = damages[j].claimed
                   /\ j \in pendingHits /\ j <= i /\ d.bullet \in DOMAIN shots => d.claimed = d.bullet
    <3>1. CASE j = i
      BY <1>a, <1>2, <2>1, <2>2, <2>3, <2>4, <3>1 DEF SameDamage
    <3>2. CASE j # i
      BY <2>2, <2>5, <3>2 DEF Matched
    <3>. QED
      BY <3>1, <3>2
  <2>7. ASSUME NEW m \in DOMAIN shots
        PROVE  /\ SameShot(after.shots[m], shots[m])
               /\ after.shots[m].hit =>
                    \/ shots[m].hit
                    \/ \E j \in pendingHits : j <= i /\ after.damages[j].claimed = m
    <3>1. SameShot(after.shots[m], shots[m])
      BY <2>2, <2>3 DEF SameShot
    <3>2. CASE m = k
      BY <1>a, <1>2, <2>2, <3>1, <3>2
    <3>3. CASE m # k
      <4>. SUFFICES ASSUME after.shots[m].hit, ~shots[m].hit
                    PROVE  \E j \in pendingHits : j <= i /\ after.damages[j].claimed = m
        BY <3>1
      <4>1. lists.shots[m].hit
        BY <2>2, <3>3
      <4>2. PICK j \in pendingHits : j <= i - 1 /\ lists.damages[j].claimed = m
        BY <4>1 DEF Matched
      <4>3. j \in DOMAIN damages /\ j # i /\ j <= i
        BY <1>a, <1>b, <4>2 DEF HitInv, PendingInv
      <4>. QED
        BY <2>2, <4>2, <4>3
    <3>. QED
      BY <3>2, <3>3
  <2>. QED
    BY <2>6, <2>7 DEF Matched
<1>. QED
  BY <1>1, <1>2

\* resolveHits: the matched lists.
LEMMA ResolvedIs ==
    ASSUME HitInv, BaseInv
    PROVE  Resolved \in HitLists /\ Matched(Len(damages), Resolved)
<1> DEFINE n == Len(damages)
<1>1. PICK f \in [0 .. n -> HitLists] :
             /\ f[0] = [damages |-> damages, shots |-> shots]
             /\ \A i \in 1 .. n :
                  f[i] = IF i \in pendingHits THEN ResolveHit(f[i - 1], i) ELSE f[i - 1]
             /\ Resolved = f[n]
  BY ResolvedIsAWalk
<1>2. n \in Nat
  BY HitFacts
<1> DEFINE T == {i \in 0 .. n : Matched(i, f[i])}
<1>3. 0 \in T
  <2>1. \A i \in pendingHits : ~(i <= 0)
    BY HitFacts DEF HitInv, PendingInv
  <2>2. \A i \in DOMAIN damages : damages[i].claimed \in 0 .. Len(shots)
    BY DEF HitInv, ClaimsInv
  <2>3. Matched(0, f[0])
    BY <1>1, <2>1, <2>2 DEF Matched, SameDamage, SameShot
  <2>. QED
    BY <1>2, <2>3
<1>4. ASSUME NEW i \in 1 .. n, i - 1 \in T PROVE i \in T
  <2>1. f[i - 1] \in HitLists /\ Matched(i - 1, f[i - 1]) /\ i \in 0 .. n
    BY <1>1, <1>2, <1>4
  <2>2. Matched(i, f[i])
    BY <1>1, <2>1, OneMoreMatched
  <2>. QED
    BY <2>1, <2>2
<1>. HIDE DEF T
<1>5. n \in T
  <2>1. 0 .. n \subseteq T
    BY <1>2, <1>3, <1>4, UpTo
  <2>. QED
    BY <1>2, <2>1
<1>. QED
  BY <1>1, <1>2, <1>5 DEF T

\* resolveHits: every pending damage has its shot, and is pending no more.
LEMMA ResolveKeeps ==
    ASSUME HitInv, BaseInv, ResolveHits,
           engine = <<>> \/ finalized', finalized => finalized'
    PROVE  /\ shots' \in Seq(ShotRows) /\ Len(shots') = Len(shots)
           /\ DOMAIN shots' = DOMAIN shots
           /\ \A k \in DOMAIN shots : SameShot(shots'[k], shots[k])
           /\ Len(damages') = Len(damages) /\ DOMAIN damages' = DOMAIN damages
           /\ \A i \in DOMAIN damages : SameDamage(damages'[i], damages[i])
           /\ pendingHits' = {}
           /\ ClaimsInv'
<1>a. /\ shots' = Resolved.shots /\ damages' = Resolved.damages /\ pendingHits' = {}
  BY DEF ResolveHits
<1>b. Resolved \in HitLists /\ Matched(Len(damages), Resolved)
  BY ResolvedIs
<1>c. /\ DOMAIN shots = 1 .. Len(shots) /\ Len(shots) \in Nat
      /\ DOMAIN damages = 1 .. Len(damages) /\ Len(damages) \in Nat
  BY HitFacts
<1>1. shots' \in [1 .. Len(shots) -> ShotRows] /\ damages' \in [1 .. Len(damages) -> DamageRows]
  BY <1>a, <1>b, <1>c DEF HitLists
<1>2. shots' \in Seq(ShotRows) /\ Len(shots') = Len(shots)
  BY <1>1, <1>c
<1>3. damages' \in Seq(DamageRows) /\ Len(damages') = Len(damages)
  BY <1>1, <1>c
<1>4. DOMAIN shots' = DOMAIN shots /\ DOMAIN damages' = DOMAIN damages
  BY <1>1, <1>c
<1>5. /\ \A i \in DOMAIN damages :
            LET d == damages'[i]
            IN  /\ SameDamage(d, damages[i])
                /\ d.claimed \in 0 .. Len(shots)
                /\ i \notin pendingHits => d.claimed = damages[i].claimed
                /\ i \in pendingHits /\ d.bullet \in DOMAIN shots => d.claimed = d.bullet
      /\ \A k \in DOMAIN shots :
            /\ SameShot(shots'[k], shots[k])
            /\ shots'[k].hit =>
                 \/ shots[k].hit
                 \/ \E i \in pendingHits : damages'[i].claimed = k
  <2>1. \A i \in DOMAIN damages : i <= Len(damages)
    BY <1>c
  <2>. QED
    BY <1>a, <1>b, <2>1 DEF Matched
<1>6. pendingHits \subseteq DOMAIN damages
  BY DEF HitInv, PendingInv
<1>7. ASSUME NEW i \in DOMAIN damages'
      PROVE  IF damages'[i].bullet \in DOMAIN shots'
             THEN damages'[i].claimed = damages'[i].bullet ELSE finalized'
  <2>1. i \in DOMAIN damages /\ damages'[i].bullet = damages[i].bullet
    BY <1>4, <1>5 DEF SameDamage
  <2>2. CASE i \in pendingHits
    <3>1. OfItsBullet(damages[i].attacker, damages[i].bullet)
      BY <2>2 DEF HitInv, PendingInv
    <3>2. damages[i].bullet \notin DOMAIN shots => finalized'
      BY <3>1 DEF OfItsBullet
    <3>. QED
      BY <1>4, <1>5, <2>1, <2>2, <3>2
  <2>3. CASE i \notin pendingHits
    <3>1. IF damages[i].bullet \in DOMAIN shots
          THEN damages[i].claimed = damages[i].bullet ELSE finalized
      BY <2>1, <2>3 DEF HitInv, ClaimsInv
    <3>. QED
      BY <1>4, <1>5, <2>1, <2>3, <3>1
  <2>. QED
    BY <2>2, <2>3
<1>8. ASSUME NEW k \in DOMAIN shots', shots'[k].hit
      PROVE  \E i \in DOMAIN damages' : damages'[i].claimed = k
  <2>1. CASE shots[k].hit
    <3>1. PICK i \in DOMAIN damages \ pendingHits : damages[i].claimed = k
      BY <1>4, <2>1 DEF HitInv, ClaimsInv
    <3>. QED
      BY <1>4, <1>5, <3>1
  <2>2. CASE \E i \in pendingHits : damages'[i].claimed = k
    BY <1>4, <1>6, <2>2
  <2>. QED
    BY <1>4, <1>5, <1>8, <2>1, <2>2
<1>9. ClaimsInv'
  BY <1>2, <1>3, <1>4, <1>5, <1>7, <1>8, <1>a DEF ClaimsInv
<1>. QED
  BY <1>2, <1>3, <1>4, <1>5, <1>9, <1>a

\* Shots that have only been hit are as far apart as they were.
LEMMA ShotsStaySpaced ==
    ASSUME HitInv, BaseInv, shots' \in Seq(ShotRows), Len(shots') = Len(shots),
           DOMAIN shots' = DOMAIN shots,
           \A k \in DOMAIN shots : SameShot(shots'[k], shots[k]),
           lastShot' \in [Attackers -> 0 .. Len(shots)],
           tick' \in Nat, tick <= tick'
    PROVE  ShotsInv'
<1>1. \A k \in DOMAIN shots' : shots'[k].tick <= tick'
  <2>1. ASSUME NEW k \in DOMAIN shots PROVE shots[k].tick \in Nat /\ shots[k].tick <= tick
    BY HitFacts DEF ShotRows, HitInv, ShotsInv
  <2>2. tick \in Nat
    BY HitFacts
  <2>. QED
    BY <2>1, <2>2 DEF SameShot
<1>2. \A k, j \in DOMAIN shots' : j < k /\ shots'[j].attacker = shots'[k].attacker =>
        shots'[k].tick - shots'[j].tick >= Cadence
  BY DEF SameShot, HitInv, ShotsInv
<1>3. Len(shots') <= MaxShots
  BY DEF HitInv, ShotsInv
<1>. QED
  BY <1>1, <1>2, <1>3 DEF ShotsInv

LEMMA FrameKeepsHits ==
    ASSUME HitInv, BaseInv, NEW gap \in 1 .. MaxGap, ClockFrame(gap),
           NEW pairs, FrameFights(pairs)
    PROVE  HitInv'
<1>1. /\ engine = <<>> /\ engine' = <<>> /\ late' = late /\ lastShot' = lastShot
      /\ ResolveHits /\ finalized' = finalized
      /\ tick' \in tick + 1 .. tick + gap
  BY DEF FrameFights, gameVars, ClockFrame
<1>2. tick \in Nat /\ tick' \in Nat /\ tick < tick' /\ tick <= tick'
  <2>1. tick \in Nat /\ MaxGap \in Nat
    BY HitNumbers
  <2>. QED
    BY <1>1, <2>1
<1>3. /\ shots' \in Seq(ShotRows) /\ Len(shots') = Len(shots)
      /\ DOMAIN shots' = DOMAIN shots
      /\ \A k \in DOMAIN shots : SameShot(shots'[k], shots[k])
      /\ pendingHits' = {} /\ ClaimsInv'
  BY <1>1, ResolveKeeps
<1>4. ShotsInv'
  <2>1. lastShot' \in [Attackers -> 0 .. Len(shots)]
    BY <1>1, HitFacts
  <2>. QED
    BY <1>2, <1>3, <2>1, ShotsStaySpaced
<1>5. EngineInv'
  BY <1>1, EmptySeq DEF EngineInv
<1>6. ASSUME NEW r \in late' PROVE OfItsBullet(r.attacker, r.bullet)'
  <2>1. OfItsBullet(r.attacker, r.bullet)
    BY <1>1, <1>6 DEF HitInv, LateInv
  <2> DEFINE b == r.bullet
  <2>2. b \in DOMAIN shots /\ shots[b].attacker = r.attacker
        /\ (tick - shots[b].tick <= Late => lastShot[r.attacker] = b)
    BY <1>1, <2>1 DEF OfItsBullet
  <2>3. shots[b].tick \in Nat /\ shots'[b].tick = shots[b].tick
        /\ shots'[b].attacker = r.attacker
    BY <1>3, <2>2, HitFacts DEF ShotRows, SameShot
  <2>4. tick' - shots'[b].tick <= Late => tick - shots[b].tick <= Late
    BY <1>2, <2>3, HitNumbers
  <2>. QED
    BY <1>1, <1>3, <2>2, <2>3, <2>4 DEF OfItsBullet
<1>7. LateInv'
  <2>1. \A r \in late' : IsHarm(r)
    BY <1>1 DEF HitInv, LateInv
  <2>2. \A r \in late' : OfItsBullet(r.attacker, r.bullet)'
    BY <1>6
  <2>. QED
    BY <2>1, <2>2 DEF LateInv
<1>8. PendingInv'
  BY <1>3 DEF PendingInv
<1>. QED
  BY <1>3, <1>4, <1>5, <1>7, <1>8 DEF HitInv

LEMMA RoundStartKeepsHits ==
    ASSUME HitInv, BaseInv, ClockRoundStart, RoundStartFights
    PROVE  HitInv'
<1>1. /\ engine = <<>> /\ engine' = <<>> /\ late' = {} /\ lastShot' = [a \in Attackers |-> 0]
      /\ ResolveHits /\ finalized' = finalized /\ tick' = tick
  BY DEF RoundStartFights, ClockRoundStart
<1>2. tick \in Nat /\ tick' \in Nat /\ tick <= tick'
  BY <1>1, HitFacts
<1>3. /\ shots' \in Seq(ShotRows) /\ Len(shots') = Len(shots)
      /\ DOMAIN shots' = DOMAIN shots
      /\ \A k \in DOMAIN shots : SameShot(shots'[k], shots[k])
      /\ pendingHits' = {} /\ ClaimsInv'
  BY <1>1, ResolveKeeps
<1>4. lastShot' \in [Attackers -> 0 .. Len(shots)]
  BY <1>1, HitFacts
<1>5. ShotsInv'
  BY <1>2, <1>3, <1>4, ShotsStaySpaced
<1>6. EngineInv' /\ LateInv' /\ PendingInv'
  BY <1>1, <1>3, EmptySeq DEF EngineInv, LateInv, PendingInv
<1>. QED
  BY <1>3, <1>5, <1>6 DEF HitInv

LEMMA FinalizeKeepsHits ==
    ASSUME HitInv, BaseInv, ClockFinalize, FinalizeFights
    PROVE  HitInv'
<1>1. /\ engine' = engine /\ late' = late /\ lastShot' = lastShot
      /\ ResolveHits /\ finalized' /\ tick' = tick
  BY DEF FinalizeFights, ClockFinalize, gameVars
<1>2. tick \in Nat /\ tick' \in Nat /\ tick <= tick'
  BY <1>1, HitFacts
<1>3. /\ shots' \in Seq(ShotRows) /\ Len(shots') = Len(shots)
      /\ DOMAIN shots' = DOMAIN shots
      /\ \A k \in DOMAIN shots : SameShot(shots'[k], shots[k])
      /\ pendingHits' = {} /\ ClaimsInv'
  BY <1>1, ResolveKeeps
<1>4. lastShot' \in [Attackers -> 0 .. Len(shots)]
  BY <1>1, HitFacts
<1>5. ShotsInv'
  BY <1>2, <1>3, <1>4, ShotsStaySpaced
<1>6. Shooter' = Shooter
  BY <1>1 DEF Shooter
<1>7. Shot(Shooter)' = Shot(Shooter)
  BY <1>3, <1>6 DEF Shot, SameShot
<1>8. EngineInv'
  <2>1. \A k \in Shot(Shooter)' : tick' - shots'[k].tick = tick - shots[k].tick /\ k \in Shot(Shooter)
    BY <1>1, <1>3, <1>7 DEF Shot, SameShot
  <2>. QED
    BY <1>1, <1>3, <1>6, <2>1 DEF HitInv, EngineInv
<1>9. ASSUME NEW r \in late' PROVE OfItsBullet(r.attacker, r.bullet)'
  <2>1. OfItsBullet(r.attacker, r.bullet)
    BY <1>1, <1>9 DEF HitInv, LateInv
  <2>. QED
    BY <1>1, <1>3, <1>6, <2>1 DEF OfItsBullet, SameShot
<1>10. LateInv'
  <2>1. \A r \in late' : IsHarm(r)
    BY <1>1 DEF HitInv, LateInv
  <2>2. \A r \in late' : OfItsBullet(r.attacker, r.bullet)'
    BY <1>9
  <2>. QED
    BY <2>1, <2>2 DEF LateInv
<1>11. PendingInv'
  BY <1>3 DEF PendingInv
<1>. QED
  BY <1>3, <1>5, <1>8, <1>10, <1>11 DEF HitInv

-----------------------------------------------------------------------------
(* The reports of a bullet. *)

LEMMA ReportFacts ==
    ASSUME EngineInv, engine # <<>>
    PROVE  /\ Len(engine) \in Nat \ {0} /\ DOMAIN engine = 1 .. Len(engine)
           /\ Head(engine) = engine[1]
           /\ Shooter \in Attackers
           /\ Len(Tail(engine)) = Len(engine) - 1
           /\ \A i \in 1 .. Len(engine) - 1 : Tail(engine)[i] = engine[i + 1]
           /\ Tail(engine) \in Seq(ShotReports \cup HarmReports)
           /\ engine[1].kind = "fire" => Len(engine) = 1 /\ engine[1].attacker = Shooter
           /\ engine[1].kind # "fire" => Len(engine) > 1
<1> DEFINE n == Len(engine)
           S == ShotReports \cup HarmReports
<1>1. engine \in Seq(S) /\ engine # <<>>
  BY DEF EngineInv
<1>2. /\ n \in Nat \ {0} /\ DOMAIN engine = 1 .. n /\ Head(engine) = engine[1]
      /\ Tail(engine) \in Seq(S) /\ Len(Tail(engine)) = n - 1
      /\ \A i \in 1 .. n - 1 : Tail(engine)[i] = engine[i + 1]
  <2>. HIDE DEF S
  <2>1. /\ Tail(engine) \in Seq(S) /\ Len(Tail(engine)) = Len(engine) - 1
        /\ \A i \in 1 .. Len(Tail(engine)) : Tail(engine)[i] = engine[i + 1]
    BY <1>1, HeadTailProperties
  <2>. QED
    BY <1>1, <2>1
<1>3. engine[n] \in ShotReports /\ \A i \in 1 .. n - 1 : engine[i] \in HarmReports
  BY DEF EngineInv
<1>4. engine[n].kind = "fire" /\ engine[n].attacker \in Attackers
  BY <1>3 DEF ShotReports
<1>5. \A i \in 1 .. n - 1 : engine[i].kind # "fire"
  <2>1. \A x \in HarmReports : x.kind # "fire"
    BY DEF HarmReports
  <2>. QED
    BY <1>3, <2>1
<1>6. n = 1 \/ 1 \in 1 .. n - 1
  BY <1>2
<1>7. engine[1].kind = "fire" => n = 1
  BY <1>5, <1>6
<1>8. engine[1].kind # "fire" => n > 1
  BY <1>2, <1>4
<1>. QED
  BY <1>2, <1>4, <1>7, <1>8 DEF Shooter

\* A damage or a death that is reported is of the bullet whose shot comes last.
LEMMA HarmReported ==
    ASSUME EngineInv, engine # <<>>, Head(engine).kind # "fire"
    PROVE  /\ IsHarm(Head(engine))
           /\ Head(engine).attacker = Shooter /\ Head(engine).bullet = Len(shots) + 1
           /\ Tail(engine) # <<>>
           /\ Tail(engine)[Len(Tail(engine))] = engine[Len(engine)]
<1>1. /\ Len(engine) \in Nat \ {0} /\ Len(engine) > 1 /\ Head(engine) = engine[1]
      /\ Len(Tail(engine)) = Len(engine) - 1
      /\ \A i \in 1 .. Len(engine) - 1 : Tail(engine)[i] = engine[i + 1]
  BY ReportFacts
<1>2. 1 \in 1 .. Len(engine) - 1 /\ Len(engine) - 1 \in 1 .. Len(engine) - 1
  BY <1>1
<1>3. /\ engine[1] \in HarmReports /\ <<engine[1].attacker, engine[1].victim>> \in Pairs
      /\ engine[1].attacker = Shooter /\ engine[1].bullet = Len(shots) + 1
  BY <1>2 DEF EngineInv
<1>4. Tail(engine)[Len(engine) - 1] = engine[Len(engine)]
  <2>1. (Len(engine) - 1) + 1 = Len(engine)
    BY <1>1
  <2>. QED
    BY <1>1, <1>2, <2>1
<1>5. Tail(engine) # <<>>
  BY <1>1
<1>6. IsHarm(engine[1])
  BY <1>3 DEF IsHarm, HarmReports
<1>. QED
  BY <1>1, <1>3, <1>4, <1>5, <1>6

LEMMA HarmKeepsEngine ==
    ASSUME EngineInv, engine # <<>>, Head(engine).kind # "fire",
           engine' = Tail(engine), UNCHANGED <<shots, tick>>
    PROVE  EngineInv' /\ engine' # <<>> /\ Shooter' = Shooter
<1>1. /\ Len(engine) \in Nat \ {0} /\ Len(engine) > 1
      /\ Len(engine') = Len(engine) - 1 /\ engine' \in Seq(ShotReports \cup HarmReports)
      /\ \A i \in 1 .. Len(engine) - 1 : engine'[i] = engine[i + 1]
  BY ReportFacts
<1>2. engine' # <<>> /\ engine'[Len(engine')] = engine[Len(engine)]
  BY HarmReported
<1>3. Shooter' = Shooter
  BY <1>2 DEF Shooter
<1>4. \A i \in 1 .. Len(engine') - 1 : engine'[i] = engine[i + 1] /\ i + 1 \in 1 .. Len(engine) - 1
  BY <1>1
<1>5. Shot(Shooter)' = Shot(Shooter)
  BY <1>3 DEF Shot
<1>6. \A k \in Shot(Shooter)' : tick' - shots'[k].tick >= Cadence
  BY <1>2, <1>5 DEF EngineInv
<1>7. /\ engine'[Len(engine')] \in ShotReports /\ Len(shots') < MaxShots
      /\ \A i \in 1 .. Len(engine') - 1 :
            /\ engine'[i] \in HarmReports
            /\ <<engine'[i].attacker, engine'[i].victim>> \in Pairs
            /\ engine'[i].attacker = Shooter'
            /\ engine'[i].bullet = Len(shots') + 1
  BY <1>2, <1>3, <1>4 DEF EngineInv
<1>. QED
  BY <1>1, <1>2, <1>3, <1>6, <1>7 DEF EngineInv

\* onPlayerHurt: one damage more waits for the shot of its own bullet.
LEMMA HurtKeeps ==
    ASSUME HitInv, SightInv, BaseInv, Parsing,
           NEW r, IsHarm(r), OfItsBullet(r.attacker, r.bullet),
           r.bullet \in DOMAIN shots => tick - shots[r.bullet].tick <= Late,
           PlayerHurt(r), UNCHANGED clock,
           engine = <<>> \/ (engine' # <<>> /\ Shooter' = Shooter)
    PROVE  ShotsInv' /\ ClaimsInv' /\ PendingInv'
<1> DEFINE p == <<r.attacker, r.victim>>
           row == [tick |-> tick, attacker |-> r.attacker, victim |-> r.victim,
                   round |-> currentRound, spot |-> visStart[p],
                   bullet |-> r.bullet, claimed |-> 0]
           n == Len(damages)
<1>1. /\ damages' = Append(damages, row) /\ pendingHits' = pendingHits \cup {n + 1}
      /\ UNCHANGED <<shots, lastShot, tick, finalized>>
  BY DEF PlayerHurt, clock
<1>2. row \in DamageRows
  <2>1. tick \in Ticks /\ currentRound \in Rounds
    BY DEF Parsing, BaseInv, ClockInv, ClockTypeOK, Ticks, Rounds
  <2>2. visStart[p] \in 0 .. MaxTick
    BY DEF SightInv, IsHarm
  <2>. QED
    BY <2>1, <2>2 DEF DamageRows, IsHarm
<1>. HIDE DEF row
<1>3. damages \in Seq(DamageRows) /\ n \in Nat /\ DOMAIN damages = 1 .. n
  BY HitFacts DEF HitInv, ClaimsInv
<1>4. /\ damages' \in Seq(DamageRows) /\ DOMAIN damages' = 1 .. n + 1
      /\ damages'[n + 1] = row /\ \A i \in 1 .. n : damages'[i] = damages[i]
  BY <1>1, <1>2, <1>3, AppendProperties
<1>5. pendingHits \subseteq 1 .. n /\ ~finalized
  BY <1>3 DEF HitInv, PendingInv, Parsing
<1>6. /\ (DOMAIN damages') \ pendingHits' = (DOMAIN damages) \ pendingHits
      /\ \A i \in (DOMAIN damages) \ pendingHits : damages'[i] = damages[i]
  BY <1>1, <1>3, <1>4, <1>5
<1>7. ShotsInv'
  BY <1>1 DEF HitInv, ShotsInv
<1>8. ClaimsInv'
  <2>1. row.claimed \in 0 .. Len(shots)
    BY HitFacts DEF row
  <2>2. \A i \in DOMAIN damages' : damages'[i].claimed \in 0 .. Len(shots)
    <3>1. \A i \in 1 .. n : damages[i].claimed \in 0 .. Len(shots)
      BY <1>3 DEF HitInv, ClaimsInv
    <3>2. \A i \in 1 .. n + 1 : i \in 1 .. n \/ i = n + 1
      BY <1>3
    <3>. QED
      BY <1>4, <2>1, <3>1, <3>2
  <2>3. \A i \in (DOMAIN damages') \ pendingHits' :
          IF damages'[i].bullet \in DOMAIN shots'
          THEN damages'[i].claimed = damages'[i].bullet ELSE finalized'
    BY <1>1, <1>6 DEF HitInv, ClaimsInv
  <2>4. \A k \in DOMAIN shots' : shots'[k].hit =>
          \E i \in (DOMAIN damages') \ pendingHits' : damages'[i].claimed = k
    BY <1>1, <1>6 DEF HitInv, ClaimsInv
  <2>. QED
    BY <1>1, <1>4, <2>2, <2>3, <2>4 DEF ClaimsInv
<1>9. ASSUME NEW i \in pendingHits'
      PROVE  LET d == damages'[i]
             IN  /\ d.tick = tick
                 /\ IF d.bullet \in DOMAIN shots
                    THEN /\ shots[d.bullet].attacker = d.attacker
                         /\ tick - shots[d.bullet].tick <= Late
                         /\ lastShot[d.attacker] = d.bullet
                    ELSE engine' # <<>> /\ d.bullet = Len(shots) + 1 /\ d.attacker = Shooter'
  <2>1. CASE i \in pendingHits
    <3>1. damages'[i] = damages[i]
      BY <1>4, <1>5, <2>1
    <3>2. LET d == damages[i]
          IN  /\ d.tick = tick
              /\ OfItsBullet(d.attacker, d.bullet)
              /\ d.bullet \in DOMAIN shots => tick - shots[d.bullet].tick <= Late
      BY <2>1 DEF HitInv, PendingInv
    <3>. QED
      BY <3>1, <3>2 DEF OfItsBullet
  <2>2. CASE i = n + 1
    <3>1. damages'[i] = row
      BY <1>4, <2>2
    <3>2. row.tick = tick /\ row.attacker = r.attacker /\ row.bullet = r.bullet
      BY DEF row
    <3>. QED
      BY <3>1, <3>2 DEF OfItsBullet
  <2>. QED
    BY <1>1, <2>1, <2>2
<1>10. PendingInv'
  <2>1. pendingHits' \subseteq DOMAIN damages'
    BY <1>1, <1>3, <1>4, <1>5
  <2>2. ~finalized'
    BY <1>1, <1>5
  <2>. QED
    BY <1>1, <1>9, <2>1, <2>2 DEF PendingInv, OfItsBullet
<1>. QED
  BY <1>7, <1>8, <1>10

\* What is known of a bullet stays so while its reports come in.
LEMMA LateStays ==
    ASSUME HitInv, UNCHANGED <<shots, lastShot, tick>>, late' \subseteq late,
           engine = <<>> \/ (engine' # <<>> /\ Shooter' = Shooter)
    PROVE  LateInv'
<1>1. ASSUME NEW r \in late' PROVE OfItsBullet(r.attacker, r.bullet)'
  <2>1. OfItsBullet(r.attacker, r.bullet)
    BY <1>1 DEF HitInv, LateInv
  <2>. QED
    BY <2>1 DEF OfItsBullet
<1>2. \A r \in late' : IsHarm(r)
  BY DEF HitInv, LateInv
<1>3. \A r \in late' : OfItsBullet(r.attacker, r.bullet)'
  BY <1>1
<1>. QED
  BY <1>2, <1>3 DEF LateInv

LEMMA PlayerHurtKeepsHits ==
    ASSUME HitInv, SightInv, BaseInv, OnPlayerHurt
    PROVE  HitInv'
<1> DEFINE r == Head(engine)
<1>1. /\ Parsing /\ engine # <<>> /\ r.kind = "hurt" /\ PlayerHurt(r)
      /\ engine' = Tail(engine) /\ late' = late /\ UNCHANGED clock
  BY DEF OnPlayerHurt, Report
<1>2. EngineInv /\ r.kind # "fire"
  BY <1>1 DEF HitInv
<1>3. UNCHANGED <<shots, lastShot, tick>>
  BY <1>1 DEF PlayerHurt, clock
<1>4. EngineInv' /\ engine' # <<>> /\ Shooter' = Shooter
  BY <1>1, <1>2, <1>3, HarmKeepsEngine
<1>5. /\ IsHarm(r) /\ OfItsBullet(r.attacker, r.bullet) /\ r.bullet \notin DOMAIN shots
  <2>1. IsHarm(r) /\ r.attacker = Shooter /\ r.bullet = Len(shots) + 1
    BY <1>1, <1>2, HarmReported
  <2>2. r.bullet \notin DOMAIN shots
    BY <2>1, HitFacts
  <2>. QED
    BY <1>1, <2>1, <2>2 DEF OfItsBullet
<1>. HIDE DEF r
<1>6. ShotsInv' /\ ClaimsInv' /\ PendingInv'
  BY <1>1, <1>4, <1>5, HurtKeeps
<1>7. LateInv'
  BY <1>1, <1>3, <1>4, LateStays
<1>. QED
  BY <1>4, <1>6, <1>7 DEF HitInv

LEMMA LateHurtKeepsHits ==
    ASSUME HitInv, SightInv, BaseInv, OnLateHurt
    PROVE  HitInv'
<1>1. PICK r \in late :
        /\ tick \in shots[r.bullet].tick + 1 .. shots[r.bullet].tick + Late
        /\ PlayerHurt(r) /\ late' = late \ {r}
        /\ Parsing /\ engine = <<>> /\ engine' = <<>> /\ UNCHANGED clock
  BY DEF OnLateHurt
<1>2. UNCHANGED <<shots, lastShot, tick>>
  BY <1>1 DEF PlayerHurt, clock
<1>3. IsHarm(r) /\ OfItsBullet(r.attacker, r.bullet)
  BY DEF HitInv, LateInv
<1>4. tick - shots[r.bullet].tick <= Late
  <2>1. r.bullet \in DOMAIN shots
    BY <1>1, <1>3 DEF OfItsBullet
  <2>2. shots[r.bullet].tick \in Nat
    BY <2>1, HitFacts DEF ShotRows
  <2>3. tick \in Nat /\ Late \in Nat
    BY HitNumbers
  <2>4. \A x, y, z \in Nat : y \in x + 1 .. x + z => y - x <= z
    OBVIOUS
  <2>. QED
    BY <1>1, <2>2, <2>3, <2>4
<1>5. ShotsInv' /\ ClaimsInv' /\ PendingInv'
  BY <1>1, <1>3, <1>4, HurtKeeps
<1>6. LateInv'
  BY <1>1, <1>2, LateStays
<1>7. EngineInv'
  BY <1>1, EmptySeq DEF EngineInv
<1>. QED
  BY <1>5, <1>6, <1>7 DEF HitInv

\* The hits are as they were, while the clock stands still.
LEMMA PendingStays ==
    ASSUME HitInv, UNCHANGED <<hitVars, tick, finalized>>,
           engine = <<>> \/ (engine' # <<>> /\ Shooter' = Shooter)
    PROVE  ShotsInv' /\ PendingInv' /\ ClaimsInv'
<1>1. UNCHANGED <<shots, damages, lastShot, pendingHits, tick, finalized>>
  BY DEF hitVars
<1>2. ShotsInv' /\ ClaimsInv'
  BY <1>1 DEF HitInv, ShotsInv, ClaimsInv
<1>3. ASSUME NEW i \in pendingHits
      PROVE  LET d == damages[i]
             IN  /\ d.tick = tick
                 /\ IF d.bullet \in DOMAIN shots
                    THEN /\ shots[d.bullet].attacker = d.attacker
                         /\ tick - shots[d.bullet].tick <= Late
                         /\ lastShot[d.attacker] = d.bullet
                    ELSE engine' # <<>> /\ d.bullet = Len(shots) + 1 /\ d.attacker = Shooter'
  BY DEF HitInv, PendingInv, OfItsBullet
<1>4. PendingInv'
  BY <1>1, <1>3 DEF HitInv, PendingInv, OfItsBullet
<1>. QED
  BY <1>2, <1>4

LEMMA KillKeepsHits ==
    ASSUME HitInv, OnKill
    PROVE  HitInv'
<1>1. /\ engine # <<>> /\ Head(engine).kind # "fire" /\ engine' = Tail(engine) /\ late' = late
      /\ UNCHANGED hitVars /\ UNCHANGED <<shots, lastShot, tick, finalized>>
  BY DEF OnKill, Report, hitVars, clock
<1>2. EngineInv' /\ engine' # <<>> /\ Shooter' = Shooter
  BY <1>1, HarmKeepsEngine DEF HitInv
<1>3. ShotsInv' /\ PendingInv' /\ ClaimsInv'
  BY <1>1, <1>2, PendingStays
<1>4. LateInv'
  BY <1>1, <1>2, LateStays
<1>. QED
  BY <1>2, <1>3, <1>4 DEF HitInv

\* onWeaponFire: the shot that the damages before it were of.
LEMMA WeaponFireKeepsHits ==
    ASSUME HitInv, BaseInv, OnWeaponFire
    PROVE  HitInv'
<1> DEFINE a == Head(engine).attacker
           n == Len(shots)
           shot == [tick |-> tick, attacker |-> a, round |-> currentRound, hit |-> FALSE]
<1>1. /\ Parsing /\ engine # <<>> /\ Head(engine).kind = "fire" /\ engine' = Tail(engine)
      /\ shots' = Append(shots, shot) /\ lastShot' = [lastShot EXCEPT ![a] = n + 1]
      /\ UNCHANGED <<late, damages, pendingHits, tick, finalized>>
  BY DEF OnWeaponFire, Report, clock
<1>2. /\ Len(engine) = 1 /\ a = Shooter /\ a \in Attackers /\ engine' = <<>>
      /\ n < MaxShots /\ \A k \in Shot(a) : tick - shots[k].tick >= Cadence
  <2>1. EngineInv
    BY DEF HitInv
  <2>2. Len(engine) = 1 /\ a = Shooter /\ a \in Attackers
    BY <1>1, <2>1, ReportFacts
  <2>3. engine' \in Seq(ShotReports \cup HarmReports) /\ Len(engine') = 0
    BY <1>1, <2>1, <2>2, ReportFacts
  <2>4. engine' = <<>>
    <3>. HIDE DEF n
    <3>. QED
      BY <2>3, EmptySeq
  <2>5. n < MaxShots /\ \A k \in Shot(Shooter) : tick - shots[k].tick >= Cadence
    BY <1>1, <2>1 DEF EngineInv
  <2>. QED
    BY <2>2, <2>4, <2>5
<1>3. shot \in ShotRows
  <2>1. tick \in Ticks /\ currentRound \in Rounds
    BY <1>1 DEF Parsing, BaseInv, ClockInv, ClockTypeOK, Ticks, Rounds
  <2>. QED
    BY <1>2, <2>1 DEF ShotRows
<1>4. /\ shots \in Seq(ShotRows) /\ n \in Nat /\ DOMAIN shots = 1 .. n
      /\ lastShot \in [Attackers -> 0 .. n]
  BY HitFacts DEF HitInv, ShotsInv
<1>. HIDE DEF a, n, shot
<1>5. /\ shots' \in Seq(ShotRows) /\ Len(shots') = n + 1 /\ DOMAIN shots' = 1 .. n + 1
      /\ shots'[n + 1] = shot /\ \A k \in 1 .. n : shots'[k] = shots[k]
  BY <1>1, <1>3, <1>4, AppendProperties DEF n
<1>6. lastShot' \in [Attackers -> 0 .. n + 1] /\ lastShot'[a] = n + 1
      /\ \A c \in Attackers : c # a => lastShot'[c] = lastShot[c]
  <2>1. n + 1 \in 0 .. n + 1 /\ 0 .. n \subseteq 0 .. n + 1
    BY <1>4
  <2>. QED
    BY <1>1, <1>2, <1>4, <2>1
<1>7. shot.tick = tick /\ shot.attacker = a /\ ~shot.hit /\ tick \in Nat
  BY HitNumbers DEF shot
<1>8. ASSUME NEW k \in 1 .. n
      PROVE  /\ shots[k].tick \in Nat /\ shots[k].tick <= tick
             /\ shots[k].attacker = a => tick - shots[k].tick >= Cadence
  BY <1>2, <1>4, HitFacts DEF ShotRows, HitInv, ShotsInv, Shot
<1>9. ShotsInv'
  <2>1. \A k \in 1 .. n + 1 : k \in 1 .. n \/ k = n + 1
    BY <1>4
  <2>2. \A k \in DOMAIN shots' : shots'[k].tick <= tick'
    BY <1>1, <1>5, <1>7, <1>8, <2>1
  <2>3. ASSUME NEW k \in DOMAIN shots', NEW j \in DOMAIN shots', j < k,
               shots'[j].attacker = shots'[k].attacker
        PROVE  shots'[k].tick - shots'[j].tick >= Cadence
    <3>1. j \in 1 .. n
      BY <1>4, <1>5, <2>3
    <3>2. CASE k = n + 1
      BY <1>5, <1>7, <1>8, <2>3, <3>1, <3>2
    <3>3. CASE k \in 1 .. n
      <4>1. shots[k].tick - shots[j].tick >= Cadence
        BY <1>4, <1>5, <2>3, <3>1, <3>3 DEF HitInv, ShotsInv
      <4>. QED
        BY <1>5, <3>1, <3>3, <4>1
    <3>. QED
      BY <1>5, <2>1, <3>2, <3>3
  <2>4. n + 1 <= MaxShots
    <3>1. n \in Nat /\ n < MaxShots
      BY <1>2, <1>4
    <3>2. MaxShots \in Nat
      BY HitNumbers
    <3>. QED
      BY <3>1, <3>2
  <2>. QED
    BY <1>5, <1>6, <2>2, <2>3, <2>4 DEF ShotsInv
<1>10. ASSUME NEW c \in Attackers, NEW b, OfItsBullet(c, b)
       PROVE  /\ b \in 1 .. n + 1 /\ shots'[b].attacker = c
              /\ tick - shots'[b].tick <= Late => lastShot'[c] = b
              /\ b \notin 1 .. n => tick - shots'[b].tick <= Late
              /\ b \in 1 .. n => shots'[b] = shots[b]
  <2>1. CASE b \in 1 .. n
    <3>1. shots[b].attacker = c /\ (tick - shots[b].tick <= Late => lastShot[c] = b)
      BY <1>4, <1>10, <2>1 DEF OfItsBullet
    <3>2. c = a => ~(tick - shots[b].tick <= Late)
      <4>. SUFFICES ASSUME c = a PROVE ~(tick - shots[b].tick <= Late)
        OBVIOUS
      <4> DEFINE t == shots[b].tick
      <4>1. t \in Nat /\ tick - t >= Cadence
        BY <1>8, <2>1, <3>1
      <4>2. {tick, Cadence, Late} \subseteq Nat /\ Late < Cadence
        BY HitNumbers
      <4>. HIDE DEF t
      <4>3. ~(tick - t <= Late)
        BY <4>1, <4>2
      <4>. QED
        BY <4>3 DEF t
    <3>3. b \in 1 .. n + 1
      BY <1>4, <2>1
    <3>. QED
      BY <1>5, <1>6, <2>1, <3>1, <3>2, <3>3
  <2>2. CASE b \notin 1 .. n
    <3>1. b = n + 1 /\ c = a
      BY <1>2, <1>4, <1>10, <2>2 DEF OfItsBullet, n
    <3>2. tick - shot.tick <= Late
      <4>1. tick - tick = 0 /\ Late \in Nat
        BY HitNumbers
      <4>. QED
        BY <1>7, <4>1
    <3>. QED
      BY <1>4, <1>5, <1>6, <1>7, <3>1, <3>2
  <2>. QED
    BY <2>1, <2>2
<1>11. LateInv'
  <2>1. ASSUME NEW r \in late' PROVE IsHarm(r) /\ OfItsBullet(r.attacker, r.bullet)'
    <3>1. IsHarm(r) /\ OfItsBullet(r.attacker, r.bullet) /\ r.attacker \in Attackers
      BY <1>1, <2>1 DEF HitInv, LateInv, IsHarm
    <3>2. /\ r.bullet \in 1 .. n + 1 /\ shots'[r.bullet].attacker = r.attacker
          /\ tick - shots'[r.bullet].tick <= Late => lastShot'[r.attacker] = r.bullet
      BY <1>10, <3>1
    <3>. QED
      BY <1>1, <1>5, <3>1, <3>2 DEF OfItsBullet
  <2>2. \A r \in late' : IsHarm(r)
    BY <2>1
  <2>3. \A r \in late' : OfItsBullet(r.attacker, r.bullet)'
    BY <2>1
  <2>. QED
    BY <2>2, <2>3 DEF LateInv
<1>12. PendingInv'
  <2>1. ASSUME NEW i \in pendingHits
        PROVE  LET d == damages[i]
               IN  /\ d.tick = tick /\ d.bullet \in 1 .. n + 1
                   /\ shots'[d.bullet].attacker = d.attacker
                   /\ tick - shots'[d.bullet].tick <= Late
                   /\ lastShot'[d.attacker] = d.bullet
    <3> DEFINE d == damages[i]
    <3>1. d.tick = tick /\ OfItsBullet(d.attacker, d.bullet)
          /\ (d.bullet \in 1 .. n => tick - shots[d.bullet].tick <= Late)
      BY <1>4 DEF HitInv, PendingInv
    <3>2. d.attacker \in Attackers
      <4>1. d \in DamageRows
        BY HitFacts DEF HitInv, PendingInv
      <4>. QED
        BY <4>1 DEF DamageRows
    <3>. HIDE DEF d
    <3>3. /\ d.bullet \in 1 .. n + 1 /\ shots'[d.bullet].attacker = d.attacker
          /\ tick - shots'[d.bullet].tick <= Late => lastShot'[d.attacker] = d.bullet
          /\ d.bullet \notin 1 .. n => tick - shots'[d.bullet].tick <= Late
          /\ d.bullet \in 1 .. n => shots'[d.bullet] = shots[d.bullet]
      BY <1>10, <3>1, <3>2
    <3>4. tick - shots'[d.bullet].tick <= Late
      <4>1. CASE d.bullet \in 1 .. n
        <5>1. shots'[d.bullet] = shots[d.bullet] /\ tick - shots[d.bullet].tick <= Late
          BY <3>1, <3>3, <4>1
        <5>. QED
          BY <5>1
      <4>2. CASE d.bullet \notin 1 .. n
        BY <3>3, <4>2
      <4>. QED
        BY <4>1, <4>2
    <3>. QED
      BY <3>1, <3>3, <3>4 DEF d
  <2>. QED
    BY <1>1, <1>5, <2>1 DEF HitInv, PendingInv, OfItsBullet
<1>13. ClaimsInv'
  <2>1. damages' \in Seq(DamageRows)
    BY <1>1 DEF HitInv, ClaimsInv
  <2>2. \A i \in DOMAIN damages' : damages'[i].claimed \in 0 .. n + 1
    <3>1. \A i \in DOMAIN damages : damages[i].claimed \in 0 .. n
      BY DEF HitInv, ClaimsInv, n
    <3>2. 0 .. n \subseteq 0 .. n + 1
      BY <1>4
    <3>. QED
      BY <1>1, <3>1, <3>2
  <2>3. ASSUME NEW i \in (DOMAIN damages') \ pendingHits'
        PROVE  IF damages'[i].bullet \in DOMAIN shots'
               THEN damages'[i].claimed = damages'[i].bullet ELSE finalized'
    <3>1. IF damages[i].bullet \in 1 .. n
          THEN damages[i].claimed = damages[i].bullet ELSE finalized
      BY <1>1, <1>4, <2>3 DEF HitInv, ClaimsInv
    <3>2. ~finalized
      BY <1>1 DEF Parsing
    <3>3. 1 .. n \subseteq DOMAIN shots'
      BY <1>4, <1>5
    <3>. QED
      BY <1>1, <3>1, <3>2, <3>3
  <2>4. ASSUME NEW k \in DOMAIN shots', shots'[k].hit
        PROVE  \E i \in (DOMAIN damages') \ pendingHits' : damages'[i].claimed = k
    <3>1. k \in 1 .. n
      BY <1>4, <1>5, <1>7, <2>4
    <3>2. shots[k].hit
      BY <1>5, <2>4, <3>1
    <3>. QED
      BY <1>1, <1>4, <3>1, <3>2 DEF HitInv, ClaimsInv
  <2>. QED
    BY <1>5, <2>1, <2>2, <2>3, <2>4 DEF ClaimsInv
<1>14. EngineInv'
  BY <1>2, EmptySeq DEF EngineInv
<1>. QED
  BY <1>9, <1>11, <1>12, <1>13, <1>14 DEF HitInv

\* A bullet is fired: its damages, its deaths, its shot.
LEMMA FireKeepsHits ==
    ASSUME HitInv, BaseInv, alive \subseteq Fighters, NEW pairs \in SUBSET Pairs, FireBullet(pairs)
    PROVE  /\ HitInv'
           /\ alive' \subseteq alive
           /\ \A v \in alive \ alive' : \E i \in DOMAIN engine' :
                engine'[i].kind = "kill" /\ engine'[i].victim = v
<1> DEFINE n == Len(shots)
           Harm(kind, a, v) == [kind |-> kind, attacker |-> a, victim |-> v, bullet |-> n + 1]
<1>0. PICK a \in Attackers \cap alive :
        /\ engine = <<>> /\ n < MaxShots /\ UNCHANGED <<clock, hitVars>>
        /\ \A i \in Shot(a) : tick - shots[i].tick >= Cadence
        /\ \E fate \in [{v \in alive : <<a, v>> \in pairs} -> {"none", "hurt", "kill", "late"}] :
             LET With(fs) == {v \in DOMAIN fate : fate[v] \in fs}
                 Reports(kind, vs) == SetToSeq({Harm(kind, a, v) : v \in vs})
             IN  /\ engine' = Reports("hurt", With({"hurt", "kill"}))
                              \o Reports("kill", With({"kill"}))
                              \o <<[kind |-> "fire", attacker |-> a]>>
                 /\ late' = late \cup {[attacker |-> a, victim |-> v, bullet |-> n + 1]
                                        : v \in With({"late"})}
                 /\ alive' = alive \ With({"kill"})
  BY DEF FireBullet
<1>1. PICK fate \in [{v \in alive : <<a, v>> \in pairs} -> {"none", "hurt", "kill", "late"}] :
        /\ engine = <<>> /\ n < MaxShots /\ UNCHANGED <<clock, hitVars>>
        /\ \A i \in Shot(a) : tick - shots[i].tick >= Cadence
        /\ LET With(fs) == {v \in DOMAIN fate : fate[v] \in fs}
               Reports(kind, vs) == SetToSeq({Harm(kind, a, v) : v \in vs})
           IN  /\ engine' = Reports("hurt", With({"hurt", "kill"}))
                            \o Reports("kill", With({"kill"}))
                            \o <<[kind |-> "fire", attacker |-> a]>>
               /\ late' = late \cup {[attacker |-> a, victim |-> v, bullet |-> n + 1]
                                      : v \in With({"late"})}
               /\ alive' = alive \ With({"kill"})
  BY <1>0
<1> DEFINE H == {v \in DOMAIN fate : fate[v] \in {"hurt", "kill"}}
           K == {v \in DOMAIN fate : fate[v] \in {"kill"}}
           L == {v \in DOMAIN fate : fate[v] \in {"late"}}
           hurts == {Harm("hurt", a, v) : v \in H}
           kills == {Harm("kill", a, v) : v \in K}
           fire == [kind |-> "fire", attacker |-> a]
           S == {x \in HarmReports : <<x.attacker, x.victim>> \in Pairs /\ x.attacker = a
                                      /\ x.bullet = n + 1}
<1>2. /\ engine' = SetToSeq(hurts) \o SetToSeq(kills) \o <<fire>>
      /\ late' = late \cup {[attacker |-> a, victim |-> v, bullet |-> n + 1] : v \in L}
      /\ alive' = alive \ K
  BY <1>1
<1>3. /\ \A v \in H \cup K \cup L : v \in alive /\ <<a, v>> \in Pairs /\ v \in Victims
      /\ n + 1 \in 1 .. MaxShots /\ n \in Nat
  <2>1. \A v \in H \cup K \cup L : v \in alive /\ <<a, v>> \in Pairs
    BY <1>1
  <2>2. \A v \in H \cup K \cup L : v \in Victims
    BY <2>1, FightersAreFinite
  <2>3. n \in Nat /\ MaxShots \in Nat
    BY HitFacts, HitNumbers
  <2>. QED
    BY <1>1, <2>1, <2>2, <2>3
<1>4. hurts \subseteq S /\ kills \subseteq S
  <2>1. ASSUME NEW v \in H \cup K, NEW kind \in {"hurt", "kill"} PROVE Harm(kind, a, v) \in S
    BY <1>1, <1>3 DEF HarmReports
  <2>. QED
    BY <2>1
<1>5. IsFiniteSet(hurts) /\ IsFiniteSet(kills)
  <2>1. ASSUME NEW V, V \subseteq Victims, NEW kind PROVE IsFiniteSet({Harm(kind, a, v) : v \in V})
    <3> DEFINE T == {Harm(kind, a, v) : v \in V}
               f == [v \in V |-> Harm(kind, a, v)]
    <3>1. IsFiniteSet(V)
      BY <2>1, FightersAreFinite, FS_Subset
    <3>2. f \in Surjection(V, T)
      BY DEF Surjection
    <3>. HIDE DEF f, T
    <3>3. IsFiniteSet(T)
      BY <3>1, <3>2, FS_Surjection
    <3>. QED
      BY <3>3 DEF T
  <2>2. H \subseteq Victims /\ K \subseteq Victims
    BY <1>3
  <2>. HIDE DEF H, K, Harm
  <2>. QED
    BY <2>1, <2>2
<1>6. SetToSeq(hurts) \in Seq(S) /\ SetToSeq(kills) \in Seq(S)
      /\ \A x \in kills : \E i \in DOMAIN SetToSeq(kills) : SetToSeq(kills)[i] = x
  <2>. HIDE DEF hurts, kills, S
  <2>1. SetToSeq(hurts) \in Seq(hurts) /\ SetToSeq(kills) \in Seq(kills)
        /\ \A x \in kills : \E i \in DOMAIN SetToSeq(kills) : SetToSeq(kills)[i] = x
    BY <1>5, SetToSeqIs
  <2>. QED
    BY <1>4, <2>1
<1>7. fire \in ShotReports /\ fire.attacker = a
  BY <1>1 DEF ShotReports
<1>8. S \subseteq HarmReports /\ \A x \in S : /\ <<x.attacker, x.victim>> \in Pairs
                                           /\ x.attacker = a /\ x.bullet = n + 1
  OBVIOUS
<1>. HIDE DEF S, fire
<1>9. /\ engine' # <<>> /\ engine'[Len(engine')] = fire
      /\ \A i \in 1 .. Len(engine') - 1 : engine'[i] \in S
      /\ engine' \in Seq(ShotReports \cup HarmReports)
      /\ \A j \in 1 .. Len(SetToSeq(kills)) : \E i \in 1 .. Len(engine') - 1 :
            engine'[i] = SetToSeq(kills)[j]
  <2>. HIDE DEF hurts, kills
  <2> DEFINE s == SetToSeq(hurts)
             t == SetToSeq(kills)
             c == s \o t \o <<fire>>
  <2>1. s \in Seq(S) /\ t \in Seq(S)
    BY <1>6
  <2>2. S \subseteq ShotReports \cup HarmReports /\ fire \in ShotReports \cup HarmReports
    BY <1>7, <1>8
  <2>. HIDE DEF s, t
  <2>3. /\ c # <<>> /\ c[Len(c)] = fire
        /\ \A i \in 1 .. Len(c) - 1 : c[i] \in S
        /\ \A j \in 1 .. Len(t) : \E i \in 1 .. Len(c) - 1 : c[i] = t[j]
        /\ \A T : S \subseteq T /\ fire \in T => c \in Seq(T)
    BY <2>1, TwoAndLast
  <2>4. engine' = c
    BY <1>2 DEF s, t
  <2>. HIDE DEF c
  <2>. QED
    BY <2>2, <2>3, <2>4 DEF t
<1>10. UNCHANGED <<shots, damages, lastShot, pendingHits, tick, finalized>>
  BY <1>1 DEF hitVars, clock
<1>11. Shooter' = a
  BY <1>7, <1>9 DEF Shooter
<1>12. EngineInv'
  <2>1. Shot(Shooter)' = Shot(a)
    BY <1>10, <1>11 DEF Shot
  <2>. QED
    BY <1>1, <1>7, <1>8, <1>9, <1>10, <1>11, <2>1 DEF EngineInv
<1>13. ShotsInv' /\ PendingInv' /\ ClaimsInv'
  BY <1>1, <1>10, PendingStays
<1>14. LateInv'
  <2>1. ASSUME NEW r \in late PROVE IsHarm(r) /\ OfItsBullet(r.attacker, r.bullet)'
    <3>1. IsHarm(r) /\ OfItsBullet(r.attacker, r.bullet)
      BY DEF HitInv, LateInv
    <3>. QED
      BY <1>1, <1>10, <3>1 DEF OfItsBullet
  <2>2. ASSUME NEW v \in L, NEW r, r = [attacker |-> a, victim |-> v, bullet |-> n + 1]
        PROVE  IsHarm(r) /\ OfItsBullet(r.attacker, r.bullet)'
    <3>1. IsHarm(r)
      BY <1>1, <1>3, <2>2 DEF IsHarm
    <3>2. r.attacker = a /\ r.bullet = n + 1
      BY <2>2
    <3>3. n + 1 \notin DOMAIN shots
      BY <1>3, HitFacts
    <3>. QED
      BY <1>9, <1>10, <1>11, <3>1, <3>2, <3>3 DEF OfItsBullet
  <2>3. \A r \in late' : IsHarm(r)
    BY <1>2, <2>1, <2>2
  <2>4. \A r \in late' : OfItsBullet(r.attacker, r.bullet)'
    BY <1>2, <2>1, <2>2
  <2>. QED
    BY <2>3, <2>4 DEF LateInv
<1>15. ASSUME NEW v \in alive \ alive'
       PROVE  \E i \in DOMAIN engine' : engine'[i].kind = "kill" /\ engine'[i].victim = v
  <2>1. v \in K /\ Harm("kill", a, v) \in kills
    BY <1>2, <1>15
  <2>2. PICK j \in DOMAIN SetToSeq(kills) : SetToSeq(kills)[j] = Harm("kill", a, v)
    BY <1>6, <2>1
  <2>. HIDE DEF kills
  <2>3. j \in 1 .. Len(SetToSeq(kills))
    BY <1>6
  <2>4. PICK i \in 1 .. Len(engine') - 1 : engine'[i] = Harm("kill", a, v)
    BY <1>9, <2>2, <2>3
  <2>5. i \in DOMAIN engine'
    BY <1>9
  <2>. QED
    BY <2>4, <2>5
<1>. QED
  BY <1>2, <1>12, <1>13, <1>14, <1>15 DEF HitInv

LEMMA HitInvInit == FightsInit /\ ClockInit => HitInv
<1>. SUFFICES ASSUME FightsInit, ClockInit PROVE HitInv
  OBVIOUS
<1>1. /\ engine = <<>> /\ shots = <<>> /\ damages = <<>> /\ late = {} /\ pendingHits = {}
      /\ lastShot = [a \in Attackers |-> 0] /\ finalized = FALSE
      /\ Len(shots) = 0 /\ DOMAIN shots = {} /\ DOMAIN damages = {}
  BY EmptySeq DEF FightsInit, ClockInit
<1>2. shots \in Seq(ShotRows) /\ damages \in Seq(DamageRows)
      /\ engine \in Seq(ShotReports \cup HarmReports)
  BY <1>1, EmptySeq
<1>3. Len(shots) <= MaxShots
  BY <1>1, FightsAssumption
<1>. QED
  BY <1>1, <1>2, <1>3 DEF HitInv, EngineInv, ShotsInv, LateInv, PendingInv, ClaimsInv

LEMMA HitInvIdle ==
    ASSUME HitInv, UNCHANGED <<hitVars, engine, late, tick, finalized>>
    PROVE  HitInv'
<1>1. UNCHANGED <<shots, damages, lastShot, pendingHits, engine, late, tick, finalized>>
  BY DEF hitVars
<1>. QED
  BY <1>1 DEF HitInv, EngineInv, ShotsInv, LateInv, PendingInv, ClaimsInv, Shooter, Shot, OfItsBullet

LEMMA HitInvStep ==
    ASSUME BaseInv, HitInv, SightInv, alive \subseteq Fighters, [Next]_vars
    PROVE  HitInv'
<1>a. scene \in Scenes
  BY DEF BaseInv
<1>1. CASE \E pairs \in SUBSET Pairs : FireBullet(pairs)
  BY <1>1, FireKeepsHits
<1>2. CASE OnPlayerHurt
  BY <1>2, PlayerHurtKeepsHits
<1>3. CASE OnLateHurt
  BY <1>3, LateHurtKeepsHits
<1>4. CASE OnKill
  BY <1>4, KillKeepsHits
<1>5. CASE OnWeaponFire
  BY <1>5, WeaponFireKeepsHits
<1>6. CASE \E pairs \in SUBSET Pairs : OnPlayerSpottersChanged(pairs)
  BY <1>6, HitInvIdle DEF OnPlayerSpottersChanged, clock
<1>7. CASE \E gap \in 1 .. MaxGap : \E pairs \in SUBSET Pairs :
             ClockFrame(gap) /\ FrameFights(pairs)
  BY <1>7, FrameKeepsHits
<1>8. CASE ClockRoundStart /\ RoundStartFights
  BY <1>8, RoundStartKeepsHits
<1>9. CASE ClockFinalize /\ FinalizeFights
  BY <1>9, FinalizeKeepsHits
<1>10. CASE /\ UNCHANGED fightVars
            /\ UNCHANGED <<tick, currentRound, starts, finalized>>
  BY <1>10, HitInvIdle DEF fightVars, gameVars
<1>. QED
  BY <1>a, <1>1, <1>2, <1>3, <1>4, <1>5, <1>6, <1>7, <1>8, <1>9, <1>10, FightSteps

-----------------------------------------------------------------------------
(* Sights. *)

LEMMA SightInvInit == FightsInit /\ ClockInit => SightInv
<1>. SUFFICES ASSUME FightsInit, ClockInit PROVE SightInv
  OBVIOUS
<1>1. /\ visStart = [p \in Pairs |-> 0] /\ fovEntry = [p \in Pairs |-> 0]
      /\ fovLosProbe = [p \in Pairs |-> 0] /\ tick = 1 /\ DOMAIN damages = {}
  BY DEF FightsInit, ClockInit
<1>2. 0 \in 0 .. MaxTick
  BY ClockAssumption
<1>. QED
  BY <1>1, <1>2 DEF SightInv

\* What the damages say of their sights.
SpotsInv ==
    \A i \in DOMAIN damages :
      /\ damages[i].round <= currentRound
      /\ damages[i].spot # 0 => damages[i].spot \in starts[damages[i].round] .. damages[i].tick

\* A sight's entry is of this round and not to come.
Fresh(t) == t # 0 => t >= starts[currentRound] /\ t <= tick

EntriesFresh ==
    /\ {visStart, fovEntry, fovLosProbe} \subseteq [Pairs -> 0 .. MaxTick]
    /\ \A p \in Pairs : /\ Fresh(visStart[p]) /\ Fresh(fovEntry[p])
                        /\ visStart[p] # 0 => p \in spotters

LEMMA SightParts ==
    ASSUME tick \in Nat
    PROVE  SightInv <=> SpotsInv /\ EntriesFresh
BY DEF SightInv, SpotsInv, EntriesFresh, Fresh

LEMMA ClockFacts ==
    ASSUME BaseInv
    PROVE  /\ tick \in Nat \ {0} /\ currentRound \in Rounds /\ currentRound \in Nat
           /\ starts \in Seq(Ticks) /\ Len(starts) = currentRound
           /\ DOMAIN starts = 1 .. currentRound
           /\ \A i \in 1 .. currentRound : starts[i] \in Nat
           /\ starts[currentRound] \in Nat /\ starts[currentRound] <= tick
           /\ Parsing => tick \in Ticks /\ tick \in 0 .. MaxTick
           /\ MaxTick \in Nat
<1>1. /\ tick \in 1 .. MaxTick + MaxGap /\ currentRound \in 1 .. MaxRounds
      /\ starts \in Seq(Ticks) /\ Len(starts) = currentRound /\ starts[currentRound] <= tick
      /\ {MaxTick, MaxGap, MaxRounds} \subseteq Nat \ {0}
  BY ClockAssumption DEF BaseInv, ClockInv, ClockTypeOK
<1>2. DOMAIN starts = 1 .. currentRound /\ Ticks \subseteq Nat
  BY <1>1 DEF Ticks
<1>3. \A i \in 1 .. currentRound : starts[i] \in Nat
  <2>1. \A i \in 1 .. currentRound : starts[i] \in Ticks
    BY <1>1, <1>2
  <2>. QED
    BY <1>2, <2>1
<1>4. currentRound \in 1 .. currentRound
  BY <1>1
<1>. QED
  BY <1>1, <1>2, <1>3, <1>4 DEF Parsing, Ticks, Rounds

\* The matching of hits, and the clock, leave the spots of the damages alone.
LEMMA SpotsStay ==
    ASSUME BaseInv, SpotsInv, \A i \in DOMAIN damages : damages[i].round \in Rounds,
           DOMAIN damages' = DOMAIN damages,
           \A i \in DOMAIN damages : SameDamage(damages'[i], damages[i]),
           currentRound' \in Nat, currentRound <= currentRound',
           \A r \in 1 .. currentRound : starts'[r] = starts[r]
    PROVE  SpotsInv'
<1>. SUFFICES ASSUME NEW i \in DOMAIN damages
              PROVE  /\ damages'[i].round <= currentRound'
                     /\ damages'[i].spot # 0 =>
                          damages'[i].spot \in starts'[damages'[i].round] .. damages'[i].tick
  BY DEF SpotsInv
<1>1. SameDamage(damages'[i], damages[i])
  OBVIOUS
<1>2. /\ damages[i].round \in Nat \ {0} /\ damages[i].round <= currentRound
      /\ damages[i].spot # 0 => damages[i].spot \in starts[damages[i].round] .. damages[i].tick
  BY DEF SpotsInv, Rounds
<1>3. damages[i].round \in 1 .. currentRound /\ currentRound \in Nat
  BY <1>2, ClockFacts
<1>. QED
  BY <1>1, <1>2, <1>3 DEF SameDamage

\* Who sees v now, and of whom the geometry confirms it.
SpottersChange(pairs, v, now, confirmed) ==
    LET of == {p \in Pairs : p[2] = v}
        new == {p \in now : visStart[p] = 0}
    IN  /\ v \in Victims /\ now \subseteq of \cap pairs /\ \A p \in now : p[1] \in alive
        /\ v \in alive \/ now = {}
        /\ confirmed \subseteq new
        /\ spotters' = (spotters \ of) \cup now
        /\ visStart' = [p \in Pairs |->
             CASE p \in confirmed -> Anchor(p)
               [] p \in new \ confirmed -> tick
               [] p \in of \ now -> 0
               [] OTHER -> visStart[p]]
        /\ spotted' = spotted \cup {[pair |-> p, round |-> currentRound] : p \in confirmed}
        /\ OpenEngagement(confirmed, [p \in Pairs |-> Anchor(p)])

LEMMA SpottersAre ==
    ASSUME NEW pairs \in SUBSET Pairs, OnPlayerSpottersChanged(pairs)
    PROVE  \E v, now, confirmed : SpottersChange(pairs, v, now, confirmed)
<1>1. PICK v \in Victims :
        \E now \in SUBSET {p \in pairs : p[1] \in alive /\ p[2] = v} :
          LET of == {p \in Pairs : p[2] = v}
              new == {p \in now : visStart[p] = 0}
          IN  /\ now # spotters \cap of
              /\ v \in alive \/ now = {}
              /\ spotters' = (spotters \ of) \cup now
              /\ \E confirmed \in SUBSET new :
                  /\ visStart' = [p \in Pairs |->
                       CASE p \in confirmed -> Anchor(p)
                         [] p \in new \ confirmed -> tick
                         [] p \in of \ now -> 0
                         [] OTHER -> visStart[p]]
                  /\ spotted' = spotted \cup {[pair |-> p, round |-> currentRound]
                                              : p \in confirmed}
                  /\ OpenEngagement(confirmed, [p \in Pairs |-> Anchor(p)])
  BY DEF OnPlayerSpottersChanged
<1>2. PICK now \in SUBSET {p \in pairs : p[1] \in alive /\ p[2] = v} :
          LET of == {p \in Pairs : p[2] = v}
              new == {p \in now : visStart[p] = 0}
          IN  /\ v \in alive \/ now = {}
              /\ spotters' = (spotters \ of) \cup now
              /\ \E confirmed \in SUBSET new :
                  /\ visStart' = [p \in Pairs |->
                       CASE p \in confirmed -> Anchor(p)
                         [] p \in new \ confirmed -> tick
                         [] p \in of \ now -> 0
                         [] OTHER -> visStart[p]]
                  /\ spotted' = spotted \cup {[pair |-> p, round |-> currentRound]
                                              : p \in confirmed}
                  /\ OpenEngagement(confirmed, [p \in Pairs |-> Anchor(p)])
  BY <1>1
<1>. DEFINE of == {p \in Pairs : p[2] = v}
           new == {p \in now : visStart[p] = 0}
<1>3. PICK confirmed \in SUBSET new :
        /\ visStart' = [p \in Pairs |->
             CASE p \in confirmed -> Anchor(p)
               [] p \in new \ confirmed -> tick
               [] p \in of \ now -> 0
               [] OTHER -> visStart[p]]
        /\ spotted' = spotted \cup {[pair |-> p, round |-> currentRound] : p \in confirmed}
        /\ OpenEngagement(confirmed, [p \in Pairs |-> Anchor(p)])
  BY <1>2
<1>4. now \subseteq of \cap pairs /\ \A p \in now : p[1] \in alive
  OBVIOUS
<1>5. SpottersChange(pairs, v, now, confirmed)
  BY <1>2, <1>3, <1>4 DEF SpottersChange
<1>. QED
  BY <1>5

LEMMA SightInvStep ==
    ASSUME BaseInv, HitInv, SightInv, [Next]_vars
    PROVE  SightInv'
<1>a. /\ scene \in Scenes /\ tick \in Nat \ {0} /\ tick' \in Nat
      /\ SpotsInv /\ EntriesFresh
      /\ currentRound \in Nat /\ currentRound' \in Nat
  <2>1. BaseInv'
    BY BaseInvStep
  <2>2. tick' \in Nat /\ currentRound' \in Nat
    BY <2>1 DEF BaseInv, ClockInv, ClockTypeOK
  <2>. QED
    BY <2>2, ClockFacts, SightParts DEF BaseInv
<1>b. \A i \in DOMAIN damages : damages[i].round \in Rounds /\ SameDamage(damages[i], damages[i])
  BY HitFacts DEF DamageRows, SameDamage
<1>c. SightInv' <=> SpotsInv' /\ EntriesFresh'
  <2>1. tick' \in Nat => (SightInv' <=> SpotsInv' /\ EntriesFresh')
    BY DEF SightInv, SpotsInv, EntriesFresh, Fresh
  <2>. QED
    BY <1>a, <2>1
<1>d. ASSUME UNCHANGED damages, UNCHANGED <<currentRound, starts>> PROVE SpotsInv'
  <2>1. currentRound <= currentRound' /\ \A r \in 1 .. currentRound : starts'[r] = starts[r]
    BY <1>a, <1>d
  <2>. QED
    BY <1>a, <1>b, <1>d, <2>1, SpotsStay
<1>e. ASSUME UNCHANGED sightVars, UNCHANGED <<tick, currentRound, starts, spotters>> PROVE EntriesFresh'
  BY <1>a, <1>e DEF sightVars, EntriesFresh, Fresh
<1>f. ASSUME NEW r, IsHarm(r), PlayerHurt(r), Parsing, UNCHANGED clock, UNCHANGED spotters
      PROVE  SightInv'
  <2> DEFINE p == <<r.attacker, r.victim>>
             row == [tick |-> tick, attacker |-> r.attacker, victim |-> r.victim,
                     round |-> currentRound, spot |-> visStart[p],
                     bullet |-> r.bullet, claimed |-> 0]
             n == Len(damages)
  <2>1. /\ damages' = Append(damages, row) /\ visStart' = [visStart EXCEPT ![p] = 0]
        /\ UNCHANGED <<tick, currentRound, starts, fovEntry, fovLosProbe>>
        /\ p \in Pairs
    BY <1>f DEF PlayerHurt, clock, IsHarm
  <2>2. row.round = currentRound /\ row.spot = visStart[p] /\ row.tick = tick
    OBVIOUS
  <2>3. visStart[p] # 0 => visStart[p] \in starts[currentRound] .. tick
    <3>1. Fresh(visStart[p]) /\ visStart[p] \in Nat
      BY <1>a, <2>1 DEF EntriesFresh
    <3>. QED
      BY <1>a, <3>1, ClockFacts DEF Fresh
  <2>. HIDE DEF row
  <2>4. /\ damages \in Seq(DamageRows) /\ n \in Nat /\ DOMAIN damages = 1 .. n
    BY HitFacts DEF HitInv, ClaimsInv
  <2>5. /\ DOMAIN damages' = 1 .. n + 1 /\ damages'[n + 1] = row
        /\ \A i \in 1 .. n : damages'[i] = damages[i]
    BY <2>1, <2>4, AppendProperties
  <2>6. SpotsInv'
    <3>1. \A i \in 1 .. n + 1 : i \in 1 .. n \/ i = n + 1
      BY <2>4
    <3>. QED
      BY <1>a, <2>1, <2>2, <2>3, <2>4, <2>5, <3>1 DEF SpotsInv
  <2>7. EntriesFresh'
    <3>1. 0 \in 0 .. MaxTick
      BY ClockFacts
    <3>2. visStart' \in [Pairs -> 0 .. MaxTick] /\ \A q \in Pairs : visStart'[q] \in {0, visStart[q]}
      BY <1>a, <2>1, <3>1 DEF EntriesFresh
    <3>3. \A q \in Pairs : Fresh(visStart[q]) /\ Fresh(fovEntry[q])
                           /\ (visStart[q] # 0 => q \in spotters)
      BY <1>a DEF EntriesFresh
    <3>4. \A q \in Pairs : Fresh(visStart'[q]) /\ Fresh(fovEntry'[q])
                           /\ (visStart'[q] # 0 => q \in spotters')
      BY <1>f, <2>1, <3>2, <3>3 DEF Fresh
    <3>5. \A q \in Pairs : Fresh(visStart[q])' /\ Fresh(fovEntry[q])'
      BY <2>1, <3>4 DEF Fresh
    <3>. QED
      BY <1>a, <2>1, <3>2, <3>4, <3>5 DEF EntriesFresh
  <2>. QED
    BY <1>c, <2>6, <2>7
<1>1. CASE \E pairs \in SUBSET Pairs : FireBullet(pairs)
  <2>1. UNCHANGED <<damages, tick, currentRound, starts, spotters>> /\ UNCHANGED sightVars
    BY <1>1 DEF FireBullet, hitVars, clock
  <2>. QED
    BY <1>c, <1>d, <1>e, <2>1
<1>2. CASE OnPlayerHurt
  <2>1. /\ PlayerHurt(Head(engine)) /\ Parsing /\ UNCHANGED clock /\ UNCHANGED spotters
        /\ engine # <<>> /\ Head(engine).kind # "fire" /\ EngineInv
    BY <1>2 DEF OnPlayerHurt, Report, HitInv
  <2>2. IsHarm(Head(engine))
    BY <2>1, HarmReported
  <2>. QED
    BY <1>f, <2>1, <2>2
<1>3. CASE OnLateHurt
  <2>1. PICK r \in late : PlayerHurt(r) /\ Parsing /\ UNCHANGED clock /\ UNCHANGED spotters
    BY <1>3 DEF OnLateHurt
  <2>2. IsHarm(r)
    BY DEF HitInv, LateInv
  <2>. QED
    BY <1>f, <2>1, <2>2
<1>4. CASE OnKill
  <2>1. UNCHANGED <<damages, tick, currentRound, starts, spotters>> /\ UNCHANGED sightVars
    BY <1>4 DEF OnKill, hitVars, clock
  <2>. QED
    BY <1>c, <1>d, <1>e, <2>1
<1>5. CASE OnWeaponFire
  <2>1. UNCHANGED <<damages, tick, currentRound, starts, spotters>> /\ UNCHANGED sightVars
    BY <1>5 DEF OnWeaponFire, clock
  <2>. QED
    BY <1>c, <1>d, <1>e, <2>1
<1>6. ASSUME NEW pairs \in SUBSET Pairs, OnPlayerSpottersChanged(pairs) PROVE SightInv'
  <2>1. PICK v, now, confirmed : SpottersChange(pairs, v, now, confirmed)
    BY <1>6, SpottersAre
  <2>2. /\ Parsing /\ UNCHANGED <<damages, tick, currentRound, starts, fovEntry, fovLosProbe>>
    BY <1>6 DEF OnPlayerSpottersChanged, hitVars, clock
  <2> DEFINE of == {p \in Pairs : p[2] = v}
             new == {p \in now : visStart[p] = 0}
  <2>3. /\ spotters' = (spotters \ of) \cup now /\ confirmed \subseteq new /\ now \subseteq of
        /\ visStart' = [p \in Pairs |->
             CASE p \in confirmed -> Anchor(p)
               [] p \in new \ confirmed -> tick
               [] p \in of \ now -> 0
               [] OTHER -> visStart[p]]
    BY <2>1 DEF SpottersChange
  <2>4. ASSUME NEW p \in Pairs
        PROVE  /\ Anchor(p) \in 0 .. MaxTick /\ Fresh(Anchor(p))
               /\ tick \in 0 .. MaxTick /\ 0 \in 0 .. MaxTick /\ Fresh(tick) /\ Fresh(0)
               /\ visStart[p] \in 0 .. MaxTick /\ Fresh(visStart[p])
               /\ fovEntry[p] \in 0 .. MaxTick /\ Fresh(fovEntry[p])
               /\ visStart[p] # 0 => p \in spotters
    <3>1. /\ tick \in 0 .. MaxTick /\ 0 \in 0 .. MaxTick /\ Fresh(tick) /\ Fresh(0)
      BY <2>2, ClockFacts DEF Fresh
    <3>2. /\ visStart[p] \in 0 .. MaxTick /\ Fresh(visStart[p])
          /\ fovEntry[p] \in 0 .. MaxTick /\ Fresh(fovEntry[p])
          /\ visStart[p] # 0 => p \in spotters
      BY <1>a DEF EntriesFresh
    <3>. QED
      BY <3>1, <3>2 DEF Anchor
  <2>5. ASSUME NEW p \in Pairs
        PROVE  /\ visStart'[p] \in 0 .. MaxTick /\ Fresh(visStart'[p])
               /\ visStart'[p] # 0 => p \in spotters'
    <3>0. visStart'[p] = CASE p \in confirmed -> Anchor(p)
                       [] p \in new \ confirmed -> tick
                       [] p \in of \ now -> 0
                       [] OTHER -> visStart[p]
      BY <2>3
    <3>1. CASE p \in new
      <4>1. visStart'[p] \in {Anchor(p), tick} /\ p \in spotters'
        BY <2>3, <3>0, <3>1
      <4>. QED
        BY <2>4, <4>1
    <3>2. CASE p \notin new /\ p \in of \ now
      <4>1. visStart'[p] = 0
        BY <3>0, <3>2
      <4>. QED
        BY <2>4, <4>1
    <3>3. CASE p \notin new /\ p \notin of \ now
      <4>1. visStart'[p] = visStart[p]
        BY <2>3, <3>0, <3>3
      <4>2. p \in spotters => p \in spotters'
        BY <2>3, <3>3
      <4>. QED
        BY <2>4, <4>1, <4>2
    <3>. QED
      BY <3>1, <3>2, <3>3
  <2>6. visStart' \in [Pairs -> 0 .. MaxTick]
    <3>1. visStart' = [p \in Pairs |-> visStart'[p]]
      BY <2>3
    <3>. QED
      BY <2>5, <3>1
  <2>7. EntriesFresh'
    <3>1. \A p \in Pairs : Fresh(visStart[p])' /\ Fresh(fovEntry[p])'
      BY <2>2, <2>4, <2>5 DEF Fresh
    <3>. QED
      BY <1>a, <2>2, <2>5, <2>6, <3>1 DEF EntriesFresh
  <2>. QED
    BY <1>c, <1>d, <2>2, <2>7
<1>7. ASSUME NEW gap \in 1 .. MaxGap, NEW pairs \in SUBSET Pairs, ClockFrame(gap), FrameFights(pairs)
      PROVE  SightInv'
  <2>1. PICK shown \in OnScreen(pairs), seeing \in VisibleAt(pairs) : TrackFOV(shown, seeing)
    BY <1>7 DEF FrameFights
  <2>2. /\ Parsing /\ UNCHANGED <<currentRound, starts, finalized, visStart, spotters>>
        /\ tick' \in tick + 1 .. tick + gap /\ ResolveHits /\ engine = <<>>
    BY <1>7 DEF FrameFights, ClockFrame, gameVars
  <2>3. DOMAIN damages' = DOMAIN damages /\ \A i \in DOMAIN damages : SameDamage(damages'[i], damages[i])
    BY <2>2, ResolveKeeps
  <2>4. SpotsInv'
    <3>1. currentRound <= currentRound' /\ \A r \in 1 .. currentRound : starts'[r] = starts[r]
      BY <1>a, <2>2
    <3>. QED
      BY <1>a, <1>b, <2>3, <3>1, SpotsStay
  <2>5. tick \in 0 .. MaxTick /\ 0 \in 0 .. MaxTick /\ Fresh(tick) /\ Fresh(0)
    BY <2>2, ClockFacts DEF Fresh
  <2>6. /\ {visStart, fovEntry, fovLosProbe} \subseteq [Pairs -> 0 .. MaxTick]
        /\ \A p \in Pairs : Fresh(visStart[p]) /\ Fresh(fovEntry[p]) /\ (visStart[p] # 0 => p \in spotters)
    BY <1>a DEF EntriesFresh
  <2>7. ASSUME NEW p \in Pairs
        PROVE  fovEntry'[p] \in {0, tick, fovEntry[p]} /\ fovLosProbe'[p] \in {0, tick, fovLosProbe[p]}
    BY <2>1 DEF TrackFOV
  <2>8. {fovEntry', fovLosProbe'} \subseteq [Pairs -> 0 .. MaxTick]
    <3>1. /\ fovEntry' = [p \in Pairs |-> fovEntry'[p]]
          /\ fovLosProbe' = [p \in Pairs |-> fovLosProbe'[p]]
      BY <2>1 DEF TrackFOV
    <3>2. \A p \in Pairs : fovEntry[p] \in 0 .. MaxTick /\ fovLosProbe[p] \in 0 .. MaxTick
      BY <2>6
    <3>3. \A p \in Pairs : fovEntry'[p] \in 0 .. MaxTick /\ fovLosProbe'[p] \in 0 .. MaxTick
      BY <2>5, <2>7, <3>2
    <3>. QED
      BY <3>1, <3>3
  <2>9. \A p \in Pairs : Fresh(fovEntry'[p]) /\ fovEntry'[p] \in Nat /\ visStart[p] \in Nat
    <3>1. \A p \in Pairs : Fresh(fovEntry'[p])
      BY <2>5, <2>6, <2>7
    <3>2. \A p \in Pairs : fovEntry'[p] \in 0 .. MaxTick /\ visStart[p] \in 0 .. MaxTick
      BY <2>6, <2>8
    <3>. QED
      BY <3>1, <3>2
  <2>10. tick <= tick' /\ tick \in Nat
    BY <1>a, <2>2
  <2>11. ASSUME NEW t \in Nat, Fresh(t)
         PROVE  Fresh(t)'
    <3>1. t # 0 => t >= starts[currentRound] /\ t <= tick
      BY <2>11 DEF Fresh
    <3>2. t # 0 => t >= starts'[currentRound'] /\ t <= tick'
      BY <1>a, <2>2, <2>10, <3>1
    <3>. QED
      BY <3>2 DEF Fresh
  <2>12. EntriesFresh'
    <3>1. ASSUME NEW p \in Pairs PROVE Fresh(visStart[p])' /\ Fresh(fovEntry[p])'
      <4>1. \A t \in Nat : Fresh(t) => (t # 0 => t >= starts'[currentRound'] /\ t <= tick')
        BY <2>11 DEF Fresh
      <4>2. visStart'[p] = visStart[p]
        BY <2>2
      <4>. QED
        BY <2>6, <2>9, <4>1, <4>2 DEF Fresh
    <3>. QED
      BY <2>2, <2>6, <2>8, <3>1 DEF EntriesFresh
  <2>. QED
    BY <1>c, <2>4, <2>12
<1>8. CASE ClockRoundStart /\ RoundStartFights
  <2>1. /\ visStart' = NoEntry /\ fovEntry' = NoEntry /\ fovLosProbe' = NoEntry
        /\ ResolveHits /\ engine = <<>>
        /\ UNCHANGED <<tick, finalized>> /\ currentRound' = currentRound + 1
        /\ starts' = Append(starts, tick) /\ Parsing
    BY <1>8 DEF ClockRoundStart, RoundStartFights, ForgetSights
  <2>2. DOMAIN damages' = DOMAIN damages /\ \A i \in DOMAIN damages : SameDamage(damages'[i], damages[i])
    BY <2>1, ResolveKeeps
  <2>3. SpotsInv'
    <3>1. currentRound <= currentRound'
      BY <1>a, <2>1
    <3>2. \A r \in 1 .. currentRound : starts'[r] = starts[r]
      BY <2>1, ClockFacts, AppendProperties
    <3>. QED
      BY <1>a, <1>b, <2>2, <3>1, <3>2, SpotsStay
  <2>4. EntriesFresh'
    <3>1. 0 \in 0 .. MaxTick
      BY ClockFacts
    <3>. QED
      BY <2>1, <3>1 DEF EntriesFresh, Fresh, NoEntry
  <2>. QED
    BY <1>c, <2>3, <2>4
<1>9. CASE ClockFinalize /\ FinalizeFights
  <2>1. /\ UNCHANGED sightVars /\ UNCHANGED <<tick, currentRound, starts, spotters>>
        /\ ResolveHits /\ finalized'
    BY <1>9 DEF ClockFinalize, FinalizeFights, gameVars
  <2>2. DOMAIN damages' = DOMAIN damages /\ \A i \in DOMAIN damages : SameDamage(damages'[i], damages[i])
    BY <2>1, ResolveKeeps
  <2>3. SpotsInv'
    <3>1. currentRound <= currentRound' /\ \A r \in 1 .. currentRound : starts'[r] = starts[r]
      BY <1>a, <2>1
    <3>. QED
      BY <1>a, <1>b, <2>2, <3>1, SpotsStay
  <2>. QED
    BY <1>c, <1>e, <2>1, <2>3
<1>10. CASE /\ UNCHANGED fightVars
            /\ UNCHANGED <<tick, currentRound, starts, finalized>>
  <2>1. UNCHANGED <<damages, spotters>> /\ UNCHANGED sightVars
    BY <1>10 DEF fightVars, gameVars, hitVars
  <2>. QED
    BY <1>10, <1>c, <1>d, <1>e, <2>1
<1>. QED
  BY <1>a, <1>1, <1>2, <1>3, <1>4, <1>5, <1>6, <1>7, <1>8, <1>9, <1>10, FightSteps

-----------------------------------------------------------------------------
(* Engagements. *)

OpenIds == {engagements[p].id : p \in Open}

Signals(ps) == {p \in ps \cap Open : engagements[p].fired > 0 \/ engagements[p].tracked}

RowOf(p) == [id |-> engagements[p].id, pair |-> p, round |-> engagements[p].round,
             firstShotFired |-> engagements[p].fired > 0,
             firstShotHit |-> engagements[p].hit, firstShot |-> engagements[p].fired]

\* One row for each of the ids.
RowsAre(rows, ids) ==
    /\ rows \in Seq(AimRows)
    /\ \A i, j \in DOMAIN rows : rows[i].id = rows[j].id => i = j
    /\ {rows[i].id : i \in DOMAIN rows} = ids
    /\ \A i \in DOMAIN rows :
         /\ rows[i].round = openings[rows[i].id]
         /\ [pair |-> rows[i].pair, round |-> rows[i].round] \in spotted

LEMMA ClosedParts ==
    ClosedInv <=> signalled \subseteq DOMAIN openings /\ RowsAre(aimEngagements, signalled \ OpenIds)
BY DEF ClosedInv, RowsAre, OpenIds

LEMMA NoRow ==
    /\ NoEngagement \notin EngagementRows
    /\ OpenInv => \A p \in Open : p \in Pairs /\ engagements[p] \in EngagementRows
<1>1. NoEngagement.id = 0
  BY DEF NoEngagement
<1>2. \A e \in EngagementRows : e.id # 0
  BY DEF EngagementRows
<1>3. ASSUME OpenInv, NEW p \in Open PROVE p \in Pairs /\ engagements[p] \in EngagementRows
  BY <1>3 DEF OpenInv, Open
<1>. QED
  BY <1>1, <1>2, <1>3

LEMMA RowsJoin ==
    ASSUME NEW a, NEW b, NEW A, NEW B, RowsAre(a, A), RowsAre(b, B), A \cap B = {}
    PROVE  RowsAre(a \o b, A \cup B)
<1> DEFINE c == a \o b
<1>1. a \in Seq(AimRows) /\ b \in Seq(AimRows)
  BY DEF RowsAre
<1>2. /\ c \in Seq(AimRows) /\ Len(a) \in Nat /\ Len(b) \in Nat
      /\ DOMAIN a = 1 .. Len(a) /\ DOMAIN b = 1 .. Len(b) /\ DOMAIN c = 1 .. Len(a) + Len(b)
      /\ \A i \in 1 .. Len(a) : c[i] = a[i]
      /\ \A j \in 1 .. Len(b) : c[Len(a) + j] = b[j]
  BY <1>1, ConcatProperties
<1>. HIDE DEF c
<1>3. ASSUME NEW i \in DOMAIN c
      PROVE  \/ i \in DOMAIN a /\ c[i] = a[i]
             \/ \E j \in DOMAIN b : i = Len(a) + j /\ c[i] = b[j]
  <2>1. CASE i <= Len(a)
    BY <1>2, <2>1
  <2>2. CASE i > Len(a)
    <3>1. i - Len(a) \in DOMAIN b /\ i = Len(a) + (i - Len(a))
      BY <1>2, <2>2
    <3>. QED
      BY <1>2, <3>1
  <2>. QED
    BY <1>2, <2>1, <2>2
<1>4. /\ \A i, j \in DOMAIN a : a[i].id = a[j].id => i = j
      /\ \A i, j \in DOMAIN b : b[i].id = b[j].id => i = j
      /\ \A i \in DOMAIN a : a[i].id \in A
      /\ \A j \in DOMAIN b : b[j].id \in B
      /\ \A x \in A : \E i \in DOMAIN a : a[i].id = x
      /\ \A x \in B : \E j \in DOMAIN b : b[j].id = x
  BY DEF RowsAre
<1>5. \A i \in DOMAIN a, j \in DOMAIN b : a[i].id # b[j].id
  BY <1>4
<1>6. ASSUME NEW i \in DOMAIN c, NEW k \in DOMAIN c, c[i].id = c[k].id PROVE i = k
  <2>1. CASE i \in DOMAIN a /\ c[i] = a[i]
    BY <1>3, <1>4, <1>5, <1>6, <2>1
  <2>2. ASSUME NEW j \in DOMAIN b, i = Len(a) + j, c[i] = b[j] PROVE i = k
    BY <1>3, <1>4, <1>5, <1>6, <2>2
  <2>. QED
    BY <1>3, <2>1, <2>2
<1>7. {c[i].id : i \in DOMAIN c} = A \cup B
  <2>1. \A i \in DOMAIN c : c[i].id \in A \cup B
    BY <1>3, <1>4
  <2>2. \A x \in A \cup B : \E i \in DOMAIN c : c[i].id = x
    <3>1. ASSUME NEW x \in A PROVE \E i \in DOMAIN c : c[i].id = x
      <4>1. PICK i \in DOMAIN a : a[i].id = x
        BY <1>4
      <4>2. i \in DOMAIN c /\ c[i] = a[i]
        BY <1>2
      <4>. QED
        BY <4>1, <4>2
    <3>2. ASSUME NEW x \in B PROVE \E i \in DOMAIN c : c[i].id = x
      <4>1. PICK j \in DOMAIN b : b[j].id = x
        BY <1>4
      <4>2. Len(a) + j \in DOMAIN c /\ c[Len(a) + j] = b[j]
        BY <1>2
      <4>. QED
        BY <4>1, <4>2
    <3>. QED
      BY <3>1, <3>2
  <2>. QED
    BY <2>1, <2>2
<1>8. ASSUME NEW i \in DOMAIN c
      PROVE  /\ c[i].round = openings[c[i].id]
             /\ [pair |-> c[i].pair, round |-> c[i].round] \in spotted
  BY <1>3 DEF RowsAre
<1>9. RowsAre(c, A \cup B)
  BY <1>2, <1>6, <1>7, <1>8 DEF RowsAre
<1>. QED
  BY <1>9 DEF c

\* What closing does to the rows: one more for each that closes with a signal.
LEMMA RowsFlushed ==
    ASSUME OpenInv, ClosedInv, NEW ps
    PROVE  RowsAre(Flushed(ps), signalled \ {engagements[p].id : p \in Open \ ps})
<1> DEFINE R == {RowOf(p) : p \in Signals(ps)}
           s == SetToSeq(R)
           B == {engagements[p].id : p \in Signals(ps)}
<1>1. IsFiniteSet(R)
  <2>1. IsFiniteSet(Signals(ps))
    BY FightersAreFinite, FS_Subset DEF Signals, Open
  <2> DEFINE f == [p \in Signals(ps) |-> RowOf(p)]
  <2>2. f \in Surjection(Signals(ps), R)
    BY DEF Surjection
  <2>. HIDE DEF f, R
  <2>. QED
    BY <2>1, <2>2, FS_Surjection
<1>2. \A p \in Signals(ps) : /\ p \in Open /\ p \in ps /\ p \in Pairs
                             /\ engagements[p] \in EngagementRows
                             /\ engagements[p].id \in signalled
                             /\ engagements[p].round = openings[engagements[p].id]
                             /\ [pair |-> p, round |-> engagements[p].round] \in spotted
  BY NoRow DEF Signals, OpenInv
<1>3. \A p, q \in Signals(ps) : engagements[p].id = engagements[q].id => p = q
  BY <1>2 DEF OpenInv
<1>4. ASSUME NEW p \in Signals(ps)
      PROVE  /\ RowOf(p) \in AimRows /\ RowOf(p).id = engagements[p].id
             /\ RowOf(p).pair = p /\ RowOf(p).round = engagements[p].round
  <2> DEFINE b == engagements[p].fired > 0
  <2>1. b \in BOOLEAN
    OBVIOUS
  <2>2. /\ engagements[p].id \in Nat \ {0} /\ p \in Pairs /\ engagements[p].round \in Rounds
        /\ engagements[p].hit \in BOOLEAN /\ engagements[p].fired \in Nat
    BY <1>2 DEF EngagementRows
  <2>3. RowOf(p) = [id |-> engagements[p].id, pair |-> p, round |-> engagements[p].round,
                    firstShotFired |-> b, firstShotHit |-> engagements[p].hit,
                    firstShot |-> engagements[p].fired]
    BY DEF RowOf
  <2>. HIDE DEF b
  <2>. QED
    BY <2>1, <2>2, <2>3 DEF AimRows
<1>. HIDE DEF s
<1>5. /\ s \in Seq(R)
      /\ \A i, j \in DOMAIN s : s[i] = s[j] => i = j
      /\ \A x \in R : \E i \in DOMAIN s : s[i] = x
  BY <1>1, SetToSeqIs DEF s
<1>6. \A i \in DOMAIN s : \E p \in Signals(ps) : s[i] = RowOf(p)
  BY <1>5
<1>7. RowsAre(s, B)
  <2>1. s \in Seq(AimRows)
    <3>1. R \subseteq AimRows
      BY <1>4
    <3>2. \A i \in 1 .. Len(s) : s[i] \in AimRows
      BY <1>5, <3>1
    <3>3. s = [i \in 1 .. Len(s) |-> s[i]] /\ Len(s) \in Nat
      BY <1>5
    <3>. HIDE DEF R
    <3>. QED
      BY <3>2, <3>3, ASeqOf
  <2>2. ASSUME NEW i \in DOMAIN s, NEW j \in DOMAIN s, s[i].id = s[j].id PROVE i = j
    <3>1. PICK p \in Signals(ps) : s[i] = RowOf(p)
      BY <1>6
    <3>2. PICK q \in Signals(ps) : s[j] = RowOf(q)
      BY <1>6
    <3>3. p = q
      BY <1>3, <1>4, <2>2, <3>1, <3>2
    <3>. QED
      BY <1>5, <3>1, <3>2, <3>3
  <2>3. {s[i].id : i \in DOMAIN s} = B
    <3>1. \A i \in DOMAIN s : s[i].id \in B
      BY <1>4, <1>6
    <3>2. \A p \in Signals(ps) : \E i \in DOMAIN s : s[i] = RowOf(p)
      BY <1>5
    <3>. QED
      BY <1>4, <3>1, <3>2
  <2>4. ASSUME NEW i \in DOMAIN s
        PROVE  /\ s[i].round = openings[s[i].id]
               /\ [pair |-> s[i].pair, round |-> s[i].round] \in spotted
    <3>1. PICK p \in Signals(ps) : s[i] = RowOf(p)
      BY <1>6
    <3>. QED
      BY <1>2, <1>4, <3>1
  <2>. QED
    BY <2>1, <2>2, <2>3, <2>4 DEF RowsAre
<1>8. RowsAre(aimEngagements, signalled \ OpenIds)
  BY ClosedParts
<1>9. (signalled \ OpenIds) \cap B = {}
  BY <1>2 DEF OpenIds
<1>10. (signalled \ OpenIds) \cup B = signalled \ {engagements[p].id : p \in Open \ ps}
  <2>1. ASSUME NEW x \in signalled, x \notin {engagements[p].id : p \in Open \ ps}, x \in OpenIds
        PROVE  x \in B
    <3>1. PICK p \in Open : x = engagements[p].id
      BY <2>1 DEF OpenIds
    <3>2. p \in ps
      BY <2>1, <3>1
    <3>3. p \in Signals(ps)
      BY <2>1, <3>1, <3>2 DEF Signals, OpenInv
    <3>. QED
      BY <3>1, <3>3
  <2>2. ASSUME NEW x \in B PROVE x \in signalled /\ x \notin {engagements[p].id : p \in Open \ ps}
    <3>1. PICK p \in Signals(ps) : x = engagements[p].id
      OBVIOUS
    <3>2. \A q \in Open : engagements[q].id = x => q = p
      BY <1>2, <3>1 DEF OpenInv
    <3>. QED
      BY <1>2, <3>1, <3>2
  <2>3. \A x : x \notin OpenIds => x \notin {engagements[p].id : p \in Open \ ps}
    BY DEF OpenIds
  <2>. QED
    BY <2>1, <2>2, <2>3
<1>11. Flushed(ps) = aimEngagements \o s
  BY DEF Flushed, s, RowOf, Signals
<1>. HIDE DEF B
<1>. QED
  BY <1>7, <1>8, <1>9, <1>10, <1>11, RowsJoin

\* Rows that are right now stay right when only openings and spots are added.
LEMMA ClosedStays ==
    ASSUME OpenInv, ClosedInv,
           RowsAre(aimEngagements', signalled' \ {engagements'[p].id : p \in Open'}),
           signalled' \subseteq DOMAIN openings,
           DOMAIN openings \subseteq DOMAIN openings',
           \A i \in DOMAIN openings : openings'[i] = openings[i],
           spotted \subseteq spotted'
    PROVE  ClosedInv'
<1>1. /\ aimEngagements' \in Seq(AimRows)
      /\ \A i, j \in DOMAIN aimEngagements' :
            aimEngagements'[i].id = aimEngagements'[j].id => i = j
      /\ {aimEngagements'[i].id : i \in DOMAIN aimEngagements'}
            = signalled' \ {engagements'[p].id : p \in Open'}
      /\ \A i \in DOMAIN aimEngagements' :
           /\ aimEngagements'[i].round = openings[aimEngagements'[i].id]
           /\ [pair |-> aimEngagements'[i].pair, round |-> aimEngagements'[i].round] \in spotted
  BY DEF RowsAre
<1>2. \A i \in DOMAIN aimEngagements' : aimEngagements'[i].id \in DOMAIN openings
  BY <1>1
<1>3. \A i \in DOMAIN aimEngagements' :
         /\ aimEngagements'[i].round = openings'[aimEngagements'[i].id]
         /\ [pair |-> aimEngagements'[i].pair, round |-> aimEngagements'[i].round] \in spotted'
  <2>1. \A i \in DOMAIN aimEngagements' :
          aimEngagements'[i].round = openings'[aimEngagements'[i].id]
    BY <1>1, <1>2
  <2>2. ASSUME NEW i \in DOMAIN aimEngagements'
        PROVE  [pair |-> aimEngagements'[i].pair, round |-> aimEngagements'[i].round] \in spotted'
    <3> DEFINE x == [pair |-> aimEngagements'[i].pair, round |-> aimEngagements'[i].round]
    <3>1. x \in spotted
      BY <1>1
    <3>. HIDE DEF x
    <3>2. x \in spotted'
      BY <3>1
    <3>. QED
      BY <3>2 DEF x
  <2>. QED
    BY <2>1, <2>2, Zenon
<1>4. signalled' \subseteq DOMAIN openings'
  OBVIOUS
<1>. QED
  BY <1>1, <1>3, <1>4 DEF ClosedInv

\* An engagement that goes on is the one it was.
GoesOn(e, f, sig) ==
    /\ f \in EngagementRows /\ f.id = e.id /\ f.round = e.round
    /\ f.id \in sig <=> f.fired > 0 \/ f.tracked

LEMMA OpenStays ==
    ASSUME OpenInv, NEW S, S \subseteq Open,
           engagements' \in [Pairs -> {NoEngagement} \cup EngagementRows],
           \A p \in Pairs \ S : engagements'[p] = NoEngagement,
           \A p \in S : /\ GoesOn(engagements[p], engagements'[p], signalled')
                        /\ {p[1], p[2]} \subseteq alive' \cup Dying',
           openings' = openings, spotted \subseteq spotted',
           S # {} => currentRound' = currentRound,
           finalized' => S = {}
    PROVE  OpenInv' /\ Open' = S
<1>1. Open' = {p \in Pairs : engagements'[p] # NoEngagement}
  BY DEF Open
<1>2. S \subseteq Pairs
  BY DEF Open
<1>3. \A p \in S : engagements'[p] \in EngagementRows
  BY DEF GoesOn
<1>4. Open' = S
  BY <1>1, <1>2, <1>3, NoRow
<1>5. openings' \in Seq(Rounds)
  BY DEF OpenInv
<1>6. ASSUME NEW p \in Open'
      PROVE  LET e == engagements'[p]
             IN  /\ e.id \in DOMAIN openings' /\ openings'[e.id] = e.round /\ e.round = currentRound'
                 /\ [pair |-> p, round |-> e.round] \in spotted'
                 /\ {p[1], p[2]} \subseteq alive' \cup Dying'
                 /\ e.id \in signalled' <=> e.fired > 0 \/ e.tracked
                 /\ \A q \in Open' : engagements'[q].id = e.id => q = p
  <2>1. p \in S /\ p \in Open /\ currentRound' = currentRound
    BY <1>4, <1>6
  <2>2. /\ engagements[p].id \in DOMAIN openings
        /\ openings[engagements[p].id] = engagements[p].round
        /\ engagements[p].round = currentRound
        /\ [pair |-> p, round |-> engagements[p].round] \in spotted
        /\ \A q \in Open : engagements[q].id = engagements[p].id => q = p
    BY <2>1 DEF OpenInv
  <2>3. \A q \in S : engagements'[q].id = engagements[q].id
    BY DEF GoesOn
  <2>4. /\ engagements'[p].round = engagements[p].round
        /\ engagements'[p].id \in signalled' <=> engagements'[p].fired > 0 \/ engagements'[p].tracked
    BY <2>1 DEF GoesOn
  <2>. QED
    BY <1>4, <2>1, <2>2, <2>3, <2>4
<1>. QED
  BY <1>4, <1>5, <1>6 DEF OpenInv

\* With each way an engagement goes on.
LEMMA WaysToGoOn ==
    ASSUME OpenInv, NEW p \in Open
    PROVE  LET e == engagements[p]
           IN  /\ GoesOn(e, e, signalled)
               /\ GoesOn(e, [e EXCEPT !.hit = TRUE], signalled)
               /\ \A sig : e.id \in sig => GoesOn(e, [e EXCEPT !.tracked = TRUE], sig)
               /\ \A sig, k : e.id \in sig /\ k \in Nat \ {0} => GoesOn(e, [e EXCEPT !.fired = k], sig)
               /\ \A sig : (e.id \in sig <=> e.id \in signalled) => GoesOn(e, e, sig)
<1> DEFINE e == engagements[p]
<1>1. e \in EngagementRows /\ (e.id \in signalled <=> e.fired > 0 \/ e.tracked)
  BY NoRow DEF OpenInv
<1>. HIDE DEF e
<1>2. GoesOn(e, e, signalled) /\ \A sig : (e.id \in sig <=> e.id \in signalled) => GoesOn(e, e, sig)
  BY <1>1 DEF GoesOn
<1>3. [e EXCEPT !.hit = TRUE] \in EngagementRows /\ [e EXCEPT !.tracked = TRUE] \in EngagementRows
      /\ \A k \in Nat : [e EXCEPT !.fired = k] \in EngagementRows
  BY <1>1 DEF EngagementRows
<1>4. /\ [e EXCEPT !.hit = TRUE].id = e.id /\ [e EXCEPT !.hit = TRUE].round = e.round
      /\ [e EXCEPT !.hit = TRUE].fired = e.fired /\ [e EXCEPT !.hit = TRUE].tracked = e.tracked
      /\ [e EXCEPT !.tracked = TRUE].id = e.id /\ [e EXCEPT !.tracked = TRUE].round = e.round
      /\ [e EXCEPT !.tracked = TRUE].tracked = TRUE
      /\ \A k : /\ [e EXCEPT !.fired = k].id = e.id /\ [e EXCEPT !.fired = k].round = e.round
                /\ [e EXCEPT !.fired = k].fired = k
  BY <1>1 DEF EngagementRows
<1>5. GoesOn(e, [e EXCEPT !.hit = TRUE], signalled)
  BY <1>1, <1>3, <1>4 DEF GoesOn
<1>6. \A sig : e.id \in sig => GoesOn(e, [e EXCEPT !.tracked = TRUE], sig)
  BY <1>3, <1>4 DEF GoesOn
<1>7. ASSUME NEW sig, NEW k \in Nat \ {0}, e.id \in sig
      PROVE  GoesOn(e, [e EXCEPT !.fired = k], sig)
  <2>1. [e EXCEPT !.fired = k].fired > 0
    BY <1>4
  <2>. QED
    BY <1>3, <1>4, <1>7, <2>1 DEF GoesOn
<1>. QED
  BY <1>2, <1>5, <1>6, <1>7 DEF e

LEMMA ClosingKeeps ==
    ASSUME OpenInv, ClosedInv, NEW ps,
           aimEngagements' = Flushed(ps), engagements' = Without(ps),
           openings' = openings, signalled' = signalled, spotted \subseteq spotted',
           \A p \in Open \ ps : {p[1], p[2]} \subseteq alive' \cup Dying',
           Open \ ps # {} => currentRound' = currentRound,
           finalized' => Open \ ps = {}
    PROVE  OpenInv' /\ ClosedInv'
<1> DEFINE S == Open \ ps
<1>1. /\ engagements' = [p \in Pairs |-> IF p \in ps THEN NoEngagement ELSE engagements[p]]
      /\ \A p \in Pairs : engagements[p] \in {NoEngagement} \cup EngagementRows
      /\ \A p \in Pairs \ Open : engagements[p] = NoEngagement
      /\ Open \subseteq Pairs
  BY DEF Without, OpenInv, Open
<1>2. engagements' \in [Pairs -> {NoEngagement} \cup EngagementRows]
  BY <1>1
<1>3. \A p \in Pairs \ S : engagements'[p] = NoEngagement
  BY <1>1
<1>4. \A p \in S : GoesOn(engagements[p], engagements'[p], signalled')
  <2>1. \A p \in S : engagements'[p] = engagements[p]
    BY <1>1
  <2>. QED
    BY <2>1, WaysToGoOn
<1>5. S \subseteq Open
  OBVIOUS
<1>6. OpenInv' /\ Open' = S
  <2>. HIDE DEF S
  <2>1. \A p \in S : {p[1], p[2]} \subseteq alive' \cup Dying'
    BY DEF S
  <2>2. (S # {} => currentRound' = currentRound) /\ (finalized' => S = {})
    BY DEF S
  <2>. QED
    BY <1>2, <1>3, <1>4, <1>5, <2>1, <2>2, OpenStays
<1>7. {engagements'[p].id : p \in Open'} = {engagements[p].id : p \in Open \ ps}
  <2>1. \A p \in S : engagements'[p] = engagements[p]
    BY <1>1
  <2>. QED
    BY <1>6, <2>1
<1>8. RowsAre(aimEngagements', signalled' \ {engagements'[p].id : p \in Open'})
  BY <1>7, RowsFlushed
<1>. QED
  BY <1>6, <1>8, ClosedStays DEF ClosedInv

\* While no row is added.
LEMMA GoingOnKeeps ==
    ASSUME OpenInv, ClosedInv,
           engagements' \in [Pairs -> {NoEngagement} \cup EngagementRows],
           \A p \in Pairs \ Open : engagements'[p] = NoEngagement,
           \A p \in Open : /\ GoesOn(engagements[p], engagements'[p], signalled')
                           /\ {p[1], p[2]} \subseteq alive' \cup Dying',
           UNCHANGED <<aimEngagements, openings, currentRound, finalized>>,
           spotted \subseteq spotted',
           signalled \subseteq signalled', signalled' \subseteq signalled \cup OpenIds
    PROVE  OpenInv' /\ ClosedInv'
<1>1. finalized' => Open = {}
  BY DEF OpenInv
<1>2. OpenInv' /\ Open' = Open
  BY <1>1, OpenStays
<1>3. {engagements'[p].id : p \in Open'} = OpenIds
  <2>1. \A p \in Open : engagements'[p].id = engagements[p].id
    BY DEF GoesOn
  <2>. QED
    BY <1>2, <2>1 DEF OpenIds
<1>4. signalled' \ OpenIds = signalled \ OpenIds
  OBVIOUS
<1>5. OpenIds \subseteq DOMAIN openings
  BY DEF OpenIds, OpenInv
<1>6. RowsAre(aimEngagements', signalled' \ {engagements'[p].id : p \in Open'})
  BY <1>3, <1>4, ClosedParts
<1>7. signalled' \subseteq DOMAIN openings
  BY <1>5, ClosedParts
<1>. QED
  BY <1>2, <1>6, <1>7, ClosedStays

LEMMA TrackKeepsAim ==
    ASSUME OpenInv, ClosedInv, NEW seeing, TrackEngagements(seeing),
           UNCHANGED <<spotted, currentRound, finalized, alive, engine>>
    PROVE  OpenInv' /\ ClosedInv'
<1> DEFINE S == Open \ TimedOut
           sampled == {p \in S : p \in seeing /\ {p[1], p[2]} \subseteq alive}
<1>1. /\ aimEngagements' = Flushed(TimedOut)
      /\ engagements' = [p \in Pairs |->
             CASE p \in TimedOut -> NoEngagement
               [] p \in sampled -> [engagements[p] EXCEPT !.tracked = TRUE]
               [] OTHER -> engagements[p]]
      /\ signalled' = signalled \cup {engagements[p].id : p \in sampled}
      /\ openings' = openings
  BY DEF TrackEngagements
<1>2. /\ TimedOut \subseteq Open /\ Open \subseteq Pairs /\ sampled \subseteq S
      /\ \A p \in Pairs \ Open : engagements[p] = NoEngagement
      /\ \A p \in Open : engagements[p].id \in DOMAIN openings
      /\ \A p, q \in Open : engagements[p].id = engagements[q].id => p = q
  BY DEF OpenInv, Open, TimedOut
<1>. HIDE DEF sampled
<1>3. \A p \in Pairs \ S : engagements'[p] = NoEngagement
  BY <1>1, <1>2
<1>4. ASSUME NEW p \in S
      PROVE  GoesOn(engagements[p], engagements'[p], signalled')
  <2>1. CASE p \in sampled
    <3>1. engagements'[p] = [engagements[p] EXCEPT !.tracked = TRUE]
      BY <1>1, <1>2, <2>1
    <3>2. engagements[p].id \in signalled'
      BY <1>1, <2>1
    <3>. QED
      BY <3>1, <3>2, WaysToGoOn
  <2>2. CASE p \notin sampled
    <3>1. engagements'[p] = engagements[p]
      BY <1>1, <1>2, <2>2
    <3>2. engagements[p].id \in signalled' <=> engagements[p].id \in signalled
      BY <1>1, <1>2, <2>2
    <3>. QED
      BY <3>1, <3>2, WaysToGoOn
  <2>. QED
    BY <2>1, <2>2
<1>5. engagements' \in [Pairs -> {NoEngagement} \cup EngagementRows]
  <2>1. \A p \in S : engagements'[p] \in EngagementRows
    BY <1>4 DEF GoesOn
  <2>2. \A p \in Pairs : engagements'[p] \in {NoEngagement} \cup EngagementRows
    BY <1>3, <2>1
  <2>3. engagements' = [p \in Pairs |-> engagements'[p]]
    BY <1>1
  <2>. QED
    BY <2>2, <2>3
<1>6. \A p \in S : {p[1], p[2]} \subseteq alive' \cup Dying'
  <2>1. Dying' = Dying /\ alive' = alive
    BY DEF Dying
  <2>2. \A p \in S : {p[1], p[2]} \subseteq alive \cup Dying
    BY DEF OpenInv
  <2>. QED
    BY <2>1, <2>2
<1>7. (finalized' => S = {}) /\ S \subseteq Open
  BY DEF OpenInv
<1>8. OpenInv' /\ Open' = S
  <2>. HIDE DEF S
  <2>. QED
    BY <1>1, <1>3, <1>4, <1>5, <1>6, <1>7, OpenStays
<1>9. {engagements'[p].id : p \in Open'} = {engagements[p].id : p \in Open \ TimedOut}
  <2>1. \A p \in S : engagements'[p].id = engagements[p].id
    BY <1>4 DEF GoesOn
  <2>. QED
    BY <1>8, <2>1
<1>10. signalled' \ {engagements[p].id : p \in Open \ TimedOut}
         = signalled \ {engagements[p].id : p \in Open \ TimedOut}
  BY <1>1, <1>2
<1>11. RowsAre(aimEngagements', signalled' \ {engagements'[p].id : p \in Open'})
  BY <1>1, <1>9, <1>10, RowsFlushed
<1>12. signalled' \subseteq DOMAIN openings
  BY <1>1, <1>2, ClosedParts
<1>. QED
  BY <1>1, <1>8, <1>11, <1>12, ClosedStays

LEMMA HurtKeepsAim ==
    ASSUME OpenInv, ClosedInv, NEW r, PlayerHurt(r),
           UNCHANGED <<currentRound, finalized, alive>>, Dying \subseteq Dying'
    PROVE  OpenInv' /\ ClosedInv'
<1> DEFINE p == <<r.attacker, r.victim>>
<1>1. /\ \/ UNCHANGED engagements
         \/ p \in Open /\ engagements' = [engagements EXCEPT ![p].hit = TRUE]
      /\ UNCHANGED <<spotted, aimEngagements, openings, signalled>>
  BY DEF PlayerHurt
<1>. HIDE DEF p
<1>2. /\ Open \subseteq Pairs
      /\ \A q \in Pairs \ Open : engagements[q] = NoEngagement
      /\ engagements \in [Pairs -> {NoEngagement} \cup EngagementRows]
      /\ \A q \in Open : {q[1], q[2]} \subseteq alive \cup Dying
  BY DEF OpenInv, Open
<1>3. ASSUME NEW q \in Pairs
      PROVE  engagements'[q] \in IF q \in Open THEN {engagements[q], [engagements[q] EXCEPT !.hit = TRUE]}
                                 ELSE {engagements[q]}
  BY <1>1, <1>2
<1>4. \A q \in Open : GoesOn(engagements[q], engagements'[q], signalled')
  BY <1>1, <1>2, <1>3, WaysToGoOn
<1>5. \A q \in Pairs \ Open : engagements'[q] = NoEngagement
  BY <1>2, <1>3
<1>6. engagements' \in [Pairs -> {NoEngagement} \cup EngagementRows]
  <2>1. \A q \in Open : engagements'[q] \in EngagementRows
    BY <1>4 DEF GoesOn
  <2>2. \A q \in Pairs : engagements'[q] \in {NoEngagement} \cup EngagementRows
    BY <1>5, <2>1
  <2>3. engagements' = [q \in Pairs |-> engagements'[q]]
    BY <1>1, <1>2
  <2>. QED
    BY <2>2, <2>3
<1>7. \A q \in Open : {q[1], q[2]} \subseteq alive' \cup Dying'
  BY <1>2
<1>. QED
  BY <1>1, <1>4, <1>5, <1>6, <1>7, GoingOnKeeps

LEMMA ShotKeepsAim ==
    ASSUME OpenInv, ClosedInv, NEW a, NEW shot \in Nat \ {0}, RecordEngagementShot(a, shot),
           UNCHANGED <<currentRound, finalized, alive, spotted>>, Dying \subseteq Dying'
    PROVE  OpenInv' /\ ClosedInv'
<1>1. UNCHANGED <<aimEngagements, openings>>
  BY DEF RecordEngagementShot
<1>2. /\ Open \subseteq Pairs
      /\ \A q \in Pairs \ Open : engagements[q] = NoEngagement
      /\ engagements \in [Pairs -> {NoEngagement} \cup EngagementRows]
      /\ \A q \in Open : {q[1], q[2]} \subseteq alive \cup Dying
      /\ \A q, k \in Open : engagements[q].id = engagements[k].id => q = k
  BY DEF OpenInv, Open
<1>3. CASE UNCHANGED <<engagements, signalled>>
  <2>1. \A q \in Open : GoesOn(engagements[q], engagements'[q], signalled')
    BY <1>3, WaysToGoOn
  <2>. QED
    BY <1>1, <1>2, <1>3, <2>1, GoingOnKeeps
<1>4. ASSUME NEW p \in Open, engagements' = [engagements EXCEPT ![p].fired = shot],
             signalled' = signalled \cup {engagements[p].id}
      PROVE  OpenInv' /\ ClosedInv'
  <2>1. /\ engagements'[p] = [engagements[p] EXCEPT !.fired = shot]
        /\ \A q \in Pairs \ {p} : engagements'[q] = engagements[q]
        /\ engagements' = [q \in Pairs |-> engagements'[q]]
    BY <1>2, <1>4
  <2>2. ASSUME NEW q \in Open PROVE GoesOn(engagements[q], engagements'[q], signalled')
    <3>1. CASE q = p
      <4>1. engagements[p].id \in signalled'
        BY <1>4
      <4>2. GoesOn(engagements[p], [engagements[p] EXCEPT !.fired = shot], signalled')
        BY <4>1, WaysToGoOn
      <4>. QED
        BY <2>1, <3>1, <4>2
    <3>2. CASE q # p
      <4>1. engagements'[q] = engagements[q]
        BY <1>2, <2>1, <3>2
      <4>2. engagements[q].id \in signalled' <=> engagements[q].id \in signalled
        BY <1>2, <1>4, <3>2
      <4>. QED
        BY <4>1, <4>2, WaysToGoOn
    <3>. QED
      BY <3>1, <3>2
  <2>3. \A q \in Pairs \ Open : engagements'[q] = NoEngagement
    BY <1>2, <2>1
  <2>4. engagements' \in [Pairs -> {NoEngagement} \cup EngagementRows]
    <3>1. \A q \in Open : engagements'[q] \in EngagementRows
      BY <2>2 DEF GoesOn
    <3>2. \A q \in Pairs : engagements'[q] \in {NoEngagement} \cup EngagementRows
      BY <2>3, <3>1
    <3>. QED
      BY <2>1, <3>2
  <2>5. signalled' \subseteq signalled \cup OpenIds /\ signalled \subseteq signalled'
    BY <1>4 DEF OpenIds
  <2>6. \A q \in Open : {q[1], q[2]} \subseteq alive' \cup Dying'
    BY <1>2
  <2>. QED
    BY <1>1, <2>2, <2>3, <2>4, <2>5, <2>6, GoingOnKeeps
<1>. QED
  BY <1>3, <1>4 DEF RecordEngagementShot

LEMMA OpeningKeeps ==
    ASSUME OpenInv, ClosedInv, NEW ps \in SUBSET Pairs, NEW anchor \in [Pairs -> 0 .. MaxTick],
           OpenEngagement(ps, anchor), currentRound \in Rounds, ~ finalized', spotted \subseteq spotted',
           \A p \in ps : [pair |-> p, round |-> currentRound] \in spotted',
           \A p \in ps : {p[1], p[2]} \subseteq alive,
           UNCHANGED <<currentRound, alive, engine>>
    PROVE  OpenInv' /\ ClosedInv'
<1> DEFINE new == IF liveRound THEN ps \ Open ELSE {}
           seq == SetToSeq(new)
           At(p) == CHOOSE i \in DOMAIN seq : seq[i] = p
           more == [i \in DOMAIN seq |-> currentRound]
           n == Len(openings)
           NewRow(p) == [id |-> n + At(p), round |-> currentRound, spotTick |-> anchor[p],
                      fired |-> 0, hit |-> FALSE, tracked |-> FALSE]
<1>1. /\ engagements' = [p \in Pairs |-> IF p \in new THEN NewRow(p) ELSE engagements[p]]
      /\ openings' = openings \o more
      /\ UNCHANGED <<aimEngagements, signalled>>
  BY DEF OpenEngagement
<1>2. new \subseteq ps \ Open /\ new \subseteq Pairs
  OBVIOUS
<1>3. IsFiniteSet(new)
  BY <1>2, FightersAreFinite, FS_Subset
<1>. HIDE DEF new
<1>4. /\ seq \in Seq(new) /\ DOMAIN seq = 1 .. Len(seq) /\ Len(seq) \in Nat
      /\ \A x \in new : \E i \in DOMAIN seq : seq[i] = x
  BY <1>3, SetToSeqIs
<1>5. /\ openings \in Seq(Rounds) /\ n \in Nat /\ DOMAIN openings = 1 .. n
  BY DEF OpenInv
<1>. HIDE DEF seq, n
<1>6. \A p \in new : At(p) \in DOMAIN seq /\ seq[At(p)] = p
  BY <1>4
<1>7. more \in Seq(Rounds) /\ Len(more) = Len(seq) /\ \A i \in 1 .. Len(seq) : more[i] = currentRound
  BY <1>4
<1>. HIDE DEF At, more
<1>8. /\ openings' \in Seq(Rounds) /\ DOMAIN openings' = 1 .. n + Len(seq)
      /\ \A i \in 1 .. n : openings'[i] = openings[i]
      /\ \A i \in 1 .. Len(seq) : openings'[n + i] = currentRound
  <2>1. /\ openings \o more \in Seq(Rounds) /\ Len(openings \o more) = n + Len(seq)
        /\ \A i \in 1 .. n + Len(seq) :
             (openings \o more)[i] = IF i <= n THEN openings[i] ELSE more[i - n]
    <3>1. openings \in Seq(Rounds) /\ more \in Seq(Rounds)
      BY <1>5, <1>7
    <3>2. /\ openings \o more \in Seq(Rounds)
          /\ Len(openings \o more) = Len(openings) + Len(more)
          /\ \A i \in 1 .. Len(openings) + Len(more) :
               (openings \o more)[i] = IF i <= Len(openings) THEN openings[i]
                                        ELSE more[i - Len(openings)]
      BY <3>1, ConcatProperties
    <3>3. Len(openings) = n /\ Len(more) = Len(seq)
      BY <1>7 DEF n
    <3>. QED
      BY <3>2, <3>3
  <2>2. \A i \in 1 .. n : openings'[i] = openings[i]
    BY <1>1, <1>4, <1>5, <2>1
  <2>3. \A i \in 1 .. Len(seq) : openings'[n + i] = more[i]
    BY <1>1, <1>4, <1>5, <2>1
  <2>4. openings' \in Seq(Rounds) /\ DOMAIN openings' = 1 .. n + Len(seq)
    BY <1>1, <2>1
  <2>. QED
    BY <1>7, <2>2, <2>3, <2>4
<1>9. ASSUME NEW p \in new
      PROVE  /\ At(p) \in 1 .. Len(seq) /\ n + At(p) \in Nat /\ n + At(p) > n
             /\ n + At(p) \in 1 .. n + Len(seq)
             /\ openings'[n + At(p)] = currentRound
  <2>1. At(p) \in 1 .. Len(seq)
    BY <1>4, <1>6
  <2>2. openings'[n + At(p)] = currentRound
    BY <1>8, <2>1
  <2>3. n + At(p) \in Nat /\ n + At(p) > n /\ n + At(p) \in 1 .. n + Len(seq)
    BY <1>4, <1>5, <2>1
  <2>. QED
    BY <2>1, <2>2, <2>3
<1>9a. ASSUME NEW p \in new PROVE NewRow(p) \in EngagementRows
  <2>1. anchor[p] \in 0 .. MaxTick /\ 0 \in Nat /\ n + At(p) \in Nat \ {0}
    BY <1>2, <1>5, <1>9
  <2>. QED
    BY <2>1 DEF EngagementRows
<1>9b. \A p \in new : NewRow(p).id = n + At(p) /\ NewRow(p).round = currentRound
  OBVIOUS
<1>9c. \A p \in new : ~ (NewRow(p).fired > 0 \/ NewRow(p).tracked)
  OBVIOUS
<1>. HIDE DEF NewRow
<1>10. \A p, q \in new : n + At(p) = n + At(q) => p = q
  <2>1. \A p \in new : At(p) \in 1 .. Len(seq) /\ seq[At(p)] = p
    BY <1>4, <1>6
  <2>. QED
    BY <1>4, <1>5, <2>1
<1>11. /\ \A p \in new : engagements'[p] = NewRow(p)
       /\ \A p \in Pairs \ new : engagements'[p] = engagements[p]
  BY <1>1, <1>2
<1>12. engagements' \in [Pairs -> {NoEngagement} \cup EngagementRows]
  <2>1. engagements' = [p \in Pairs |-> engagements'[p]]
    BY <1>1
  <2>2. \A p \in Pairs : engagements[p] \in {NoEngagement} \cup EngagementRows
    BY DEF OpenInv
  <2>3. \A p \in Pairs : engagements'[p] \in {NoEngagement} \cup EngagementRows
    BY <1>9a, <1>11, <2>2
  <2>. QED
    BY <2>1, <2>3
<1>13. Open' = Open \cup new
  <2>1. Open' = {p \in Pairs : engagements'[p] # NoEngagement}
    BY DEF Open
  <2>2. \A p \in new : engagements'[p] # NoEngagement
    BY <1>9a, <1>11, NoRow
  <2>3. \A p \in Pairs \ new : engagements'[p] # NoEngagement <=> p \in Open
    BY <1>11 DEF Open
  <2>4. Open \subseteq Pairs
    BY DEF Open
  <2>. QED
    BY <1>2, <2>1, <2>2, <2>3, <2>4
<1>14. ASSUME NEW p \in Open
       PROVE  /\ engagements'[p] = engagements[p]
              /\ engagements[p].id \in 1 .. n
              /\ openings'[engagements[p].id] = engagements[p].round
              /\ engagements[p].round = currentRound
  <2>1. p \in Pairs \ new
    BY <1>2 DEF Open
  <2>2. /\ engagements[p].id \in 1 .. n
        /\ openings[engagements[p].id] = engagements[p].round
        /\ engagements[p].round = currentRound
    BY <1>5 DEF OpenInv
  <2>. QED
    BY <1>8, <1>11, <2>1, <2>2
<1>14a. ASSUME NEW p \in Open
        PROVE  /\ {p[1], p[2]} \subseteq alive \cup Dying
               /\ engagements[p].id \in signalled <=> engagements[p].fired > 0 \/ engagements[p].tracked
               /\ \A q \in Open : engagements[q].id = engagements[p].id => q = p
  BY DEF OpenInv
<1>14b. ASSUME NEW p \in Open'
        PROVE  [pair |-> p, round |-> engagements'[p].round] \in spotted'
  <2>1. CASE p \in Open
    <3> DEFINE x == [pair |-> p, round |-> engagements[p].round]
    <3>1. x \in spotted
      BY <2>1 DEF OpenInv
    <3>. HIDE DEF x
    <3>2. x \in spotted'
      BY <3>1
    <3>3. engagements'[p].round = engagements[p].round
      BY <1>14, <2>1
    <3>. QED
      BY <3>2, <3>3 DEF x
  <2>2. CASE p \in new
    <3>1. engagements'[p].round = currentRound
      BY <1>9b, <1>11, <2>2
    <3>2. p \in ps
      BY <1>2, <2>2
    <3>. QED
      BY <3>1, <3>2
  <2>. QED
    BY <1>13, <2>1, <2>2
<1>15. signalled \subseteq 1 .. n
  BY <1>5, ClosedParts
<1>15a. \A p \in Open' : engagements'[p].id \in 1 .. n + Len(seq)
                          /\ openings'[engagements'[p].id] = engagements'[p].round
                          /\ engagements'[p].round = currentRound
  <2>1. \A p \in new : engagements'[p].id = n + At(p) /\ engagements'[p].round = currentRound
    BY <1>9b, <1>11
  <2>2. \A i \in 1 .. n : i \in 1 .. n + Len(seq)
    BY <1>4, <1>5
  <2>. QED
    BY <1>9, <1>13, <1>14, <2>1, <2>2
<1>15b. \A p, q \in Open' : engagements'[q].id = engagements'[p].id => q = p
  <2>1. \A p \in new : engagements'[p].id = n + At(p) /\ n + At(p) \notin 1 .. n
    BY <1>5, <1>9, <1>9b, <1>11
  <2>2. \A p \in Open : engagements'[p].id = engagements[p].id /\ engagements[p].id \in 1 .. n
    BY <1>14
  <2>. QED
    BY <1>10, <1>13, <1>14a, <2>1, <2>2
<1>15c. \A p \in Open' : engagements'[p].id \in signalled
                           <=> engagements'[p].fired > 0 \/ engagements'[p].tracked
  <2>1. \A p \in new : engagements'[p].id \notin signalled
    BY <1>5, <1>9, <1>9b, <1>11, <1>15
  <2>2. \A p \in new : ~ (engagements'[p].fired > 0 \/ engagements'[p].tracked)
    BY <1>9c, <1>11
  <2>3. \A p \in Open : engagements'[p] = engagements[p]
    BY <1>14
  <2>. QED
    BY <1>13, <1>14a, <2>1, <2>2, <2>3
<1>15d. \A p \in Open' : {p[1], p[2]} \subseteq alive' \cup Dying'
  <2>1. Dying' = Dying /\ alive' = alive
    BY DEF Dying
  <2>2. \A p \in new : {p[1], p[2]} \subseteq alive
    BY <1>2
  <2>. QED
    BY <1>13, <1>14a, <2>1, <2>2
<1>16. ASSUME NEW p \in Open'
       PROVE  LET e == engagements'[p]
              IN  /\ e.id \in DOMAIN openings' /\ openings'[e.id] = e.round /\ e.round = currentRound'
                  /\ [pair |-> p, round |-> e.round] \in spotted'
                  /\ {p[1], p[2]} \subseteq alive' \cup Dying'
                  /\ e.id \in signalled' <=> e.fired > 0 \/ e.tracked
                  /\ \A q \in Open' : engagements'[q].id = e.id => q = p
  <2>1. /\ engagements'[p].id \in DOMAIN openings'
        /\ openings'[engagements'[p].id] = engagements'[p].round
        /\ engagements'[p].round = currentRound'
    BY <1>8, <1>15a
  <2>2. engagements'[p].id \in signalled' <=> engagements'[p].fired > 0 \/ engagements'[p].tracked
    BY <1>1, <1>15c
  <2>3. \A q \in Open' : engagements'[q].id = engagements'[p].id => q = p
    BY <1>15b
  <2>4. {p[1], p[2]} \subseteq alive' \cup Dying'
    BY <1>15d
  <2>. QED
    BY <1>14b, <2>1, <2>2, <2>3, <2>4
<1>17. OpenInv'
  BY <1>8, <1>12, <1>16 DEF OpenInv
<1>18. signalled' \ {engagements'[p].id : p \in Open'} = signalled \ OpenIds
  <2>1. \A p \in Open : engagements'[p].id = engagements[p].id
    BY <1>14
  <2>2. \A p \in new : engagements'[p].id \notin signalled
    BY <1>5, <1>9, <1>9b, <1>11, <1>15
  <2>. QED
    BY <1>1, <1>13, <2>1, <2>2 DEF OpenIds
<1>19. RowsAre(aimEngagements', signalled' \ {engagements'[p].id : p \in Open'})
  BY <1>1, <1>18, ClosedParts
<1>20. DOMAIN openings \subseteq DOMAIN openings' /\ \A i \in DOMAIN openings : openings'[i] = openings[i]
  BY <1>4, <1>5, <1>8
<1>. QED
  BY <1>1, <1>17, <1>19, <1>20, ClosedParts, ClosedStays

LEMMA AimInvInit == FightsInit /\ ClockInit => AimInv
<1>. SUFFICES ASSUME FightsInit, ClockInit PROVE AimInv
  OBVIOUS
<1>1. /\ alive = Fighters /\ spotters = {} /\ framesAlive = {} /\ spotted = {}
      /\ engagements = [p \in Pairs |-> NoEngagement]
      /\ aimEngagements = <<>> /\ openings = <<>> /\ signalled = {}
  BY DEF FightsInit
<1>2. Open = {}
  BY <1>1 DEF Open
<1>3. PlayersInv
  BY <1>1 DEF PlayersInv
<1>4. OpenInv
  BY <1>1, <1>2, EmptySeq DEF OpenInv
<1>5. RowsAre(aimEngagements, signalled \ OpenIds)
  BY <1>1, EmptySeq DEF RowsAre
<1>6. ClosedInv
  BY <1>1, <1>5, ClosedParts
<1>. QED
  BY <1>3, <1>4, <1>6 DEF AimInv

\* Who is reported next is no longer to be reported.
LEMMA DyingTail ==
    ASSUME EngineInv, engine # <<>>, engine' = Tail(engine)
    PROVE  \A v \in Dying : v \in Dying' \/ (Head(engine).kind = "kill" /\ v = Head(engine).victim)
<1>1. /\ Len(engine) \in Nat \ {0} /\ DOMAIN engine = 1 .. Len(engine) /\ Head(engine) = engine[1]
      /\ \A i \in 1 .. Len(engine) - 1 : engine'[i] = engine[i + 1]
      /\ engine' \in Seq(ShotReports \cup HarmReports) /\ Len(engine') = Len(engine) - 1
  BY ReportFacts
<1>2. DOMAIN engine' = 1 .. Len(engine) - 1
  BY <1>1
<1>3. Dying' = {engine'[i].victim : i \in {j \in DOMAIN engine' : engine'[j].kind = "kill"}}
  BY DEF Dying
<1>4. ASSUME NEW i \in DOMAIN engine, engine[i].kind = "kill"
      PROVE  engine[i].victim \in Dying' \/ i = 1
  <2>1. CASE i # 1
    <3>1. i - 1 \in 1 .. Len(engine) - 1 /\ (i - 1) + 1 = i
      BY <1>1, <2>1
    <3>2. engine'[i - 1] = engine[i]
      BY <1>1, <3>1
    <3>. QED
      BY <1>2, <1>3, <1>4, <3>1, <3>2
  <2>. QED
    BY <2>1
<1>. QED
  BY <1>1, <1>4 DEF Dying

LEMMA AimInvIdle ==
    ASSUME OpenInv, ClosedInv, UNCHANGED <<aimVars, spotted, currentRound, finalized>>,
           \A p \in Open : {p[1], p[2]} \subseteq alive' \cup Dying'
    PROVE  OpenInv' /\ ClosedInv'
<1>1. UNCHANGED <<engagements, aimEngagements, openings, signalled>>
  BY DEF aimVars
<1>2. /\ engagements \in [Pairs -> {NoEngagement} \cup EngagementRows]
      /\ \A p \in Pairs \ Open : engagements[p] = NoEngagement
  BY DEF OpenInv, Open
<1>3. \A p \in Open : GoesOn(engagements[p], engagements'[p], signalled')
  BY <1>1, WaysToGoOn
<1>. QED
  BY <1>1, <1>2, <1>3, GoingOnKeeps

LEMMA AimInvStep ==
    ASSUME BaseInv, HitInv, SightInv, AimInv, [Next]_vars
    PROVE  AimInv'
<1>a. /\ scene \in Scenes /\ PlayersInv /\ OpenInv /\ ClosedInv /\ EngineInv
      /\ currentRound \in Rounds
      /\ Parsing => tick \in 0 .. MaxTick
  BY ClockFacts DEF BaseInv, AimInv, HitInv
<1>b. /\ alive \subseteq Fighters /\ spotters \subseteq Pairs /\ framesAlive \subseteq Fighters
      /\ spotted \subseteq [pair : Pairs, round : Rounds]
      /\ \A p \in Open : {p[1], p[2]} \subseteq alive \cup Dying
      /\ Open \subseteq Pairs /\ \A p \in Pairs : p[1] \in Fighters /\ p[2] \in Fighters
  BY <1>a, FightersAreFinite DEF PlayersInv, OpenInv, Open, Fighters
<1>c. engine = <<>> => Dying = {}
  BY DEF Dying
<1>d. AimInv' <=> PlayersInv' /\ OpenInv' /\ ClosedInv'
  BY DEF AimInv
<1>e. ASSUME UNCHANGED <<alive, spotters, framesAlive, spotted>> PROVE PlayersInv'
  BY <1>a, <1>e DEF PlayersInv
<1>1. ASSUME NEW pairs \in SUBSET Pairs, FireBullet(pairs) PROVE AimInv'
  <2>1. /\ UNCHANGED <<aimVars, spotted, currentRound, finalized, spotters, framesAlive>>
        /\ engine = <<>>
    BY <1>1 DEF FireBullet, sightVars, clock
  <2>2. /\ alive' \subseteq alive
        /\ \A v \in alive \ alive' : \E i \in DOMAIN engine' :
                engine'[i].kind = "kill" /\ engine'[i].victim = v
    BY <1>1, <1>a, <1>b, FireKeepsHits
  <2>3. \A v \in alive \ alive' : v \in Dying'
    BY <2>2 DEF Dying
  <2>4. \A p \in Open : {p[1], p[2]} \subseteq alive' \cup Dying'
    BY <1>b, <1>c, <2>1, <2>3
  <2>5. OpenInv' /\ ClosedInv'
    BY <1>a, <2>1, <2>4, AimInvIdle
  <2>6. PlayersInv'
    BY <1>a, <2>1, <2>2 DEF PlayersInv
  <2>. QED
    BY <1>d, <2>5, <2>6
<1>2. CASE OnPlayerHurt
  <2>1. /\ PlayerHurt(Head(engine)) /\ engine # <<>> /\ Head(engine).kind = "hurt"
        /\ engine' = Tail(engine) /\ UNCHANGED <<alive, spotters, currentRound, finalized>>
    BY <1>2 DEF OnPlayerHurt, Report, clock
  <2>2. Dying \subseteq Dying'
    BY <1>a, <2>1, DyingTail
  <2>3. UNCHANGED <<framesAlive, spotted>>
    BY <2>1 DEF PlayerHurt
  <2>. QED
    BY <1>a, <1>d, <1>e, <2>1, <2>2, <2>3, HurtKeepsAim
<1>3. CASE OnLateHurt
  <2>1. PICK r \in late : PlayerHurt(r)
    BY <1>3 DEF OnLateHurt
  <2>2. UNCHANGED <<alive, spotters, engine, currentRound, finalized>>
    BY <1>3 DEF OnLateHurt, clock
  <2>3. Dying' = Dying
    BY <2>2 DEF Dying
  <2>4. UNCHANGED <<framesAlive, spotted>>
    BY <2>1 DEF PlayerHurt
  <2>. QED
    BY <1>a, <1>d, <1>e, <2>1, <2>2, <2>3, <2>4, HurtKeepsAim
<1>4. CASE OnKill
  <2> DEFINE v == Head(engine).victim
             ps == Involving(v)
  <2>1. /\ CloseEngagementsFor(v) /\ engine # <<>> /\ engine' = Tail(engine)
        /\ UNCHANGED <<alive, spotters, framesAlive, spotted, currentRound, finalized>>
    BY <1>4 DEF OnKill, Report, clock, sightVars
  <2>2. /\ aimEngagements' = Flushed(ps) /\ engagements' = Without(ps)
        /\ openings' = openings /\ signalled' = signalled
    BY <2>1 DEF CloseEngagementsFor
  <2>3. \A w \in Dying : w \in Dying' \/ w = v
    BY <1>a, <2>1, DyingTail
  <2>4. \A p \in Open \ ps : v \notin {p[1], p[2]}
    BY <1>b DEF Involving
  <2>5. \A p \in Open \ ps : {p[1], p[2]} \subseteq alive' \cup Dying'
    BY <1>b, <2>1, <2>3, <2>4
  <2>6. finalized' => Open \ ps = {}
    BY <1>a, <2>1 DEF OpenInv
  <2>. HIDE DEF v, ps
  <2>7. OpenInv' /\ ClosedInv'
    BY <1>a, <2>1, <2>2, <2>5, <2>6, ClosingKeeps
  <2>. QED
    BY <1>d, <1>e, <2>1, <2>7
<1>5. CASE OnWeaponFire
  <2>1. /\ RecordEngagementShot(Head(engine).attacker, Len(shots) + 1)
        /\ engine # <<>> /\ Head(engine).kind = "fire" /\ engine' = Tail(engine)
        /\ UNCHANGED <<alive, spotters, framesAlive, spotted, currentRound, finalized>>
    BY <1>5 DEF OnWeaponFire, Report, clock, sightVars
  <2>2. Dying \subseteq Dying'
    BY <1>a, <2>1, DyingTail
  <2>3. Len(shots) + 1 \in Nat \ {0}
    BY DEF HitInv, ShotsInv
  <2>. QED
    BY <1>a, <1>d, <1>e, <2>1, <2>2, <2>3, ShotKeepsAim
<1>6. ASSUME NEW pairs \in SUBSET Pairs, OnPlayerSpottersChanged(pairs) PROVE AimInv'
  <2>1. PICK v, now, confirmed : SpottersChange(pairs, v, now, confirmed)
    BY <1>6, SpottersAre
  <2> DEFINE of == {p \in Pairs : p[2] = v}
             more == {[pair |-> p, round |-> currentRound] : p \in confirmed}
             anchor == [p \in Pairs |-> Anchor(p)]
  <2>2. /\ now \subseteq of /\ \A p \in now : p[1] \in alive
        /\ v \in alive \/ now = {}
        /\ confirmed \subseteq now
        /\ spotters' = (spotters \ of) \cup now
        /\ spotted' = spotted \cup more
        /\ OpenEngagement(confirmed, anchor)
    BY <2>1 DEF SpottersChange
  <2>3. /\ Parsing /\ engine = <<>>
        /\ UNCHANGED <<alive, engine, framesAlive, currentRound, finalized>>
    BY <1>6 DEF OnPlayerSpottersChanged, clock
  <2>4. confirmed \in SUBSET Pairs /\ now \subseteq Pairs
    BY <2>2
  <2>5. anchor \in [Pairs -> 0 .. MaxTick]
    <3>1. /\ fovEntry \in [Pairs -> 0 .. MaxTick] /\ tick \in 0 .. MaxTick
      BY <1>a, <2>3 DEF SightInv
    <3>2. \A p \in Pairs : Anchor(p) \in 0 .. MaxTick
      BY <3>1 DEF Anchor
    <3>. QED
      BY <3>2
  <2>6. \A p \in confirmed : {p[1], p[2]} \subseteq alive
    BY <2>2
  <2>7. more \subseteq [pair : Pairs, round : Rounds]
    BY <1>a, <2>4
  <2>8. PlayersInv'
    BY <1>a, <1>b, <2>2, <2>3, <2>4, <2>7 DEF PlayersInv
  <2>9. /\ spotted \subseteq spotted'
        /\ \A p \in confirmed : [pair |-> p, round |-> currentRound] \in spotted'
    BY <2>2
  <2>10. ~ finalized'
    BY <2>3 DEF Parsing
  <2>. HIDE DEF anchor, more
  <2>11. OpenInv' /\ ClosedInv'
    BY <1>a, <2>2, <2>3, <2>4, <2>5, <2>6, <2>9, <2>10, OpeningKeeps
  <2>. QED
    BY <1>d, <2>8, <2>11
<1>7. ASSUME NEW gap \in 1 .. MaxGap, NEW pairs \in SUBSET Pairs, ClockFrame(gap), FrameFights(pairs)
      PROVE  AimInv'
  <2>1. PICK shown \in OnScreen(pairs), seeing \in VisibleAt(pairs) : TrackEngagements(seeing)
    BY <1>7 DEF FrameFights
  <2>2. /\ framesAlive' = alive
        /\ UNCHANGED <<alive, spotters, engine, spotted, currentRound, finalized>>
    BY <1>7 DEF FrameFights, ClockFrame, SnapshotPlayers, gameVars
  <2>3. PlayersInv'
    BY <1>a, <2>2 DEF PlayersInv
  <2>4. OpenInv' /\ ClosedInv'
    BY <1>a, <2>1, <2>2, TrackKeepsAim
  <2>. QED
    BY <1>d, <2>3, <2>4
<1>8. CASE ClockRoundStart /\ RoundStartFights
  <2>1. /\ CloseAllEngagements /\ alive' = Fighters /\ ~ finalized'
        /\ UNCHANGED <<spotters, engine, framesAlive, spotted>>
    BY <1>8 DEF ClockRoundStart, RoundStartFights, Parsing
  <2>2. PlayersInv'
    BY <1>a, <2>1 DEF PlayersInv
  <2>3. /\ aimEngagements' = Flushed(Pairs) /\ engagements' = Without(Pairs)
        /\ openings' = openings /\ signalled' = signalled
    BY <2>1 DEF CloseAllEngagements
  <2>4. Open \ Pairs = {}
    BY <1>b
  <2>5. OpenInv' /\ ClosedInv'
    BY <1>a, <2>1, <2>3, <2>4, ClosingKeeps
  <2>. QED
    BY <1>d, <2>2, <2>5
<1>9. CASE ClockFinalize /\ FinalizeFights
  <2>1. /\ CloseAllEngagements
        /\ UNCHANGED <<alive, spotters, engine, framesAlive, spotted>>
    BY <1>9 DEF FinalizeFights, gameVars, sightVars
  <2>3. /\ aimEngagements' = Flushed(Pairs) /\ engagements' = Without(Pairs)
        /\ openings' = openings /\ signalled' = signalled
    BY <2>1 DEF CloseAllEngagements
  <2>4. Open \ Pairs = {}
    BY <1>b
  <2>5. OpenInv' /\ ClosedInv'
    BY <1>a, <2>1, <2>3, <2>4, ClosingKeeps
  <2>. QED
    BY <1>d, <1>e, <2>1, <2>5
<1>10. CASE /\ UNCHANGED fightVars
            /\ UNCHANGED <<tick, currentRound, starts, finalized>>
  <2>1. UNCHANGED <<alive, spotters, engine, framesAlive, spotted, aimVars, currentRound, finalized>>
    BY <1>10 DEF fightVars, gameVars, sightVars
  <2>2. Dying' = Dying
    BY <2>1 DEF Dying
  <2>3. \A p \in Open : {p[1], p[2]} \subseteq alive' \cup Dying'
    BY <1>b, <2>1, <2>2
  <2>4. OpenInv' /\ ClosedInv'
    BY <1>a, <2>1, <2>3, AimInvIdle
  <2>. QED
    BY <1>d, <1>e, <2>1, <2>4
<1>. QED
  BY <1>a, <1>1, <1>2, <1>3, <1>4, <1>5, <1>6, <1>7, <1>8, <1>9, <1>10, FightSteps

-----------------------------------------------------------------------------

LEMMA FightAlways == Spec => []FightInv
<1>1. Init => FightInv
  BY HitInvInit, SightInvInit, AimInvInit DEF Init, FightInv
<1>2. BaseInv /\ FightInv /\ [Next]_vars => FightInv'
  <2>. SUFFICES ASSUME BaseInv, FightInv, [Next]_vars PROVE FightInv'
    OBVIOUS
  <2>1. HitInv /\ SightInv /\ AimInv /\ alive \subseteq Fighters
    BY DEF FightInv, AimInv, PlayersInv
  <2>. QED
    BY <2>1, HitInvStep, SightInvStep, AimInvStep DEF FightInv
<1>. QED
  BY <1>1, <1>2, BaseAlways, PTL DEF Spec

\* SightsAreFresh: no anchor outlives the round or the sight it belongs to, and
\* what a damage takes from it is of the damage's own round
\* (onPlayerSpottersChanged, trackFOV, onPlayerHurt and what onRoundStart
\* forgets).
THEOREM SightsFresh == Spec => []SightsAreFresh
<1>1. SightInv => SightsAreFresh
  BY DEF SightInv, SightsAreFresh
<1>. QED
  BY <1>1, FightAlways, PTL DEF FightInv

\* HitsClaimTheirShot: a damage that has been matched claims the shot of its own
\* bullet, and a shot is a hit when one of its damages says so (resolveHits,
\* shotForHit, onRoundStart and finalize).
THEOREM HitsOfTheirShots == Spec => []HitsClaimTheirShot
<1>1. FightInv => HitsClaimTheirShot
  <2>. SUFFICES ASSUME FightInv PROVE HitsClaimTheirShot
    OBVIOUS
  <2>1. HitInv /\ SightInv /\ PlayersInv /\ ClosedInv
    BY DEF FightInv, AimInv
  <2>2. ASSUME NEW i \in DOMAIN shots
        PROVE  shots[i] \in [tick : Ticks, attacker : Attackers, round : Rounds, hit : BOOLEAN]
    <3>1. shots[i] \in ShotRows
      BY <2>1 DEF HitInv, ShotsInv
    <3>. QED
      BY <3>1 DEF ShotRows
  <2>3. ASSUME NEW i \in DOMAIN damages
        PROVE  damages[i] \in
                 [tick : Ticks, attacker : Attackers, victim : Victims, round : Rounds,
                  spot : 0 .. MaxTick, bullet : 1 .. MaxShots, claimed : 0 .. Len(shots)]
    <3>1. damages[i] \in DamageRows /\ damages[i].claimed \in 0 .. Len(shots)
      BY <2>1 DEF HitInv, ClaimsInv
    <3>. QED
      BY <3>1 DEF DamageRows
  <2>4. FightsTypeOK
    BY <2>1, <2>2, <2>3 DEF FightsTypeOK, HitInv, ShotsInv, PendingInv, SightInv, PlayersInv, ClosedInv
  <2>. QED
    BY <2>1, <2>4 DEF HitsClaimTheirShot, HitInv, PendingInv, ClaimsInv
<1>. QED
  BY <1>1, FightAlways, PTL

\* EngagementsEndOnce: every engagement that had a signal has one row or is still
\* open, whichever of a death, a timeout, a new round and the end closed it
\* (openEngagement, flushEngagement and who calls them).
THEOREM EngagementsOnce == Spec => []EngagementsEndOnce
<1>1. FightInv => EngagementsEndOnce
  <2>. SUFFICES ASSUME FightInv PROVE EngagementsEndOnce
    OBVIOUS
  <2>1. OpenInv /\ ClosedInv
    BY DEF FightInv, AimInv
  <2>2. engine = <<>> => Dying = {}
    BY DEF Dying
  <2>3. ASSUME NEW p \in Open
        PROVE  engagements[p].round = currentRound /\ (engine = <<>> => {p[1], p[2]} \subseteq alive)
    BY <2>1, <2>2 DEF OpenInv
  <2>4. finalized => {engagements[p].id : p \in Open} = {}
    BY <2>1 DEF OpenInv
  <2>. QED
    BY <2>1, <2>3, <2>4 DEF EngagementsEndOnce, ClosedInv
<1>. QED
  BY <1>1, FightAlways, PTL
=============================================================================
