------------------------------- MODULE Fights -------------------------------
(***************************************************************************)
(* Shots, damages, sights and engagements (internal/parser/shots.go,       *)
(* damages.go, kills.go, engagements.go, fov.go).                          *)
(*                                                                         *)
(* Within a tick the engine reports a bullet's damage, then the kill, then *)
(* the shot, and some damage a tick or two after its shot.  So a damage    *)
(* waits for the end of its tick to be matched to the shot that did it; an *)
(* engagement lives from the first sight of an enemy to a death, a timeout *)
(* or the end of the round, and is measured from anchors that four         *)
(* handlers write and three forget.                                        *)
(*                                                                         *)
(* A damage knows here which bullet did it (bullet, the index its shot has *)
(* or will have); the code does not, and works it out (claimed).           *)
(***************************************************************************)
EXTENDS ParseClock, SequencesExt

CONSTANTS
    Pairs,          \* <<attacker, victim>>: who may see and shoot whom
    SprayTicks,     \* sprayWindowSecs
    EngagementTicks,\* maxEngagementSecs
    LookbackTicks,  \* fovAnchorLookbackSecs
    ProbeEvery,     \* fovLosEveryTicks
    Cadence,        \* of the game: ticks between two shots of a player
    Late,           \* of the game: ticks a damage may come after its shot
    MaxShots        \* bound: bullets of the recording

\* A damage is reported while its shot is still its shooter's latest and is
\* still inside the spray window.
ASSUME FightsAssumption ==
    /\ {SprayTicks, EngagementTicks, LookbackTicks, ProbeEvery, Cadence} \subseteq Nat
    /\ MaxShots \in Nat /\ Late \in Nat
    /\ Late < Cadence /\ Late < SprayTicks
    /\ IsFiniteSet(Pairs)

VARIABLES
    alive, spotters,        \* of the game: who lives, which pairs see
    engine, late,           \* of the game: reports of this tick's bullet, and
                            \* damages still on their way
    shots, damages,         \* Result.ShotsFired, Result.Damages
    lastShot, pendingHits,
    visStart, fovEntry, fovLosProbe,    \* a tick, or 0 without an entry
    framesAlive,            \* frames[sid].alive
    engagements,            \* the open ones
    aimEngagements,         \* Result.AimEngagements
    spotted,                \* the pairs and rounds of Result.Spotted
    openings, signalled     \* of every opening its round; those with a signal

gameVars == <<alive, spotters, engine, late>>
hitVars == <<shots, damages, lastShot, pendingHits>>
sightVars == <<visStart, fovEntry, fovLosProbe, framesAlive, spotted>>
aimVars == <<engagements, aimEngagements, openings, signalled>>
fightVars == <<gameVars, hitVars, sightVars, aimVars>>

Attackers == {p[1] : p \in Pairs}
Victims == {p[2] : p \in Pairs}
Fighters == Attackers \cup Victims

NoEngagement == [id |-> 0]
Open == {p \in Pairs : engagements[p] # NoEngagement}

FightsInit ==
    /\ alive = Fighters /\ spotters = {} /\ engine = <<>> /\ late = {}
    /\ shots = <<>> /\ damages = <<>> /\ pendingHits = {}
    /\ lastShot = [a \in Attackers |-> 0]
    /\ visStart = [p \in Pairs |-> 0]
    /\ fovEntry = [p \in Pairs |-> 0]
    /\ fovLosProbe = [p \in Pairs |-> 0]
    /\ framesAlive = {} /\ spotted = {}
    /\ engagements = [p \in Pairs |-> NoEngagement]
    /\ aimEngagements = <<>> /\ openings = <<>> /\ signalled = {}

-----------------------------------------------------------------------------
(* Engagements. *)

\* flushEngagement of a set of open engagements: one row for each that has a
\* signal.  They are closed in the order of a map, which is any order.
Flushed(ps) ==
    aimEngagements \o
      SetToSeq({[id |-> engagements[p].id, pair |-> p, round |-> engagements[p].round,
                 firstShotFired |-> engagements[p].fired > 0,
                 firstShotHit |-> engagements[p].hit,
                 firstShot |-> engagements[p].fired]
                : p \in {q \in ps \cap Open : \/ engagements[q].fired > 0
                                              \/ engagements[q].tracked}})

Without(ps) == [p \in Pairs |-> IF p \in ps THEN NoEngagement ELSE engagements[p]]

\* openEngagement for a set of pairs, each with the tick of its anchor.
OpenEngagement(ps, anchor) ==
    LET new == IF liveRound THEN ps \ Open ELSE {}
        seq == SetToSeq(new)
        Nth(p) == Len(openings) + CHOOSE i \in DOMAIN seq : seq[i] = p
    IN  /\ engagements' = [p \in Pairs |->
             IF p \in new
             THEN [id |-> Nth(p), round |-> currentRound, spotTick |-> anchor[p],
                   fired |-> 0, hit |-> FALSE, tracked |-> FALSE]
             ELSE engagements[p]]
        /\ openings' = openings \o [i \in DOMAIN seq |-> currentRound]
        /\ UNCHANGED <<aimEngagements, signalled>>

\* Wrong: only those the player opened.
OpenedBy(s) == {p \in Pairs : p[1] = s}

\* closeEngagementsFor: those the player is part of, on either side.
Involving(s) == {p \in Pairs : s \in {p[1], p[2]}}

\* onKill.
CloseEngagementsFor(s) ==
    /\ aimEngagements' = Flushed(Involving(s))
    /\ engagements' = Without(Involving(s))
    /\ UNCHANGED <<openings, signalled>>

\* closeAllEngagements: at the start of a round and in finalize.
CloseAllEngagements ==
    /\ aimEngagements' = Flushed(Pairs)
    /\ engagements' = Without(Pairs)
    /\ UNCHANGED <<openings, signalled>>

\* trackEngagements, with the pairs that can see each other now: an engagement
\* is closed once its window is over and else takes a sample.
TimedOut == {p \in Open : tick - engagements[p].spotTick > EngagementTicks}

TrackEngagements(seeing) ==
    LET sampled == {p \in Open \ TimedOut : p \in seeing /\ {p[1], p[2]} \subseteq alive}
    IN  /\ aimEngagements' = Flushed(TimedOut)
        /\ engagements' = [p \in Pairs |->
             CASE p \in TimedOut -> NoEngagement
               [] p \in sampled -> [engagements[p] EXCEPT !.tracked = TRUE]
               [] OTHER -> engagements[p]]
        /\ signalled' = signalled \cup {engagements[p].id : p \in sampled}
        /\ UNCHANGED openings

\* recordEngagementShot: the engagement nearest the crosshair, of those that
\* have not had their first shot, if one is near enough.
RecordEngagementShot(a, shot) ==
    LET waiting == {p \in Open : /\ p[1] = a
                                 /\ engagements[p].fired = 0
                                 /\ p[2] \in framesAlive}
    IN  /\ \/ UNCHANGED <<engagements, signalled>>
           \/ \E p \in waiting :
                /\ engagements' = [engagements EXCEPT ![p].fired = shot]
                /\ signalled' = signalled \cup {engagements[p].id}
        /\ UNCHANGED <<aimEngagements, openings>>

-----------------------------------------------------------------------------
(* Hits. *)

\* Wrong: only the latest shot is looked at, and only while unclaimed; a
\* second victim of the bullet falls through to the one before it.
ShotForHitUnclaimed(d, seen) ==
    LET free == {i \in DOMAIN seen : /\ seen[i].attacker = d.attacker
                                     /\ ~ seen[i].hit
                                     /\ d.tick - seen[i].tick < SprayTicks}
    IN  IF free # {} THEN Max(free) ELSE 0

\* shotForHit: the earliest unclaimed shot of the damage's own tick, else the
\* latest shot inside the spray window, claimed or not; 0 when there is none.
\* seen is what earlier hits of the batch have made of the shots.
ShotForHit(d, seen) ==
    LET own == {i \in DOMAIN seen : /\ seen[i].tick = d.tick
                                    /\ seen[i].attacker = d.attacker
                                    /\ ~ seen[i].hit}
        last == lastShot[d.attacker]
    IN  IF own # {} THEN Min(own)
        ELSE IF last # 0 /\ d.tick - seen[last].tick < SprayTicks THEN last
        ELSE 0

\* resolveHit of the i-th damage, in what earlier hits have made of the lists.
ResolveHit(lists, i) ==
    LET k == ShotForHit(lists.damages[i], lists.shots)
    IN  [damages |-> [lists.damages EXCEPT ![i].claimed = k],
         shots |-> IF k = 0 THEN lists.shots ELSE [lists.shots EXCEPT ![k].hit = TRUE]]

\* resolveHits: the pending damages in the order they were reported.
Resolved ==
    LET upTo[i \in 0 .. Len(damages)] ==
          IF i = 0 THEN [damages |-> damages, shots |-> shots]
          ELSE IF i \in pendingHits THEN ResolveHit(upTo[i - 1], i)
          ELSE upTo[i - 1]
    IN  upTo[Len(damages)]

ResolveHits ==
    /\ shots' = Resolved.shots
    /\ damages' = Resolved.damages
    /\ pendingHits' = {}

\* The sights of the pair start anew; a spot that was used up is gone.
NoEntry == [p \in Pairs |-> 0]

\* onPlayerHurt, of a bullet: the engagement's first shot may be a hit, the
\* row takes the sight that led to it, and waits for its shot.
PlayerHurt(r) ==
    LET p == <<r.attacker, r.victim>>
        last == lastShot[r.attacker]
        eng == engagements[p]
        FirstShotHit == /\ last # 0 /\ tick - shots[last].tick < SprayTicks
                        /\ p \in Open /\ eng.fired > 0
                        /\ tick - shots[eng.fired].tick < SprayTicks
    IN  /\ engagements' = IF FirstShotHit
                          THEN [engagements EXCEPT ![p].hit = TRUE] ELSE engagements
        /\ damages' = Append(damages,
             [tick |-> tick, attacker |-> r.attacker, victim |-> r.victim,
              round |-> currentRound, spot |-> visStart[p],
              bullet |-> r.bullet, claimed |-> 0])
        /\ pendingHits' = pendingHits \cup {Len(damages) + 1}
        /\ visStart' = [visStart EXCEPT ![p] = 0]
        /\ UNCHANGED <<shots, lastShot, fovEntry, fovLosProbe, framesAlive, spotted,
                       aimEngagements, openings, signalled>>

-----------------------------------------------------------------------------
(* The game's reports and their handlers.  Entity updates of a frame (who   *)
(* sees whom) come together, not between the reports of a bullet.           *)

Shot(a) == {i \in DOMAIN shots : shots[i].attacker = a}

\* The game: a player fires, with a fate for each enemy; pairs are those that
\* meet in the recording.
FireBullet(pairs) ==
    /\ Parsing /\ engine = <<>> /\ phase # "freeze"
    /\ Len(shots) < MaxShots
    /\ \E a \in Attackers \cap alive :
        /\ \A i \in Shot(a) : tick - shots[i].tick >= Cadence
        /\ \E fate \in [{v \in alive : <<a, v>> \in pairs} -> {"none", "hurt", "kill", "late"}] :
            LET With(fs) == {v \in DOMAIN fate : fate[v] \in fs}
                Reports(kind, vs) == SetToSeq({[kind |-> kind, attacker |-> a, victim |-> v,
                                                bullet |-> Len(shots) + 1] : v \in vs})
            IN  /\ engine' = Reports("hurt", With({"hurt", "kill"}))
                             \o Reports("kill", With({"kill"}))
                             \o <<[kind |-> "fire", attacker |-> a]>>
                /\ late' = late \cup {[attacker |-> a, victim |-> v,
                                       bullet |-> Len(shots) + 1] : v \in With({"late"})}
                /\ alive' = alive \ With({"kill"})
    /\ UNCHANGED <<spotters, clock, hitVars, sightVars, aimVars>>

Report(kind) == Parsing /\ engine # <<>> /\ Head(engine).kind = kind

OnPlayerHurt ==
    /\ Report("hurt")
    /\ PlayerHurt(Head(engine))
    /\ engine' = Tail(engine)
    /\ UNCHANGED <<alive, spotters, late, clock>>

\* A damage that comes after its shot, in a later tick.
OnLateHurt ==
    /\ Parsing /\ engine = <<>>
    /\ \E r \in late :
        /\ tick \in shots[r.bullet].tick + 1 .. shots[r.bullet].tick + Late
        /\ r.victim \in alive
        /\ PlayerHurt(r)
        /\ late' = late \ {r}
    /\ UNCHANGED <<alive, spotters, engine, clock>>

OnKill ==
    /\ Report("kill")
    /\ CloseEngagementsFor(Head(engine).victim)
    /\ engine' = Tail(engine)
    /\ UNCHANGED <<alive, spotters, late, clock, hitVars, sightVars>>

OnWeaponFire ==
    /\ Report("fire")
    /\ LET a == Head(engine).attacker
       IN  /\ shots' = Append(shots, [tick |-> tick, attacker |-> a,
                                      round |-> currentRound, hit |-> FALSE])
           /\ lastShot' = [lastShot EXCEPT ![a] = Len(shots) + 1]
           /\ RecordEngagementShot(a, Len(shots) + 1)
    /\ engine' = Tail(engine)
    /\ UNCHANGED <<alive, spotters, late, clock, damages, pendingHits, sightVars>>

\* The anchor of a new sight: the moment the enemy came on screen, unless
\* that is too long ago, else the engine's own.
Anchor(p) == IF fovEntry[p] # 0 /\ tick - fovEntry[p] <= LookbackTicks
             THEN fovEntry[p] ELSE tick

\* onPlayerSpottersChanged of v: who is still seen keeps the entry, who is new
\* gets one, and an engagement if the geometry confirms the sight.
OnPlayerSpottersChanged(pairs) ==
    /\ Parsing /\ engine = <<>>
    /\ \E v \in Victims : \E now \in SUBSET {p \in pairs : p[1] \in alive /\ p[2] = v} :
        LET of == {p \in Pairs : p[2] = v}
            new == {p \in now : visStart[p] = 0}
        IN  /\ now # spotters \cap of
            /\ v \in alive \/ now = {}
            /\ spotters' = (spotters \ of) \cup now
            /\ \E confirmed \in SUBSET new :
                /\ visStart' = [p \in Pairs |->
                     CASE p \in confirmed -> Anchor(p)
                       [] p \in new \ confirmed -> tick
                       [] p \in of \ now -> 0
                       [] OTHER -> visStart[p]]
                /\ spotted' = spotted \cup {[pair |-> p, round |-> currentRound]
                                            : p \in confirmed}
                /\ OpenEngagement(confirmed, [p \in Pairs |-> Anchor(p)])
    /\ UNCHANGED <<alive, engine, late, clock, hitVars, fovEntry, fovLosProbe, framesAlive>>

-----------------------------------------------------------------------------
\* trackFOV: the anchor of a pair is the first tick it was both on screen and
\* visible, asked for at most every ProbeEvery ticks; a pair that has left the
\* screen loses its anchor and its probe.
Probed(shown) == {p \in shown : fovEntry[p] = 0 /\ tick - fovLosProbe[p] >= ProbeEvery}

TrackFOV(shown, seeing) ==
    /\ fovLosProbe' = [p \in Pairs |-> CASE p \in Probed(shown) -> tick
                                         [] p \notin shown -> 0
                                         [] OTHER -> fovLosProbe[p]]
    /\ fovEntry' = [p \in Pairs |-> CASE p \in Probed(shown) \cap seeing -> tick
                                      [] p \notin shown -> 0
                                      [] OTHER -> fovEntry[p]]

Facing(pairs) == {p \in pairs : {p[1], p[2]} \subseteq alive}

\* onScreen, of those not blinded: a matter of angles.
OnScreen(pairs) == SUBSET Facing(pairs)

\* visibleAt: a matter of walls, doors and smoke.
VisibleAt(pairs) == SUBSET Facing(pairs)

\* snapshotPlayers, as far as it is kept in frames.
SnapshotPlayers == framesAlive' = alive

\* onFrameDone's part: the hits of the tick, the players, the screen, the
\* engagements, in this order.  pairs are those that may come on screen; a
\* blinded attacker sees nobody.
FrameFights(pairs) ==
    /\ engine = <<>>
    /\ ResolveHits
    /\ SnapshotPlayers
    /\ \E shown \in OnScreen(pairs) : \E seeing \in VisibleAt(pairs) :
        /\ TrackFOV(shown, seeing)
        /\ TrackEngagements(seeing)
    /\ UNCHANGED <<gameVars, lastShot, visStart, spotted>>

\* Wrong: the anchors of the screen survive.
ForgetEngineSights ==
    /\ visStart' = NoEntry
    /\ UNCHANGED <<fovEntry, fovLosProbe>>

\* What a new round forgets of the sights.
ForgetSights ==
    /\ visStart' = NoEntry
    /\ fovEntry' = NoEntry
    /\ fovLosProbe' = NoEntry

\* onRoundStart's part: hits are matched before the shots are forgotten.
RoundStartFights ==
    /\ engine = <<>>
    /\ CloseAllEngagements
    /\ ForgetSights
    /\ ResolveHits
    /\ lastShot' = [a \in Attackers |-> 0]
    /\ alive' = Fighters
    /\ late' = {}
    /\ UNCHANGED <<spotters, engine, framesAlive, spotted>>

\* finalize's part, also in the midst of a tick: the demo broke off.
FinalizeFights ==
    /\ CloseAllEngagements
    /\ ResolveHits
    /\ UNCHANGED <<gameVars, lastShot, sightVars>>

-----------------------------------------------------------------------------
(* Properties. *)

Rounds == 1 .. MaxRounds

FightsTypeOK ==
    /\ alive \subseteq Fighters /\ spotters \subseteq Pairs /\ framesAlive \subseteq Fighters
    /\ \A i \in DOMAIN shots : shots[i] \in
         [tick : Ticks, attacker : Attackers, round : Rounds, hit : BOOLEAN]
    /\ \A i \in DOMAIN damages : damages[i] \in
         [tick : Ticks, attacker : Attackers, victim : Victims, round : Rounds,
          spot : 0 .. MaxTick, bullet : 1 .. MaxShots, claimed : 0 .. Len(shots)]
    /\ pendingHits \subseteq DOMAIN damages
    /\ lastShot \in [Attackers -> 0 .. Len(shots)]
    /\ {visStart, fovEntry, fovLosProbe} \subseteq [Pairs -> 0 .. MaxTick]
    /\ spotted \subseteq [pair : Pairs, round : Rounds]
    /\ signalled \subseteq DOMAIN openings

\* A damage that has been matched claims the shot of its own bullet, whatever
\* else was fired around it, reported out of order or by the bullet's other
\* victims, and also across the start of a round; a shot is a hit when, and
\* only when, one of its own damages is there to show it
\* (TestDamageClaimsTheShotLaterInItsTick,
\* TestSecondVictimOfOneBulletDoesNotStealAMiss).  Only a recording that
\* breaks off between a damage and its shot leaves the damage without one.
HitsClaimTheirShot ==
    /\ FightsTypeOK
    /\ \A i \in DOMAIN damages \ pendingHits :
         damages[i].bullet \in DOMAIN shots => damages[i].claimed = damages[i].bullet
    /\ \A k \in DOMAIN shots : shots[k].hit =>
         \E i \in DOMAIN damages \ pendingHits :
            damages[i].claimed = k
    /\ finalized => pendingHits = {}

\* Every engagement that was opened and has had a signal is either still open
\* or has exactly one row, with the round it was opened in, and the others have
\* none: although a death, a timeout, a new round and the end of the demo all
\* close engagements, at times in one tick.  None is open from a round
\* before, nor for a player who is dead once the tick's reports are in, nor at
\* the end; and every row is of a pair that was reported to have seen.
EngagementsEndOnce ==
    LET ids == {aimEngagements[i].id : i \in DOMAIN aimEngagements}
        openIds == {engagements[p].id : p \in Open}
    IN  /\ \A i, j \in DOMAIN aimEngagements :
             aimEngagements[i].id = aimEngagements[j].id => i = j
        /\ ids = signalled \ openIds
        /\ \A i \in DOMAIN aimEngagements :
             LET row == aimEngagements[i]
             IN  /\ row.round = openings[row.id]
                 /\ [pair |-> row.pair, round |-> row.round] \in spotted
        /\ \A p \in Open : /\ engagements[p].round = currentRound
                           /\ engine = <<>> => {p[1], p[2]} \subseteq alive
        /\ finalized => openIds = {}

\* An anchor is never of an earlier round, and is kept only while its pair is
\* still seen; so the reaction time a damage derives from it is measured from
\* a sight of the same two players in the damage's own round (rounds.go:
\* "visibility resets at freeze break, so a fresh sighting always starts each
\* round").
SightsAreFresh ==
    /\ \A p \in Pairs :
         /\ visStart[p] # 0 => p \in spotters /\ visStart[p] >= starts[currentRound]
         /\ fovEntry[p] # 0 => fovEntry[p] >= starts[currentRound]
    /\ \A i \in DOMAIN damages : damages[i].spot # 0 =>
         damages[i].spot \in starts[damages[i].round] .. damages[i].tick

\* What types.go says of a row: "that first shot dealt damage" (or its damage
\* is still on its way).
FirstShotHitIsFirstShot ==
    \A i \in DOMAIN aimEngagements :
      LET row == aimEngagements[i]
          OfFirst(d) == d.bullet = row.firstShot /\ d.victim = row.pair[2]
      IN  row.firstShotHit => \/ \E k \in DOMAIN damages : OfFirst(damages[k])
                              \/ \E d \in late : OfFirst(d)
=============================================================================
