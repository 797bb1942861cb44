------------------------------ MODULE VoxelLog ------------------------------
(***************************************************************************)
(* How a smoke's voxel log is read and timed (voxelLog, smokeVoxelTrack and *)
(* ReconstructSmokeVoxels in internal/parser/smoke_voxels.go, and the       *)
(* endpoint in cmd/server/smoke_voxels.go). The game appends a frame for    *)
(* each step of its simulation to a byte array of limited size; the parser  *)
(* polls how much of it is there, whenever the demo has a frame, and        *)
(* decodes what has become whole. Frames are thus stamped late, several at  *)
(* a time, and stepTicks guesses when each step was. A log that a plugin    *)
(* read on a live server goes through the same code.                        *)
(*                                                                          *)
(* Bytes are counted, not modelled; ticks count from the detonation. The    *)
(* simulation a log drives is SmokeSim; here a cloud is the ticks of its    *)
(* steps and the emitters each of them ran with.                            *)
(***************************************************************************)
EXTENDS Integers, Sequences, SequencesExt

CONSTANTS
    FrameKinds,  \* [carries, length]: what frames the game may append
    Slots,       \* voxelFrameDataSlots
    Pace,        \* the ticks one step of the simulation takes at least
    SettleSteps, \* smokeSettleSteps
    MaxFrames,   \* bound: frames of one log
    MaxTick      \* bound: ticks a smoke lasts

ASSUME VoxelAssumption ==
    /\ {Slots, Pace, SettleSteps, MaxFrames, MaxTick} \subseteq Nat \ {0}
    /\ FrameKinds \subseteq [carries : {"emitters", "nothing", "fading", "garbage"},
                             length : Nat \ {0}]

VARIABLES
    tickNow,   \* of the game, since the detonation
    written,   \* of the game: the frames it appended, and when
    polled,    \* len(t.buf)
    vlog,      \* t.log: its steps, next and broken
    det,       \* t.det is known
    samples,   \* of the plugin: the length and tick of every read
    cloud      \* the log's replay: not yet, none, or its steps

voxelVars == <<tickNow, written, polled, vlog, det, samples, cloud>>

NewVoxelLog == [steps |-> <<>>, next |-> 0, broken |-> FALSE]
Open == [state |-> "open", steps |-> <<>>]

VoxelInit ==
    /\ tickNow = 0 /\ written = <<>> /\ polled = 0
    /\ vlog = NewVoxelLog
    /\ det = FALSE
    /\ samples = <<>>
    /\ cloud = Open

-----------------------------------------------------------------------------
(* The game.                                                                 *)

\* Where frame i ends in the array.
EndOf(i) == IF i = 0 THEN 0 ELSE written[i].end

Total == EndOf(Len(written))

Tick ==
    /\ tickNow < MaxTick
    /\ cloud = Open
    /\ tickNow' = tickNow + 1
    /\ UNCHANGED <<written, polled, vlog, det, samples, cloud>>

\* No two steps are closer than the pace; once the smoke fades, it goes on so.
WriteFrame ==
    /\ cloud = Open
    /\ Len(written) < MaxFrames
    /\ written # <<>> => tickNow >= Last(written).at + Pace
    /\ \E k \in FrameKinds :
         /\ \A i \in DOMAIN written : written[i].carries = "fading" => k.carries = "fading"
         /\ written' = Append(written, [carries |-> k.carries, end |-> Total + k.length, at |-> tickNow])
    /\ UNCHANGED <<tickNow, polled, vlog, det, samples, cloud>>

-----------------------------------------------------------------------------
(* Reading.                                                                  *)

\* decodeVoxelFrames of the first size bytes, from an offset: the frames that
\* are whole and decode, the offset just past them, and whether one did not.
DecodeVoxelFrames(from, size) ==
    LET whole == {i \in DOMAIN written : from < EndOf(i) /\ EndOf(i) <= size}
        bad == {i \in whole : written[i].carries = "garbage"}
        good == {i \in whole : \A b \in bad : i < b}
        first == IF good = {} THEN 0 ELSE CHOOSE i \in good : \A j \in good : i <= j
    IN  [frames |-> [k \in 1 .. Cardinality(good) |-> written[first + k - 1]],
         next   |-> IF good = {} THEN from ELSE EndOf(first + Cardinality(good) - 1),
         err    |-> bad # {}]

\* Wrong: the offset is that within the bytes just read.
NextOfThisRead(from, read) == read.next - from

\* l.next += n.
NextOf(from, read) == read.next

\* voxelLog.read, with apply.
Read(l, size, tick) ==
    IF l.broken THEN l
    ELSE LET read == DecodeVoxelFrames(l.next, size)
         IN  [steps  |-> l.steps \o [k \in DOMAIN read.frames |->
                            [tick    |-> IF tick < 0 THEN 0 ELSE tick,
                             carries |-> read.frames[k].carries]],
              next   |-> NextOf(l.next, read),
              broken |-> read.err]

\* smokeVoxelTrack.poll: of what the game has appended, any part may have been
\* sent. Only growth is read. The plugin reads when the parser would.
Poll ==
    /\ cloud = Open
    /\ \E known \in BOOLEAN : det' = (det \/ known)
    /\ \E size \in polled .. Min({Total, Slots}) :
         \/ /\ vlog.broken \/ size = polled
            /\ UNCHANGED <<polled, vlog, samples>>
         \/ /\ ~vlog.broken /\ size > polled
            /\ polled' = size
            /\ vlog' = Read(vlog, size, tickNow)
            /\ samples' = Append(samples, <<size, tickNow>>)
    /\ UNCHANGED <<tickNow, written, cloud>>

\* ReconstructSmokeVoxels: refused if the samples are not in order of time or
\* not within the log, otherwise the log they give.
Refused(reads, length) ==
    \/ length > Slots
    \/ \E i \in DOMAIN reads : reads[i][1] > length
    \/ \E i \in DOMAIN reads \ {1} : reads[i][2] < reads[i - 1][2]

Reconstructed(reads) ==
    LET read[i \in 0 .. Len(reads)] ==
          IF i = 0 THEN [seen |-> 0, log |-> NewVoxelLog]
          ELSE LET before == read[i - 1]
               IN  IF reads[i][1] <= before.seen THEN before
                   ELSE [seen |-> reads[i][1],
                         log |-> Read(before.log, reads[i][1], reads[i][2])]
    IN  read[Len(reads)].log

-----------------------------------------------------------------------------
(* Replaying.                                                                *)

\* Wrong: the ticks the frames were read on.
StampTicks(l) ==
    [n \in 1 .. Min({Len(l.steps), SettleSteps}) |-> l.steps[n].tick]

StepTicks(l) ==
    LET last == Min({Len(l.steps), SettleSteps})
        ticks[n \in 1 .. last] ==
            IF n = last THEN l.steps[n].tick
            ELSE Max({0, Min({l.steps[n].tick, ticks[n + 1] - Pace})})
    IN  ticks

\* Wrong: the emitters are those of the first frame.
FirstEmitters(l, n) == 1

\* advance: the last frame up to this one that carried emitters.
EmittersAt(l, n) ==
    Max({k \in 1 .. n : l.steps[k].carries = "emitters"} \cup {0})

\* cloud: a step for each frame, until one says the smoke fades.
Cloud(l) ==
    LET ticks == StepTicks(l)
        growing == {n \in DOMAIN ticks : \A k \in 1 .. n : l.steps[k].carries # "fading"}
    IN  [n \in 1 .. Cardinality(growing) |-> [tick |-> ticks[n], emitters |-> EmittersAt(l, n)]]

\* export: nothing without a frame, its emitters and a place.
Exportable(l) == l.steps # <<>> /\ Head(l.steps).carries = "emitters"

\* closeSmokeVoxels, as Clouds says when.
Export ==
    /\ cloud = Open
    /\ cloud' = IF det /\ Exportable(vlog) THEN [state |-> "cloud", steps |-> Cloud(vlog)]
                ELSE [state |-> "nothing", steps |-> <<>>]
    /\ UNCHANGED <<tickNow, written, polled, vlog, det, samples>>

VoxelNext == Tick \/ WriteFrame \/ Poll \/ Export

VoxelSpec == VoxelInit /\ [][VoxelNext]_voxelVars

-----------------------------------------------------------------------------
VoxelTypeOK ==
    /\ tickNow \in 0 .. MaxTick
    /\ Len(written) <= MaxFrames
    /\ polled \in 0 .. Slots
    /\ vlog.next \in 0 .. polled
    /\ \A n \in DOMAIN vlog.steps : vlog.steps[n].tick \in 0 .. tickNow
    /\ det \in BOOLEAN
    /\ samples \in Seq((0 .. Slots) \X (0 .. MaxTick))
    /\ cloud.state \in {"open", "nothing", "cloud"}

\* However the array is cut by the polls, mid-frame too, the log holds every
\* whole frame once and in order, up to one that does not decode; and a
\* plugin's reads of the same smoke give the same log, in any order that is not
\* refused and with any read made twice.
ReadsAreWhole ==
    /\ VoxelTypeOK
    /\ LET whole == {i \in DOMAIN written : /\ EndOf(i) <= polled
                                            /\ \A k \in 1 .. i : written[k].carries # "garbage"}
       IN  /\ Len(vlog.steps) = Cardinality(whole)
           /\ \A i \in whole : vlog.steps[i].carries = written[i].carries
    /\ Reconstructed(samples) = vlog
    /\ \A i \in DOMAIN samples \ {1} :
         LET swapped == [samples EXCEPT ![i] = samples[i - 1], ![i - 1] = samples[i]]
             again == InsertAt(samples, i, samples[i])
         IN  /\ Refused(swapped, polled) \/ Reconstructed(swapped) = vlog
             /\ ~Refused(again, polled) /\ Reconstructed(again) = vlog

\* "each happened at least a pace before the next": a replayed step is never
\* earlier than the game's, never later than its frame was read, a pace apart
\* from the next, and runs with the emitters the game had; steps end where the
\* smoke began to fade.
TicksAreSound ==
    LET steps == cloud.steps
        emitting(n) == {k \in 1 .. n : written[k].carries = "emitters"}
    IN  cloud.state = "cloud" =>
          /\ \A n \in DOMAIN steps :
               /\ written[n].at <= steps[n].tick
               /\ steps[n].tick <= vlog.steps[n].tick
               /\ steps[n].emitters \in emitting(n)
               /\ \A k \in emitting(n) : k <= steps[n].emitters
               /\ \A k \in 1 .. n : written[k].carries # "fading"
               /\ n > 1 => steps[n - 1].tick + Pace <= steps[n].tick
          /\ Len(steps) < Min({Len(vlog.steps), SettleSteps}) =>
               written[Len(steps) + 1].carries = "fading"

\* What is replayed is what the game wrote, when it did.
ReplayIsSound == ReadsAreWhole /\ TicksAreSound
=============================================================================
