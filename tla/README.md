# Verification of demo-parser

TLA+ modules, TLC configurations and TLAPS proofs for the Go service in this
repository: a server that downloads and parses Counter-Strike 2 demos, and that
answers questions about grenade lineups on collision meshes of the maps.

Every definition is translated from the source; `PROJECT.json` names, definition
by definition, the lines it stands for (`map`), the runs, the mutants each
property is tried on, the findings, the hazards and the theorems. Definitions
whose comment begins with *Wrong* are those mutants: faults a plausible bug
would introduce. Nothing in a specification uses them.

## 1. The system

One process (`cmd/server`), an HTTP server with one goroutine per request, no
database and nothing persisted; state lives as long as the process or the
request. A restart loses every cache and nothing else.

| part | source | state | operations | what makes it correct |
|---|---|---|---|---|
| demo download | `cmd/server/download.go`, `http.go` | a lock per CDN host; per attempt a temp file, its length, the outcome, a condition variable | `/parse`: lock, request, transfer in a goroutine, parse from the growing file, retry, close | one transfer per host; only a whole demo is answered; nothing left behind; only broken transfers are retried; the parser's pace holds no host |
| mesh cache | `internal/geometry/load.go` | URL -> entry with a `sync.Once`; an LRU | `load` | one fetch per URL at a time; memory bounded; failures forgotten; absences remembered |
| latest-build pointer | `internal/geometry/load.go` | source, expiry, in-flight channel | `get`, `refresh` | one refresh; never an empty answer; never an older build; nobody waits for ever |
| sources, manifests, worlds | `internal/geometry/load.go`, `world.go` | manifests, cached for ever | `revisionSource`, `target`, `LoadGrenadeWorld` | the files of a world are those of one revision, one its reference has had |
| map endpoints | `cmd/server/drift.go`, `nades.go`, `discover.go` | three slot channels | `/drift`, `/smoke-volume`, `/sightlines`, `/oneway`, `/discover`, `/floor` | slots balance, memory is held only under a slot, a report names what it was computed on |
| drift computation | `internal/simulate/drift.go`, `cmd/server/drift.go` | a reused buffer, an atomic counter, a summary | `Drift`, `streamDrift` | answers in order, complete only when whole, summary of just these answers |
| round table | `internal/parser/rounds.go`, `parser.go`, `players.go` | round counter, table, live gate, sides | the round events, `finalize` | the table is the scoreboard; a row is in the round it happened in |
| position sampling | `internal/parser/shots.go` | ring of recent ticks, 4 Hz clock, burst window | `onFrameDone`, `burstPositions` | no tick twice, none of another round |
| shots and damages | `internal/parser/shots.go`, `damages.go` | last shots, pending hits, first-sight entries | `onWeaponFire`, `onPlayerHurt`, `resolveHits` | a hit claims one shot, of its own attacker and time |
| engagements, on-screen anchors | `internal/parser/engagements.go`, `fov.go` | open engagements, anchors, probes | open, track, shot, close | closed once, stamped with its round |
| grenade projectiles | `internal/parser/grenades.go` | projectile by entity number | throw, destroy, detonate | a detonation belongs to its throw although numbers are reused and places are wrong |
| smokes, fires, doors | `internal/parser/smoke.go`, `inferno.go`, `doors.go` | clouds, blasts, flames, leaves | start, expire, sample, rescan | an occluder exists when it existed in the game |
| smoke voxel replay | `internal/parser/smoke_voxels.go`, `smoke_sim.go` | logs by entity, jobs, process-wide slots | open, poll, close, collect | every cloud once, in order; no parse waits for ever |
| bombs, kills, trades | `internal/parser/bombs.go`, `kills.go`, `trades.go` | timelines | events, `computeTrades` | a trade is within its window and round |
| players, names, ranks | `internal/parser/players.go` | names, ranks, sides | the info events | first side, best rank, last name |
| playback blob | `internal/parser/playback.go`, `cmd/server/playback.go` | the result | `buildPlayback` | a field is dropped only once it is in the blob |
| lineup discovery | `internal/discover/search.go`, `cmd/server/discover.go` | per request: the spots, a channel of jobs, a pool of searchers, a deadline | `Search`, `Stands`, `rank`, the floors of a column | an answer cut short says so and what it left out; the nearest spots are searched first; ranks are deterministic |
| launch search, flight | `internal/discover/launch.go`, `internal/simulate/flight.go` | none beyond a call | numeric | floating-point integration |
| collision mesh, BVH | `internal/geometry/mesh.go`, `bvh.go` | an array of nodes, the triangles in the order of the leaves; a stack of fixed size per ray | `build`, `anyHit`, `nearestHitTri` | a ray meets what it would meet if every triangle were tried |
| smoke simulation | `internal/parser/smoke_sim.go`, `smoke_voxels.go` | two buffers of cells, lists of what has been reached | `step`, `advance` | the lists leave nothing out of what the game's walk of the grid visits |
| mesh of a parse | `internal/parser/parser.go`, `players.go` | one fetch and the map it is for | `prefetchMesh`, `ensureMesh` | sightlines are cast in the map the demo had named when the first one was |
| sightlines, one-way smokes | `internal/parser/nades.go`, `oneway.go` | none beyond a call | numeric | floating-point geometry |
| start-up | `cmd/server/main.go`, `cli.go` | none | flags | |

How they interact. A request goroutine of a map endpoint resolves its source
through the pointer (waiting on a refresh's channel at most once in the life of
the process), loads its worlds through the mesh cache (sharing a once with any
other request), takes a slot and computes. A `/parse` goroutine takes its host's
lock, starts a download goroutine that gives the lock back, and reads the file
behind it; the parser is a single goroutine whose handlers share one `state`
struct, called back by the demo library in the order of the demo, and which
starts replay goroutines that it joins in `finalize`. Shared state is protected
by `sync.Mutex` (cache, pointer, spool, host locks), `sync.Once` (entries),
channels (slots, refresh, replay) and one atomic counter (drift).

What is hard here: the windows in which the cache and the pointer release their
mutex to fetch; the lock that changes goroutines; the parse that races its own
download; a buffer shared by workers without a lock; slots under disconnecting
clients; and, in the parser, event sequences of the engine that no test has
recorded (a knife round that is announced or not, no official end of the last
round, a recording that breaks off), with state that is stamped at one event and
written at another. `PROJECT.json` lists them as `hazards`, each at its line.

## 2. Modules

| module | of | what it is |
|---|---|---|
| `MeshCache` | `meshCache.load` | state machine of the loads |
| `LatestPointer` | `latestPointer` | state machine of callers and refreshes |
| `DemoDownload` | `fetchAndParse`, `spool` | state machine of requests, downloads and readers |
| `DriftReport` | `/drift`'s promise | abstract specification, eight lines of actions |
| `DriftPool` | `Drift`, `streamDrift` | state machine of handler and workers; implements `DriftReport` |
| `MapEndpoints` | the handlers of the map endpoints | composition of source, loads, slots and clients, each handler a plan of stages |
| `Rounds` | the round handlers and `finalize` | the parser's state machine beside a game that is the reference |
| `ParseClock` | the parser's tick, round counter and live window | what `Positions` to `Infernos` share |
| `Positions` | `onFrameDone`'s sampling, `burstPositions` | the ring of ticks and the throws' windows |
| `Fights` | `shots.go`, `damages.go`, `kills.go`, `engagements.go`, `fov.go` | hits, sights and engagements under the engine's order of reports |
| `Grenades` | `grenades.go` | projectiles under reused entity numbers |
| `Clouds` | `smoke.go`, `smoke_voxels.go` | the registry of clouds and the replays of their logs |
| `Bombs` | `bombs.go`, `recordBlast` | the bomb's timeline and the blasts that hold smoke open |
| `Infernos` | `inferno.go` | fires, as flames that are looked at every few ticks |
| `VoxelLog` | `voxelLog`, `smokeVoxelTrack`, `ReconstructSmokeVoxels` | a log as the game writes it, the parser reads it and times it |
| `SmokeCells` | `burst`, `emit`, `around`, `flow` | what one emitter and one voxel do in a step, as operators |
| `SmokeGrid` | the game's simulation, as the comments tell it | abstract specification: every pass walks the whole grid |
| `SmokeSim` | `smokeSim` | the simulation with its lists; implements `SmokeGrid` |
| `Floors` | `floorsDown`, `nearest`, `floorAt`, `floorNearAt`, `fits` | the floors of a column, beside where they really are |
| `Discover` | `Search`, `Stands`, `rank`, `handleDiscover` | state machine of the feeder and its searchers under a budget |
| `Bvh` | `bvh.go`, the rays of `mesh.go` | state machine of the build, call by call, and of the walks |
| `MeshPrefetch` | `onServerInfo`, `prefetchMesh`, `ensureMesh`, `finish` | state machine of one parse and its fetch |
| `Handlers` | `registerHandlers`, `onFrameDone`, `onRoundStart`, `finalize` | composes `Positions` to `Infernos`: each handler calls into every part it does in the code |
| `MC...` | | values of the constants for TLC |
| `Orders` | filters and sorts of slices | `SubSequence`, `Ordered`: said by counting what goes before, not by recursion, so that they can be reasoned about |
| `...Proofs` | | theorems and proofs of the module they are named after; `MeshProofs`: of `MeshCache` and `Bvh`, `ComputationsProofs`: of the other computations, `HandlersProofs`: of `Handlers` with its parts |
| `OrderTheorems` | | lemmas about `Orders`, and of least and greatest numbers |

**MeshCache.** A load is cut where the code releases `c.mu` or blocks: `Lookup`
(first critical section), `OnceRun` / `OnceWait` (`entry.once.Do`), `FetchDone`
(the fetch and build inside the once, `Reply`), `Settle` (second critical
section, with `touch` and its evictions inside). `entries` and `lru` are the
cache's fields, `heap` the `*cached` values by identity, so that a goroutine can
hold an entry the map has dropped. The CDN toggles, and publishes a file once
(assets are immutable by name). A target is *listed* when a manifest names it;
only then does a 404 count as an error.

**LatestPointer.** `GetFresh`, `GetJoin`, `GetStart` are the three ways through
`get`'s critical section, `Wake` the receive on the channel; `ReadPointer` and
`ReadManifest` are the two fetches of `fetchLatest`, outside the lock; `Adopt`
and `KeepOrPin` the closing critical section; `Close` the `close(done)` after
it, a step of its own because requests can run in between. Time is one action,
`Expire`.

**DemoDownload.** The request goroutine (`pc`), the download goroutine (`dl`)
and the reader (`off`, `asleep`) of each request. A file is counted in chunks;
`disk` is what the file has and `written` what `s.written` says, two variables
because the code publishes after it has written. The parser is nondeterministic:
it may return anywhere (a corrupt demo ends `ParseToEnd` early without an
error), and it may panic. `HostOf` may map a request to no host, as a URL
without one.

**DriftPool and DriftReport.** A lineup's answer is its own number; since a
flight is deterministic the only way an answer can be wrong is to be another
lineup's. `Claim` is `next.Add(1)`, `Answer` the store into the shared slice;
`EmitLine` may find the connection broken. `Report == INSTANCE DriftReport WITH
delivered <- out, status <- Status` is the refinement mapping, `ReportSpec` the
property.

**MapEndpoints.** `Plan(kind)` is the order of the stages in each handler:
`/drift` loads two worlds and then takes its slot, `/discover` takes its slot and
then loads, `/smoke-volume`, `/sightlines` and `/oneway` load a hull and take a
geometry slot, `/floor` takes none. `Resolve` (`revisionSource`), `LoadHull` and
`LoadClip` (`LoadGrenadeWorld`), and `LoadMesh` (`Load`) are separate steps, as
in between a revision may be published (`Publish`) or `latest.json` be read to
name a later one (`Adopt`). A source is a label and a manifest, as in the code: a
build has several manifests, of which a build id names the first
(`<build>/manifest.json`, `BaseSource`), the default the one in `latest.json`, and
the label of both is the build; without a manifest, or under an http(s) base, a
source is a flat directory. `Target` is `target`, file by file: where the
manifest says it is, and for what it does not list the pinned build's flat hull
and no clips. So hull and clips may lie in two builds, and what is promised is
that both are where *one* source has them. A file that is not listed may
also not be there (`Found`); one that is listed and missing is an error, among
`LoadFails`, as is `MAP_MESH_CDN=""`, under which no map has a mesh.
`TakeSlot` and `GiveUp` are the two branches of the `select`; `Return` is every
way out with its deferred release.

**Rounds.** The game (`stage`, `phase`, `team`, `board`, `opened`) plays
warmup, an optional knife round that MatchStart announces or not, and the match;
`board` is the scoreboard. The parser's variables have their names in `state`.
Handlers of the five round events update both; `PlayerHurt`, `FrameDone` and
`OpenEngagement` stand for all handlers that stamp a row with `currentRound`,
one for each of the three guards in use. A row carries, besides what the
code writes, the scoreboard round it happened in (`real`), which the code does
not know. `Finalize` may come at any time: the recording breaks off.
Assumed of the game: the match begins with MatchStart; a round starts on a tick
in which nothing of the round before happens; every round but the last of the
match gets its official end.

**ParseClock, Positions, Fights, Grenades, Clouds, Bombs, Infernos, Handlers.** One parse from its
first round on; how rounds come about is `Rounds`' business. Each of the parts
has its own variables and offers its share of a handler (`FrameFights`,
`PollSmokeVoxels`, `FramePositions`, `ResetSmokes`, ...); `Handlers` joins the
shares into the handlers the code registers, in the code's order. Ticks are small numbers and the
code's seconds are ticks (`SprayTicks`, `EngagementTicks`, `LookbackTicks`).
Geometry answers as it likes: who is on screen, who is visible, who is nearest
the crosshair are `\E`. Beside the parser's own variables stand the game's
(*of the game* in the comments): who lives and sees, the reports of a bullet
still to come (`engine`, `late`), the projectile that has an entity number.

`Fights`: a bullet's reports come as the code says the engine sends them, damages first,
then kills, then the shot (`damages.go:104-106`), or a damage comes `Late` ticks
after its shot. A damage knows its bullet (`bullet`), which the code does not and
works out at the end of the tick (`claimed`). `openings` and `signalled` are
ghosts: every engagement that was opened and those that got a signal.
`Grenades`: a grenade is its id and the place where its projectile comes to lie, which
the parser tracks; an HE stands for a Flash too. The event of every detonation may
give that place, another grenade's, or one out of reach of all, as (0,0,0) is
(`Spots`; `emitDetonate`'s comment says that events do). A row says besides
what the code writes of which grenade it is (`of`), by which number it came, and whether its event
had neither the number nor the place of the projectile (`lost`). Only a fire can
be lost, because the others come under their projectile's number. A lost one may claim
another Molotov's entry, the nearest one, or none, and then has GrenadeID 0; the one
whose entry it took may be off too when it burns. `Excused` says when a fire may be;
nothing else ever is. `Clouds`: `voxelTracks`,
`voxelJobs` as in the code; `closing` are the logs a handler has taken out of
the tracks and not yet got a slot for, while it blocks every other handler
(`Handling`). The rest of a handler that blocks is taken before the wait; nothing it writes
is read by a replay. Other parses of the process take and return slots
(`OtherParse`), only while this one waits, as it cannot tell otherwise.
`openSmoke` may find no place (no cloud) or have no mesh (a cloud without a
volume). `Bombs`: `bomb` and `planted` are the game's; `bombs` is the list of
every round, in which the entity's place may be missing (`LiveBombPos`), and
`exploded` the ghost the blasts are compared with. `Infernos`: `lit` and
`present` are the game's; flames are lit, go out and are looked at in the frames
there are, and `fires` and `infernos` keep what was seen.

**VoxelLog.** `WriteFrame` and `Tick` are the game's, `Poll` a frame of the demo,
`Export` the end of the parse, at which `ReconstructSmokeVoxels` reads the same
bytes in one go or in pieces. Bytes are counted: a frame is what it carries and
how long it is, the array holds `Slots`, and a read may end inside a frame.
`DecodeVoxelFrames` and `StampTicks` are the code's functions, the latter as a
recursive function over the steps.

**SmokeCells, SmokeGrid, SmokeSim.** The simulation is one record, `sim`, whose
fields have the code's names, and one emitter's turn (`EmitterRan`) and one voxel's
visit (`Flowed`) are operators on it that both specifications use, since the
code's comment promises the game's own order: "the voxels the step's passes
visit, in the order they visited them when they walked the whole grid".
`SmokeGrid` visits every voxel reached; `SmokeSim` has the code's lists `active`,
`emitted` and `woke`, each sorted before it is read and so a count for each voxel, and
copies back only what is listed. `Grid == INSTANCE SmokeGrid WITH toGo <- Listed(visits)`
is the refinement mapping. Densities are whole tenths, rounded down, where the
code has `float32`; a flow is the gradient its unit vector points along, of which
the code asks only how it compares with 0.2.

**Floors and Discover.** A column is a set of slabs, and a ray meets the faces
only; where the floors really are is said of the slabs (`Walkable`). Slabs are
finitely many and do not touch (`IsColumn`), and no two spots are one, being points of a grid.
That the floor taken is the nearest holds for a column of at most `MaxFaces` faces. `BeginSearch` is
the validation with the snapped target; `FeedJob` the send on the unbuffered
channel, which is the searcher's receive; `Sweep`, `Refine` and `Mark` the three
points at which a searcher looks at its clock; `JoinSearch` the `wg.Wait`. Spots
are numbers; the request says what a full search of a spot finds, as flights are
deterministic, and one cut short finds any of `RoughFinds`. The ranking's
distance follows from the spot, so the two keys are one.

**Bvh.** The world is flat, its coordinates integers and `Never` its infinite
distance, so a wall is a line and a box has a perimeter for an area. `calls` is
the stack of the recursion: `BuildNode` is a call up to its recursive ones, and
the call for a right child enters it in its parent; `EndSplit` is the end of the first call. `StartCycle`, `FollowCycle`
are the placement of the triangles along the cycles of the permutation, in place,
and `Cast`, `VisitInner`, `VisitLeaf`, `Miss` a ray with its stack.

**MeshPrefetch.** `ServerInfo` names a map, perhaps another than before;
`FetchLoaded` is the goroutine, `EnsureMesh` the first sightline, which waits for
the fetch (`ReceiveMesh`) only if it is for the map named last by then. A map named
later changes the name and not the mesh. A fetch that is not waited for may still be
under way when the parse loads for itself, and when it ends. `EndParse` is `finish`,
which does not wait.

Assumed of the game: an entity number is given again only when its projectile
is gone (a smoke's only once it has faded, or in the next round); a fire is reported within `Lag` ticks
after its Molotov's projectile is gone; nobody
is spotted between the reports of one bullet; a new round removes every
inferno before its first frame, and its bomb is a new one; every frame is on a later tick than
the one before, although the code is prepared for equal ones where it divides by their
distance (`shots.go:164`); a damage is not reported more
than `Late` ticks after its shot, which is less than the time between two shots. Not modelled: a projectile the
parser first sees outside a throw event (`onFrameDoneGrenades` then enters it
without an id), the places of bombs dropped, doors, trajectories, movement,
ranks of weapons.

## 3. Runs

All passing runs check deadlock except where noted. Times are for two workers.

| run | instance | checks | shows |
|---|---|---|---|
| `mesh_cache` | 2 loads, 2 URLs, 3 entries, bound 1; ~2 min | `CacheCoherent`, `SingleFlight`, `AbsenceStands`, `RecoversFromFaults` | no doubled fetch, no resident mesh outside the bound, no remembered failure, no lost absence; listed loads stop failing when the CDN is back for good |
| `latest_pointer` | 2 callers, 3 refreshers, 2 builds | `RefreshCoherent`, `AnswersGoForward`, `EveryWaitEnds`, `CatchesUp` | overlapping refreshes neither lose a waiter nor step back; traffic reaches the newest build |
| `demo_download_safety` | 2 requests to one host, 2 chunks, 3 attempts, symmetric | `SpoolCoherent`, `OnePerHost`, `ResultIsWhole`, `RetriesOnlyBroken` | every interleaving of two requests, their downloads and parses, with every failure |
| `demo_download_liveness` | 1 chunk, 2 attempts | `EveryRequestEnds` | a stalled parse frees its host; without a stall every request is answered |
| `computations` | six parts, one to a behaviour (below); ~2.5 min | `BufferCoherent`, `SummaryIsOfReport`, `ReportSpec`; `SearchIsAccountedFor`, `AnswerIsToTheRequest`, `NearestIsSearchedFirst`; `ReplayIsSound`; `SmokeIsInReach`, `WalksTheGrid`; `TreeIsTheMesh`; `MeshIsTheMaps`; `ComputationsEnd` | the drift pool implements its promise with a reused and half-stale buffer; a search cut short tells so and answers with the easiest of what it found; a log read late and in pieces is the log; the lists make the simulation the game's; a ray through the tree meets what it would meet without; a parse looks in no mesh but that of the map it needed one for first, and loads it once; all of them end |
| `map_endpoints` | 2 requests of any kind, one slot per pool, two revisions of a build over a pinned flat one; ~3 min | `SlotsCoherent`, `ReportNamesItsWorlds`, `EveryRequestEnds` | slots under disconnections; worlds and reports while revisions are published and become the default |
| `map_endpoints_drift_meshes` | same | `DriftHoldsUnderSlot` (violated) | finding 1 |
| `rounds` | 1 player, 4 ticks, 3 rounds, 1 row | `TableIsScoreboard`, `RowsAreInTheirRound`, `WindowsCoherent`, `RowsAreKept` | table, rows and sides agree with the scoreboard however the match was begun and ended |
| `rounds_truncated` | same | `FinalRoundIsAfterItsStart` (violated) | finding 2 |
| `rounds_knife` | same | `KnifeRoundIsForgotten` (violated) | finding 3 |
| `handlers` | fifteen kinds of recording (`MCScenes`), 3 players, 2 entity numbers, 3 flames, 2 rounds; ~3 min | `HitsClaimTheirShot`, `EngagementsEndOnce`, `SightsAreFresh`, `PositionsAreWhole`, `DetonationsAreTheirThrows`, `CloudsAreTheGames`, `BlastsAreTheRounds`, `InfernosAreTheGames` | what the handlers write down is what happened in the game, whatever the order of its reports; no handler and no `finalize` waits for ever |
| `handlers_first_shot` | same | `FirstShotHitIsFirstShot` (violated) | finding 4 |

`CacheCoherent`, `RefreshCoherent`, `SpoolCoherent`, `BufferCoherent`,
`SlotsCoherent`, `WindowsCoherent`, `SearchIsAccountedFor` and
`CloudsAreTheGames` are conjunctions of named parts, the module's type invariant
among them; so are `AnswersGoForward`, `TableIsScoreboard` (rounds and sides),
`AnswerIsToTheRequest`, `ReplayIsSound` and `TreeIsTheMesh`, and `EveryRequestEnds`
of `DemoDownload` says too that a stalled parse frees its host.

**Why these bounds.** `mesh_cache`: one loader holding a stale entry while
another replaces it, an eviction of one URL by another, and an absence overruled
need two loads and two URLs and a bound of one; a third entry is all that can be
referenced. `latest_pointer`: a refresh on the network, one that has not closed
its channel and one that is still named by a waiter are three; two builds are
enough to go back. `demo_download`: two chunks tell *half* from *none* and
*all*; three attempts are the code's; the liveness run has one chunk, since its
hazards are the waits. `map_endpoints`: contention for each
pool's only slot (the default of `/drift` and `/discover`), the two
requests asked in one order only, as they are alike; the first revision of build 2 lists
no hull and the second lists both files anew, so that a fallback, a mix of the two and a
build id that does not mean the default's revision can all be told apart. No request names the pinned build, as
one that names none means it until `latest.json` has been read, and no drift names build 2 twice. `rounds`: a warmup or
knife round and a match round before the last one; properties of rows are about
one row at a time, so one row that may be any is enough; one player, since sides
are per player.

`computations`: the six parts share no state, so a behaviour performs one of them
(`part`) while the variables of the others keep their initial values; the `VIEW` is
the performed part's own variables, which therefore tell all its states apart.
Drift: a full chunk, a shorter last one that leaves a stale slot, and more workers
than slots. Search: every column of up to two slabs in seven heights, for the
floors; for the pool two searchers, up to four spots of which one is walled in and
one too many, kinds asked for twice, and chains of near-copies, in which the third
candidate is like the second but not like the first. Voxels: three frames of four
kinds in an array they may not fit in, polled at any ticks. Smokes: emitters in the middle, aside,
in a wall and out of the grid, left on or replaced, in grids of 4 x 4 x 4 with no wall, with
one, with a gap under it, with a floor; three or four steps, in which the cloud grows by
emission, by bursts and by flow, and meets every edge of the grid. Tree: three walls of four, some
the same and so with nothing to split by, or five in any order; leaves are one or
two walls where the code's are four to sixteen, so that trees are as deep as `MaxDepth` lets
them. Prefetch: a map named up to three times, as either of two.

`handlers`: all parts at once, with enough of each, are beyond TLC, and most of them do not
read each other; a *scene* bounds how many shots, sights, throws and rounds one recording
has, and of whom. One bullet through two players after a miss, and two players who see each
other, need two shots and two pairs; a ring of three slots with a 4 Hz clock of two ticks
and two throws has windows that overlap and slots that are reused; two projectiles under two
numbers in two rounds are enough to confuse them, and three Molotovs, or two for longer, to
make the nearest matter, with a place out of reach and others that are off by one or two
where the reach is one, so that a fire claims its own entry, another's, one of two equally
near, or none; one replay slot makes a handler wait for its own replay and for another
parse; five bomb events are a plant in one round, and a plant and an explosion without a
place in the next; looks at flames are two ticks apart and frames up to two, so a flame may
be seen late, last seen early, or missed. `MaxTick`, `MaxGap`, `MaxRounds`, `MaxShots`,
`MaxGrenades` and `MaxBombs` bound every scene.

**Deadlock** is not checked for `demo_download_*`, `computations` and
`map_endpoints*`: their requests are served once and then all is over. Liveness
is checked there instead. In `handlers` it is checked: a parse that has returned
may stay so (`Returned`), and nothing else may come to a stop.

**Fairness.** `MeshCache`: weak fairness of a goroutine inside `load`; the HTTP
client's 15 s timeout bounds the fetch. `LatestPointer`: weak fairness of
refresh goroutines and woken callers, for the same reason; `CatchesUp` assumes
in its premise that time passes and requests keep coming. `DemoDownload`: weak
fairness of the download (bounded by `demoClient`'s five minutes) and of the
handler, strong fairness of taking a host lock (`sync.Mutex` hands over to a
waiter of 1 ms); nothing is assumed of the parser except in the premise of
`EveryRequestEnds`. `DriftPool`, `Discover`: weak fairness of goroutines; flights
terminate. Nothing is assumed of the budget: a search ends also if it never runs
out. `MeshPrefetch`: weak fairness of the parse and of its fetch (bounded by the
HTTP client's timeout), none of the demo's messages. `ComputationsEnd` is checked
under these; the simulation, the tree and the log have no liveness, as they are loops
over what there is.
`MapEndpoints`: weak fairness of handlers, whose loads are bounded by the HTTP client's timeout, and strong fairness of `TakeSlot`,
since senders blocked on a channel are queued. `Rounds` has no liveness: a
recording simply ends.

## 4. Proofs

Proved with TLAPS for every value of the constants that satisfies the named
assumptions of the modules (any number of goroutines, URLs, requests, hosts,
workers, lineups; any cache bound, chunk size, attempts):

* `MeshProofs`, of `MeshCache` — from `IInv` (typing; who is at which stage holds an entry;
  an entry that is *building* is being fetched by exactly the loader that holds
  it; the map's entries are distinct): `LruIsSound`, `SingleFlightHolds`,
  `NoMeshEscapesTheBound`, `FailuresAreForgotten`, together `CacheIsCoherent`;
  and `AbsenceIsKept`. `SingleFlight` alone is not inductive: that two loads of
  one URL cannot both be in the once needs to know that a dropped entry is
  never one that is being built.
* of `Bvh` — `TreeOfTheMesh`, *BvhSpec => []TreeIsTheMesh*, from `BvhInv`: typing (`BvhType`) and
  `TreeInv(made, p)` for some permutation *p* of the triangles' places and some `made`,
  the call of `buildNode` that made each node. `TreeIsTheMesh` by itself says what a finished
  tree and a finished ray come to and nothing of the steps before; what these keep is:
  - `Grown`: a node's run of places is its two children's, one after the other, each a level
    deeper; the left child comes next, and the right one is there or among the calls to come.
    So a run is at most `MaxDepth` deep (a call at that depth makes a leaf). When no
    calls are left, what is under a node is its run (`UnderIs`, by `UpTo` from the last node
    to the first: the children come after their parent).
  - `Fitted`: a node's box is around the triangles of its run. A partition changes *p*, but only
    within a run that has no nodes yet: it is a permutation that brings those left of the
    plane to the front, whatever the plane (`PartitionIs`, with `Walk`, from what one
    step keeps, `Settling`); a split by the middle needs none.
  - `Placing`: of the cycles of *p*, those placed so far are whole, and of the current one
    the part up to the hole; what is still to be moved into the hole is not yet overwritten, or
    is the first of the cycle, which `saved` has. At the end `tris[i] = mesh[p[i]]` everywhere, so a
    triangle is as often in the one as in the other (`AsOften`), and an answer for one is
    an answer for the other (`AnswerIs`).
  - `Walking`: every triangle that the ray meets nearer than the best so far is in the run
    of its node or of one on its stack. A child is left out only where the slab test says
    no, and that test holds of any box around a triangle the ray crosses on its way, also along the faces
    of the box and with an infinite slope (`SlabHitIs`, `CrossingIs`); a leaf's nearest is
    the least of its candidates (`NearestIs`). And a node on the stack is at least as deep
    as its place there, the ray's own at least as deep as the stack is high, from which the
    stack fits in `MaxDepth`.
  Assumed is `BvhAssumption`: the leaf size is positive, the number of bins and the depth are
  natural numbers, a mesh is any sequence of triangles, and rays go along an axis or a
  diagonal and not farther than `Never`. Nothing is assumed of `MaxLeaf`, nor of which plane is
  the cheapest.
* `LatestPointerProofs` — from `IInv` (the refresh in flight is the one on the
  network; a waiter's channel is a refresh's; what was adopted was published):
  `RefreshIsCoherent`, `AnswersAreSources`, `PointerNeverGoesBack`,
  `EveryAnswerGoesForward`.
* `DemoDownloadProofs` — from `IInv` (`PhaseInv`: which stages of request and
  download go together; `LockInv`: who holds a host; `SpoolInv`, `VerdictInv`:
  what the ending critical section and the outcome have established):
  `HostsAreSerialized`, `ResultsAreWhole`, `SpoolIsCoherent`,
  `AttemptsLeaveNothing`, `OnlyBrokenIsRetried`.
* `OrderTheorems` — the lemmas several proofs cite. `Ranked`: in a strict total order of
  a finite set there is, for every place, exactly one element that so many others go
  before, shown by counting; from it `OrderedIs` (a sorted sequence holds each element
  once, in order: the spots in `Discover`, `sortPositions`, `sortSmokeVoxels`) and
  `SubSequenceIs` (what a filter keeps, in the order it had). And `UpTo` and `Walk`: induction
  over a set of numbers, and with it that a recursive function over `0 .. n` exists and
  is what its equation says, shown by gluing its initial pieces; the library's theorem for
  this takes an operator, which no prover here can be given.
* `ComputationsProofs`, of `DriftPool` — from `IInv` (claimed slots are below the counter and
  distinct; a slot that is done holds its own lineup): `BufferIsCoherent`, and
  the refinement `KeepsThePromise`, *Spec => ReportSpec*. `SummaryOfTheReport` needs
  besides what the tally counts so far (`TallyInv`): the first `start` lineups while a
  chunk is computed, those of its batch too while its lines are written, and all `N` at
  the end; a batch's verdicts are the same whether they are counted on the buffer or in
  the request (`OneMoreBatch`).
* of `Discover` — from `SearchInv` (typing; every spec is in at most one hand
  and has been fed; what is marked as searched holds what a full search finds):
  `SearchInvAlways`, `SearchAccounted`. That the nearest spots are searched first
  (`NearestFirstSearched`) needs besides that `NearestFirst` sorts: its definition puts
  at place *k* the spot that *k* - 1 others go before, and by `Ranked`
  there is exactly one; the specs are then in
  the order of their spots, and those in hand are the first ones fed.
  `AnswersTheRequest` needs of the states only `TakenUp` (a request keeps its spots and specs,
  and its target is a `FloorNear` it) and that what was found are finds; the rest is what the operators
  come to. `FacesDownIs`, `IsWalkable`: what a ray from above meets is all there is down to where it stops,
  and so a face with nothing or enough air above is a slab's top unless the column is `Deceptive`.
  `StandsAre`, `OnceIs`, `SpecsAre`: filtering, thinning (`StepsApart`), sorting and multiplying
  lose and double no spot. `RankIs`: there is a set of kept candidates (`KeptThere`, by `UpTo`), and
  its first few are all or as many as the limit (`FirstFew`), so that what is left out
  is like one that is kept or comes after a full answer.

* of `SmokeSim` — the refinement `ListsWalkTheGrid`, *SimSpec => GridSpec*, and
  `SmokeStaysInReach`, from `SimInv`: typing; `ListsInv`, which says of each list
  what it holds by what the two buffers have reached (emission marks the one that is read,
  the flow the other, and a voxel that only one of them has reached is in the list of
  what marked it); and `CellsInv`, that a voxel the cloud has not reached is empty in
  both buffers, that between the passes the buffers are the same, and that a wall
  which the flow has visited is empty. Without the first of these, copying back only what is
  listed would not be copying everything; and that is only inductive because nothing
  can be taken from an empty voxel (`GivingType`). The instance's names of the operators
  in `SmokeCells` are shown to be the same, operator by operator.
* of `VoxelLog` — `ReplaysAreSound`, from `VoxelInv`: `GameInv` (frames end one after another and are
  a pace apart), `SamplesInv` (the polls grow, and what is in a poll was written by then),
  `LogInv`, and `CloudInv`, which is what the property says of a cloud that has been
  replayed. `LogInv` says the log without its decoder: `IsLogOf(l, reads, n)`, each frame
  is there, in order, up to the first that does not decode, with the tick of the first of the *n*
  reads that is long enough. There is only one such log (`OneLog`), so that the samples
  replayed in one go, or one of them repeated, or two swapped that the endpoint does not
  refuse, give the log that was read as it grew (`ReconstructedIs`, `SwapIs`, `AgainIs`).
  What one read decodes is a stretch of frames, shown by counting them (`DecodeIs`); that the
  recursive functions which read the samples one after another and step back through
  the ticks exist is shown by `Walk`. That `StampTicks` leaves no step before the game's nor
  after its read is shown from the last step to the first, which is how it is computed
  (`TicksBetween`).
* of `MeshPrefetch` — `MeshOfTheMap`, from `LoadsInv` (what has been loaded, and for which map,
  follows from whether a fetch was started and whether a mesh was asked for) and `FetchInv`
  (a parse waits only for a fetch of the map it needed a mesh of first, and what it has is of that map).

* `MapEndpointsProofs` — `SlotsAreCoherent` and `ReportsNameTheirWorlds`, from `IInv`:
  typing; `InPlace`, that where a handler is says how many worlds it holds and that a
  source, and then a hull, is held only where a world is being loaded; `Balance`, that what a channel
  counts is the size of a finite set of handlers, those under it, and is not above its
  slots; `Fetching`, that the source a handler has resolved is one that its reference has had, and
  the hull it holds is where that source has it, which stays so whatever is published before its clips come;
  `Whole`, the same of the worlds. What a reference has had only grows (`MeantGrows`). That the set is finite is part of the induction, for nothing
  is assumed of how many requests there are. `InPlace` is needed because the
  release of a slot is in the step that answers or fails: which step gives back is a matter of
  where in its plan the handler is.

* `RoundsProofs` — `TableIsTheScoreboard`, `RowsAreOfTheirRound`, `WindowsAreCoherent` from
  `IInv`: typing; `Counts` (the parser's count, the table and the scoreboard are of one
  length once the match has begun, and nothing is counted before a `MatchStart`);
  `EachWindow`, `Succession` (a row by itself; rows in pairs, because what holds of
  neighbours would have to be carried along by an induction); `Scores`; `LastRow`, which
  ties the last row to the game's phase: that a window is open exactly while its round
  is, is what makes the end that `finalize` fills in the right one; `Stamps`, that a row lies
  between the start of its round and the next. `RowsStay` needs no invariant. Assumed is
  of the game only what its actions say: rounds have their events in order, and nothing
  happens in the tick a round starts on before it starts.

* `HandlersProofs` — of the composition, one inductive invariant for each part, over
  `ClockInv` (rounds start in order and not after now). The code remembers by place what the
  properties ask about by identity, so each says that a link is still the right one.
  - `PositionsWhole`, from `PosInv`: `RingInv`, that a slot holds the latest captured tick
    that falls on it, says whether that tick has been emitted, and that a tick whose slot has been
    given to another is so far behind that no later throw's window reaches it; `ThrownInv`, that
    the burst window is that of the last throw. That `sortPositions` loses and doubles nothing is
    `OrderedIs`.
  - `DetonationsOfThrows`, from `GrenInv`: `EntriesInv`, that the entry of a number leads to a throw
    of that number and type which, if unmatched, has no detonation; `FlownInv`, that what is
    in the air is what the entry of its number says, so that of two throws under one number it is
    the later, and that its entry is free unless it is a Molotov's and a lost fire has been at the
    bottom of it (`Taken`). So what goes off under its own number claims its own entry, wherever
    its event says that was (`OwnClaim`), and a fire that is not lost does, being at no
    distance from it, unless that is taken or the fire's own number is an earlier Molotov's
    (`FireClaim`). What a claim does to the other entries, and to the rows there are, is `ClaimKeeps`.
  - `BlastsOfTheRound`, from `BombInv`: while a bomb is planted, the last plant in the list,
    which is what an explosion looks for, is of this bomb, with its place or none (`PlantInv`);
    and an HE's row, whose place `onHeExplode` reads back, is its projectile's (`OwnClaim`).
  - `InfernosOfTheGame`, from `InfernoInv`: two looks are less than `Apart` apart
    (`LooksInv`); what was seen of a flame lies within what it burned and misses less than that
    at either end, and if it burns still it was seen in the last look (`FiresInv`);
    what is emitted are whole fires (`EmittedInv`).
  - `CloudsOfTheGame`, from `CloudInv`: `AloftInv`, that no two smokes that are up or in the air have
    one number, on which `RegistryInv` rests (an entry of the registry is of its number, and what
    occludes is what stands); and `ReplayInv`, that every log belongs to one throw and is in
    exactly one of the tracks, the handler's hands (`closing`), and the jobs, so that the
    collected and sorted clouds hold every log once.
  - `HitsOfTheirShots`, from `HitInv`: what the engine has still to report is of one bullet and
    its shot comes last (`EngineInv`); two shots of a player are `Cadence` apart (`ShotsInv`); of the
    bullet of a damage that is to come or waits is known who fired it, and that its shot, while
    no longer ago than `Late`, is its shooter's latest (`LateInv`, `PendingInv`); every pending damage is
    of this tick; and a shot is a hit only by a damage that has been matched (`ClaimsInv`).
    `resolveHits` walks over the pending damages (`ResolvedIsAWalk`), and each finds what the earlier
    ones have made of the shots; that it claims its own shot all the same (`OwnShot`) is
    because its shot is the shooter's latest and the shooter has no other in the tick: if the shot
    is of this tick, the first damage finds it unclaimed and the others fall back to it.
  - `SightsFresh`, from `SightInv`, which is the property with the anchors not after now: the
    damage takes the spot before the entry is forgotten.
  - `EngagementsOnce`, from `AimInv`: of the open engagements (`OpenInv`), that no two are one
    opening, that one with a signal is one that has fired or was tracked, and that its two
    players live or are about to be reported dead (`Dying`: between a bullet and its kill report
    the code does not know yet); of the rows (`ClosedInv`), that they are the openings with a
    signal that are not open. Closing some of them adds a row for each with a signal
    (`RowsFlushed`), in whatever order the map is walked (`SetToSeqIs`).
  Of the game is assumed that the players are finitely many, and `FightsAssumption`'s timing.

Every invariant and every action property of the passing runs, and both refinements, are
proved. Only model-checked is liveness: `RecoversFromFaults`, `EveryWaitEnds`, `CatchesUp`,
`EveryRequestEnds` (of `DemoDownload` and of `MapEndpoints`), `ComputationsEnd`.
Liveness under fairness and `ENABLED` are out of the prover's reach, and so are the library's theorems
of induction over data; where the proofs need one, `UpTo` and `Walk` are in its place.

## 5. Findings

1. `/drift` loads both of its meshes before it waits for its slot
   (`cmd/server/drift.go:127-138`), so the slot bounds the requests that compute
   and not the meshes held, which `README.md:182-188` and `drift.go:34-39` give
   as its reason. `/discover` does take its slot first.
2. `finalize` closes the last round with the last RoundEnd's tick plus a buffer,
   also when that RoundEnd was an earlier round's: a recording that breaks off
   in an unwon round has a last window that ends before it starts
   (`parser.go:309-331`).
3. Rows written in a knife round that MatchStart announced stay in the result as
   rows of round 1; only counter, table and sides are reset (`rounds.go:8-21`).
4. An engagement's `first_shot_hit` is set by any damage within the spray window
   of its first shot (`damages.go:42-52`). Since a bullet's damage is reported
   before its shot, a first bullet's own damage comes too early to set it unless it comes late, and the next
   bullet of a spray sets it for a first bullet that missed;
   `types.go:137-138` says "that first shot dealt damage".

Divergences seen while modelling and given no run: `liveRound` is "True only
between RoundFreezetimeEnd and RoundEnd" (`parser.go:33`) but is cleared at
RoundEndOfficial (`rounds.go:183`); an oversized mesh is to be "treated as no
mesh" (`load.go:44-46`) but a listed one is an error at every load; "a corrupt
file" is named among `/parse`'s errors (`http.go:131`) but `Parse` returns none
(`parser.go:234-239`); a shot is attributed to the engagement "nearest the
crosshair" (`engagements.go:146`) among those that have had no first shot yet;
losses of sight are to be ignored and a spot is one "newly-appearing spotter"
(`damages.go:121-123`), but a damage deletes the entry that remembers the spotter
(`damages.go:102`), so the next change of spotters reports one who never lost
sight as new; `floorsDown` counts a slab's underside as a floor when its ray starts inside the slab
or the slab is at least `floorGap` thick (`search.go:377-397`; `Deceptive` in `Floors`), where its test
says "it is not one, because the slab's own top is right above it"
(`search_test.go:238-239`); and a Molotov that never burned leaves an entry unclaimed for ever,
which a later fire takes for its own if it gets that entity number
(`grenades.go:185`); and what `ResolveMeshRevision` gives is "the canonical spelling a report echoes,
which loads the same meshes when handed back" (`load.go:400-401`), but the default's label is its build
(`load.go:227`), and that handed back means the build's first manifest (`load.go:291-302`), not the
revision `latest.json` names, as `manifest_test.go:283-298` says of a map that failed in the first.

## 6. Plan

Done, in the order of importance: the four concurrent parts (`MeshCache`,
`LatestPointer`, `DemoDownload`, `DriftPool`) with their proofs, their
composition in the endpoints and the parser's rounds, both proved too, and its handlers of fights,
throws, smokes, bombs and fires (`Positions`, `Fights`, `Grenades`, `Clouds`,
`Bombs`, `Infernos`, composed in `Handlers`); lineup discovery with its proofs; the
reading of voxel logs and the simulation they drive; the tree and its rays; the
mesh of a parse; and the proofs of all of these but of their liveness. Next:

1. `Trades`, `Players`: `trades.go`, `players.go` — a trade is within its window
   and of one round, the first side and the last name.
2. Doors, as the third kind of what stands in a sightline.
3. `Playback`: a field is dropped only once it is in the blob.

Not to be modelled: flight integration and the aims of a launch
(`internal/simulate/flight.go`, `internal/discover/launch.go`), sightlines,
one-way smokes and smoke volumes (floating-point geometry, of which a check over
small sets says nothing; the tree and the smoke simulation are modelled because
what could be wrong with them is which triangles and voxels they visit, not the
arithmetic), start-up, the result types, and the wire formats.
