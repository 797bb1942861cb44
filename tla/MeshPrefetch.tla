---------------------------- MODULE MeshPrefetch ----------------------------
(***************************************************************************)
(* The mesh of one parse (onServerInfo in internal/parser/players.go, and   *)
(* prefetchMesh, ensureMesh and finish in parser.go): a goroutine starts to *)
(* load it when the demo first names its map, and the parse waits for that  *)
(* at the first sightline, unless the demo has named another map since. The *)
(* load itself is MeshCache's; here it ends with a mesh or without one.     *)
(***************************************************************************)
EXTENDS Integers, Sequences

CONSTANTS
    MapNames,
    NoMap,      \* the empty name, and no mesh
    MaxInfos    \* bound: the messages of the demo that name a map

ASSUME PrefetchAssumption == NoMap \notin MapNames /\ MaxInfos \in Nat

VARIABLES
    infos,     \* the messages read
    mapName,   \* s.res.MapName
    tried,     \* s.meshTried
    fetch,     \* s.meshFetch: none, loading, or what it holds, sent or taken
    fetchMap,  \* s.meshFetchMap
    parse,     \* running, waiting for the fetch, or ended
    ownMesh,   \* s.mesh, by its map
    wanted,    \* the map named when the mesh was first needed
    loaded     \* the maps geometry.Load was called for, in order

prefetchVars == <<infos, mapName, tried, fetch, fetchMap, parse, ownMesh, wanted, loaded>>

Outcomes(map) == {map, NoMap}

PrefetchInit ==
    /\ infos = 0 /\ mapName = NoMap /\ tried = FALSE
    /\ fetch = [state |-> "none"] /\ fetchMap = NoMap
    /\ parse = "running" /\ ownMesh = NoMap /\ wanted = NoMap /\ loaded = <<>>

\* onServerInfo, with prefetchMesh. A message without a name changes nothing.
ServerInfo ==
    /\ parse = "running" /\ infos < MaxInfos
    /\ infos' = infos + 1
    /\ \E name \in MapNames :
         /\ mapName' = name
         /\ IF tried \/ fetch.state # "none"
            THEN UNCHANGED <<fetch, fetchMap, loaded>>
            ELSE /\ fetch' = [state |-> "loading"] /\ fetchMap' = name
                 /\ loaded' = Append(loaded, name)
    /\ UNCHANGED <<tried, parse, ownMesh, wanted>>

\* The goroutine. The channel has room for what it sends, whether or not anyone
\* receives it.
FetchLoaded ==
    /\ fetch.state = "loading"
    /\ \E mesh \in Outcomes(fetchMap) : fetch' = [state |-> "sent", mesh |-> mesh]
    /\ UNCHANGED <<infos, mapName, tried, fetchMap, parse, ownMesh, wanted, loaded>>

\* Wrong: what was fetched is used, whatever the map is called by now.
AnyFetch == fetch.state # "none"

Fetched == fetch.state # "none" /\ fetchMap = mapName

\* ensureMesh, at any sightline and again at the end.
EnsureMesh ==
    /\ parse = "running"
    /\ ~tried /\ mapName # NoMap
    /\ tried' = TRUE /\ wanted' = mapName
    /\ IF Fetched
       THEN parse' = "waiting" /\ UNCHANGED <<ownMesh, loaded>>
       ELSE /\ \E mesh \in Outcomes(mapName) : ownMesh' = mesh
            /\ loaded' = Append(loaded, mapName)
            /\ UNCHANGED parse
    /\ UNCHANGED <<infos, mapName, fetch, fetchMap>>

ReceiveMesh ==
    /\ parse = "waiting" /\ fetch.state = "sent"
    /\ ownMesh' = fetch.mesh
    /\ fetch' = [state |-> "taken"]
    /\ parse' = "running"
    /\ UNCHANGED <<infos, mapName, tried, fetchMap, wanted, loaded>>

\* finish, after its own ensureMesh.
EndParse ==
    /\ parse = "running" /\ (tried \/ mapName = NoMap)
    /\ parse' = "ended"
    /\ UNCHANGED <<infos, mapName, tried, fetch, fetchMap, ownMesh, wanted, loaded>>

PrefetchNext == ServerInfo \/ FetchLoaded \/ EnsureMesh \/ ReceiveMesh \/ EndParse

\* The parse goes on to its end; the loads end.
PrefetchFairness ==
    /\ WF_prefetchVars(EnsureMesh) /\ WF_prefetchVars(ReceiveMesh) /\ WF_prefetchVars(EndParse)
    /\ WF_prefetchVars(FetchLoaded)

PrefetchSpec == PrefetchInit /\ [][PrefetchNext]_prefetchVars

-----------------------------------------------------------------------------
\* The mesh is that of the map the demo had named when one was first needed, or
\* none, and stays so if the demo names another one later; that map is loaded,
\* and besides it at most the one fetched, neither of them twice. The parse
\* waits for a fetch only if it is of that map.
MeshIsTheMaps ==
    /\ ownMesh \in {NoMap, wanted}
    /\ \A i \in DOMAIN loaded : loaded[i] \in {fetchMap, wanted}
    /\ \A i, k \in DOMAIN loaded : loaded[i] = loaded[k] => i = k
    /\ tried => \E i \in DOMAIN loaded : loaded[i] = wanted
    /\ parse = "waiting" => fetchMap = wanted /\ fetch.state \in {"loading", "sent"}

\* The parse ends, and so does its goroutine, even if nobody receives its mesh.
ParseOver == parse = "ended" /\ fetch.state # "loading"
=============================================================================
