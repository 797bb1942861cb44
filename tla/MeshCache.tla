----------------------------- MODULE MeshCache -----------------------------
(***************************************************************************)
(* The bounded cache of built collision meshes (meshCache of               *)
(* internal/geometry/load.go): one map from asset URL to a once-only entry, *)
(* one LRU of the URLs whose entry holds a mesh, and any number of request  *)
(* goroutines that load through it while the CDN fails, recovers and        *)
(* publishes files.                                                        *)
(*                                                                         *)
(* A load is four steps, because the code releases c.mu and blocks between  *)
(* them: look the entry up, start (or wait for) its sync.Once, receive the  *)
(* fetch, and settle the map and the LRU with what came back.              *)
(***************************************************************************)
EXTENDS Integers, Sequences, SequencesExt

CONSTANTS Loaders,    \* goroutines that may be inside meshCache.load
          Urls,       \* asset URLs
          Entries,    \* identities of *cached values (pointers)
          NoEntry,    \* the nil pointer
          MaxCached   \* MAP_MESH_CACHE; zero or less disables caching

ASSUME MaxCachedAssumption == MaxCached \in Int
ASSUME NoEntryAssumption   == NoEntry \notin Entries

VARIABLES entries,    \* c.entries: URL -> *cached or nil
          lru,        \* c.lru: URLs, most recently used first
          heap,       \* what each *cached holds (its once, mesh and err)
          pc,         \* where each goroutine is in load
          held,       \* the goroutine's local `entry`
          target,     \* the goroutine's local `t`
          published,  \* what the CDN has under each URL
          up          \* whether the CDN answers

cacheVars  == <<entries, lru>>
loaderVars == <<held, target>>
cdnVars    == <<published, up>>
vars       == <<cacheVars, heap, pc, loaderVars, cdnVars>>

Answers == {"mesh", "absent", "error"}              \* a finished once
Content == {"missing", "usable", "unusable"}        \* unusable: empty, oversized

Targets == [url : Urls, listed : BOOLEAN]

TypeOK ==
  /\ entries \in [Urls -> Entries \cup {NoEntry}]
  /\ lru \in Seq(Urls)
  /\ heap \in [Entries -> Answers \cup {"fresh", "building"}]
  /\ pc \in [Loaders -> {"idle", "once", "fetch", "settle"}]
  /\ held \in [Loaders -> Entries \cup {NoEntry}]
  /\ target \in [Loaders -> Targets]
  /\ published \in [Urls -> Content]
  /\ up \in BOOLEAN

Init ==
  /\ entries = [u \in Urls |-> NoEntry]
  /\ lru = << >>
  /\ heap = [e \in Entries |-> "fresh"]
  /\ pc = [l \in Loaders |-> "idle"]
  /\ held = [l \in Loaders |-> NoEntry]
  /\ target \in [Loaders -> Targets]
  /\ published \in [Urls -> Content]
  /\ up = TRUE

-----------------------------------------------------------------------------
(* What fetchAndBuild gives for a target under the present CDN.             *)

Reply(t) ==
  IF ~up THEN "error"
  ELSE IF published[t.url] = "missing"
         THEN IF t.listed THEN "error" ELSE "absent"
         ELSE IF published[t.url] = "usable" THEN "mesh" ELSE "absent"

(* Wrong (like every definition marked so, a fault a property is tried on): *)
(* the entry's answer is given whoever filled it.                           *)
VerdictOfEntry(t, answer) == answer

(* What load returns for a target from a finished entry: a listed file      *)
(* is never "absent", whoever filled the entry.                             *)
Verdict(t, answer) == IF t.listed /\ answer = "absent" THEN "error" ELSE answer

(* touch: the key to the front, the least recently used past the bound out. *)
Bound == IF MaxCached < 0 THEN 0 ELSE MaxCached

Promote(s, u) ==
  IF u \in ToSet(s)
    THEN <<u>> \o RemoveAt(s, CHOOSE i \in 1..Len(s) : s[i] = u)
    ELSE <<u>> \o s

Kept(s) == SubSeq(s, 1, IF Len(s) > Bound THEN Bound ELSE Len(s))

(* Wrong: an evicted key leaves the LRU but not the map.                    *)
EvictedFromLruOnly(s) == {}

Evicted(s) == {s[i] : i \in (Bound + 1)..Len(s)}

Touch(u) ==
  LET s == Promote(lru, u)
  IN  /\ lru' = Kept(s)
      /\ entries' = [k \in Urls |-> IF k \in Evicted(s) THEN NoEntry ELSE entries[k]]

-----------------------------------------------------------------------------
Unreferenced(e) == /\ \A u \in Urls : entries[u] # e
                   /\ \A l \in Loaders : held[l] # e

(* Under c.mu: find the URL's entry, or store a new one.                    *)
Lookup(l, t) ==
  /\ pc[l] = "idle"
  /\ target' = [target EXCEPT ![l] = t]
  /\ pc' = [pc EXCEPT ![l] = "once"]
  /\ \/ /\ entries[t.url] # NoEntry
        /\ held' = [held EXCEPT ![l] = entries[t.url]]
        /\ UNCHANGED <<entries, heap>>
     \/ /\ entries[t.url] = NoEntry
        /\ \E e \in Entries :
             /\ Unreferenced(e)
             /\ entries' = [entries EXCEPT ![t.url] = e]
             /\ heap' = [heap EXCEPT ![e] = "fresh"]
             /\ held' = [held EXCEPT ![l] = e]
  /\ UNCHANGED <<lru, cdnVars>>

(* entry.once.Do: the first caller runs fetchAndBuild ...                   *)
OnceRun(l) ==
  /\ pc[l] = "once"
  /\ heap[held[l]] = "fresh"
  /\ heap' = [heap EXCEPT ![held[l]] = "building"]
  /\ pc' = [pc EXCEPT ![l] = "fetch"]
  /\ UNCHANGED <<cacheVars, loaderVars, cdnVars>>

(* ... whose answer, or the 15 s timeout, completes the once ...            *)
FetchDone(l) ==
  /\ pc[l] = "fetch"
  /\ heap' = [heap EXCEPT ![held[l]] = Reply(target[l])]
  /\ pc' = [pc EXCEPT ![l] = "settle"]
  /\ UNCHANGED <<cacheVars, loaderVars, cdnVars>>

(* ... and every other caller blocks in Do until it has.                    *)
OnceWait(l) ==
  /\ pc[l] = "once"
  /\ heap[held[l]] \in Answers
  /\ pc' = [pc EXCEPT ![l] = "settle"]
  /\ UNCHANGED <<cacheVars, heap, loaderVars, cdnVars>>

(* The second critical section: drop a failure, register a mesh, and only   *)
(* when the map still holds the entry this goroutine looked up.             *)
Current(l) == entries[target[l].url] = held[l]

(* Wrong: the failure drops whatever entry the URL has by now; drops        *)
(* absences too.                                                            *)
DropsAnyEntry(l) == Verdict(target[l], heap[held[l]]) = "error"
DropsAbsences(l) == heap[held[l]] # "mesh" /\ Current(l)

Drops(l)     == Verdict(target[l], heap[held[l]]) = "error" /\ Current(l)
Registers(l) == heap[held[l]] = "mesh" /\ Current(l)

Settle(l) ==
  /\ pc[l] = "settle"
  /\ pc' = [pc EXCEPT ![l] = "idle"]
  /\ held' = [held EXCEPT ![l] = NoEntry]
  /\ \/ /\ Drops(l)
        /\ entries' = [entries EXCEPT ![target[l].url] = NoEntry]
        /\ UNCHANGED lru
     \/ /\ Registers(l)
        /\ Touch(target[l].url)
     \/ /\ ~Drops(l) /\ ~Registers(l)
        /\ UNCHANGED cacheVars
  /\ UNCHANGED <<heap, target, cdnVars>>

-----------------------------------------------------------------------------
(* The CDN: outages come and go; a file appears once and is then immutable. *)

CdnToggle ==
  /\ up' = ~up
  /\ UNCHANGED <<cacheVars, heap, pc, loaderVars, published>>

Publish(u) ==
  /\ published[u] = "missing"
  /\ \E c \in Content \ {"missing"} : published' = [published EXCEPT ![u] = c]
  /\ UNCHANGED <<cacheVars, heap, pc, loaderVars, up>>

Advance(l) == OnceRun(l) \/ FetchDone(l) \/ OnceWait(l) \/ Settle(l)

Next ==
  \/ \E l \in Loaders : \E t \in Targets : Lookup(l, t)
  \/ \E l \in Loaders : OnceRun(l)
  \/ \E l \in Loaders : FetchDone(l)
  \/ \E l \in Loaders : OnceWait(l)
  \/ \E l \in Loaders : Settle(l)
  \/ CdnToggle
  \/ \E u \in Urls : Publish(u)

Spec == Init /\ [][Next]_vars

(* A goroutine inside load is scheduled, its fetch is bounded by the client *)
(* timeout and its builds terminate. Nothing makes a request arrive.        *)
FairSpec == Spec /\ \A l \in Loaders : WF_vars(Advance(l))

-----------------------------------------------------------------------------
(* Safety.                                                                  *)

Fetching(u) == {l \in Loaders : pc[l] = "fetch" /\ target[l].url = u}

(* The fetch of one URL is never running twice: two requests for a cold map *)
(* share one download and one build, whatever was evicted, dropped and      *)
(* looked up again in between (sync.Once per entry, load).                  *)
SingleFlight == \A u \in Urls : \A l, m \in Fetching(u) : l = m

(* The LRU names each URL once, stays within the bound, and every URL it    *)
(* names has a live entry with a built mesh: an eviction always frees       *)
(* memory and never throws away an entry that is still being built.         *)
LruSound ==
  /\ Len(lru) <= Bound
  /\ IsInjective(lru)
  /\ \A u \in ToSet(lru) : entries[u] # NoEntry /\ heap[entries[u]] = "mesh"

(* A built mesh that the map keeps alive is counted by the LRU, or some     *)
(* request still holds its entry and has yet to settle: no resident mesh    *)
(* escapes the bound for good.                                              *)
MeshAccounted ==
  \A u \in Urls : entries[u] # NoEntry /\ heap[entries[u]] = "mesh" =>
    \/ u \in ToSet(lru)
    \/ \E l \in Loaders : held[l] = entries[u]

(* A failed attempt is never what the cache remembers: while the map still  *)
(* holds it, a request that will drop it is on its way ("one CDN timeout    *)
(* would otherwise disable sightline validation until the pod restarts").   *)
NoErrorMemoized ==
  \A u \in Urls : entries[u] # NoEntry /\ heap[entries[u]] = "error" =>
    \E l \in Loaders : held[l] = entries[u] /\ target[l].url = u

(* What the map keeps is accounted for: a mesh by the LRU, a failure by the *)
(* request that drops it.                                                   *)
CacheCoherent == TypeOK /\ LruSound /\ MeshAccounted /\ NoErrorMemoized

(* An absent probe stays memoized, so a missing file is fetched once, until *)
(* a request whose manifest lists that very URL overrules it.               *)
AbsenceStands ==
  [][\A u \in Urls :
       entries[u] # NoEntry /\ heap[entries[u]] = "absent" /\ entries'[u] # entries[u]
         => \E l \in Loaders : /\ pc[l] = "settle" /\ pc'[l] = "idle"
                               /\ target[l] = [url |-> u, listed |-> TRUE]]_vars

(* Once the CDN answers for good and has the file, listed loads of it stop  *)
(* failing: nothing that went wrong earlier, and no absence a flat probe    *)
(* memoized, outlives the fault.                                            *)
Failing(l, u) == /\ pc[l] = "settle" /\ pc'[l] = "idle"
                 /\ target[l] = [url |-> u, listed |-> TRUE]
                 /\ heap[held[l]] # "mesh"

RecoversFromFaults ==
  \A u \in Urls : <>[](up /\ published[u] = "usable")
                    => <>[][\A l \in Loaders : ~Failing(l, u)]_vars
=============================================================================
