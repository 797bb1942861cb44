----------------------------- MODULE MeshProofs -----------------------------
(***************************************************************************)
(* Theorems about meshes: MeshCache, which has them, and Bvh, the tree over *)
(* one.                                                                     *)
(*                                                                          *)
(* MeshCache: type correctness, the safety invariants and the action        *)
(* property that the TLC runs check on two and three loaders, for every set *)
(* of loaders and URLs and every MAP_MESH_CACHE.                            *)
(*                                                                          *)
(* Bvh: TreeIsTheMesh, for every mesh, ray, leaf size and depth. The tree   *)
(* is told by the call that made each node, a run of the places to be       *)
(* (TreeInv): the runs of two children are their parent's, a box is around  *)
(* the triangles of its run, and what a ray may still meet is in the runs   *)
(* of its node and of those on its stack, none of which is less deep than   *)
(* its place there.                                                         *)
(***************************************************************************)
EXTENDS MeshCache, Bvh, OrderTheorems, SequenceTheorems

-----------------------------------------------------------------------------
(* MeshCache. *)


(* Promoting a key of a duplicate-free LRU keeps it duplicate-free and adds *)
(* exactly that key.                                                        *)
LEMMA PromoteKeepsKeys ==
  ASSUME NEW S, NEW s \in Seq(S), NEW u \in S, IsInjective(s)
  PROVE  /\ Promote(s, u) \in Seq(S)
         /\ IsInjective(Promote(s, u))
         /\ ToSet(Promote(s, u)) = ToSet(s) \cup {u}
<1>1. CASE u \notin ToSet(s)
  <2>1. Promote(s, u) = <<u>> \o s
    BY <1>1 DEF Promote
  <2> DEFINE p == <<u>> \o s
  <2>2. /\ p \in Seq(S) /\ Len(p) = Len(s) + 1 /\ p[1] = u
        /\ \A i \in 2..Len(p) : p[i] = s[i - 1]
        /\ \A i \in 1..Len(s) : s[i] = p[i + 1]
    OBVIOUS
  <2>3. \A i \in 1..Len(s) : s[i] # u
    BY <1>1 DEF ToSet
  <2> HIDE DEF p
  <2>4. IsInjective(p)
    BY <2>2, <2>3 DEF IsInjective
  <2>5. ToSet(p) = ToSet(s) \cup {u}
    <3>1. ASSUME NEW i \in 1..Len(p) PROVE p[i] \in ToSet(s) \cup {u}
      <4>1. CASE i = 1
        BY <4>1, <2>2
      <4>2. CASE i # 1
        BY <4>2, <2>2 DEF ToSet
      <4> QED
        BY <4>1, <4>2
    <3>2. ASSUME NEW i \in 1..Len(s) PROVE s[i] \in ToSet(p)
      BY <2>2 DEF ToSet
    <3>3. u \in ToSet(p)
      BY <2>2 DEF ToSet
    <3> QED
      BY <3>1, <3>2, <3>3 DEF ToSet
  <2> QED
    BY <2>1, <2>2, <2>4, <2>5 DEF p
<1>2. CASE u \in ToSet(s)
  <2> DEFINE j == CHOOSE i \in 1..Len(s) : s[i] = u
             p == <<u>> \o RemoveAt(s, j)
  <2>1. Promote(s, u) = p
    BY <1>2 DEF Promote
  <2>2. j \in 1..Len(s) /\ s[j] = u
    BY <1>2 DEF ToSet
  <2> HIDE DEF j
  <2>3. /\ p \in Seq(S) /\ Len(p) = Len(s) /\ p[1] = u
        /\ \A i \in 2..Len(p) : p[i] = IF i <= j THEN s[i - 1] ELSE s[i]
    <3> DEFINE a == SubSeq(s, 1, j - 1)
               b == SubSeq(s, j + 1, Len(s))
    <3>1. a \in Seq(S) /\ Len(a) = j - 1 /\ \A i \in 1..(j - 1) : a[i] = s[i]
      BY <2>2
    <3>2. b \in Seq(S) /\ Len(b) = Len(s) - j /\ \A i \in 1..(Len(s) - j) : b[i] = s[j + i]
      BY <2>2
    <3> HIDE DEF a, b
    <3>3. p = <<u>> \o (a \o b)
      BY DEF RemoveAt, a, b
    <3>4. /\ a \o b \in Seq(S) /\ Len(a \o b) = Len(s) - 1
          /\ \A i \in 1..(Len(s) - 1) : (a \o b)[i] = IF i < j THEN s[i] ELSE s[i + 1]
      <4>1. a \o b \in Seq(S) /\ Len(a \o b) = Len(s) - 1
        <5>1. a \o b \in Seq(S) /\ Len(a \o b) = Len(a) + Len(b)
          BY <3>1, <3>2
        <5> QED
          BY <5>1, <2>2, <3>1, <3>2
      <4>2. ASSUME NEW i \in 1..(Len(s) - 1)
            PROVE  (a \o b)[i] = IF i < j THEN s[i] ELSE s[i + 1]
        <5>1. CASE i < j
          BY <2>2, <3>1, <3>2, <5>1
        <5>2. CASE ~(i < j)
          <6>1. (a \o b)[i] = b[i - (j - 1)]
            BY <2>2, <3>1, <3>2, <5>2
          <6> QED
            BY <2>2, <3>2, <5>2, <6>1
        <5> QED
          BY <5>1, <5>2
      <4> QED
        BY <4>1, <4>2
    <3> HIDE DEF p
    <3> DEFINE c == a \o b
    <3>5. c \in Seq(S) /\ Len(c) = Len(s) - 1 /\ p = <<u>> \o c
      BY <3>3, <3>4
    <3>6. \A i \in 1..(Len(s) - 1) : c[i] = IF i < j THEN s[i] ELSE s[i + 1]
      BY <3>4
    <3> HIDE DEF c
    <3>7. p \in Seq(S) /\ Len(p) = Len(s) /\ p[1] = u /\ \A i \in 2..Len(p) : p[i] = c[i - 1]
      BY <3>5
    <3> QED
      BY <3>5, <3>6, <3>7, <2>2
  <2> HIDE DEF p
  <2>4. \A i, k \in 1..Len(s) : s[i] = s[k] => i = k
    BY DEF IsInjective
  <2>5. IsInjective(p)
    <3>1. ASSUME NEW i \in 2..Len(p) PROVE p[i] # u
      <4>1. CASE i <= j
        BY <2>2, <2>3, <2>4, <4>1
      <4>2. CASE ~(i <= j)
        BY <2>2, <2>3, <2>4, <4>2
      <4> QED
        BY <4>1, <4>2
    <3>2. ASSUME NEW i \in 2..Len(p), NEW k \in 2..Len(p), p[i] = p[k] PROVE i = k
      <4>1. CASE i <= j /\ k <= j
        BY <2>2, <2>3, <2>4, <3>2, <4>1
      <4>2. CASE ~(i <= j) /\ ~(k <= j)
        BY <2>2, <2>3, <2>4, <3>2, <4>2
      <4>3. CASE i <= j /\ ~(k <= j)
        BY <2>2, <2>3, <2>4, <3>2, <4>3
      <4>4. CASE ~(i <= j) /\ k <= j
        BY <2>2, <2>3, <2>4, <3>2, <4>4
      <4> QED
        BY <4>1, <4>2, <4>3, <4>4
    <3>3. \A i \in 1..Len(p) : i = 1 \/ i \in 2..Len(p)
      BY <2>3
    <3>4. DOMAIN p = 1..Len(p)
      BY <2>3
    <3> QED
      BY <2>3, <3>1, <3>2, <3>3, <3>4 DEF IsInjective
  <2>6. \A i \in 1..Len(s) : s[i] = IF i = j THEN p[1] ELSE IF i < j THEN p[i + 1] ELSE p[i]
    BY <2>2, <2>3
  <2>7. ToSet(p) = ToSet(s) \cup {u}
    <3>1. ToSet(p) \subseteq ToSet(s) \cup {u}
      BY <2>2, <2>3 DEF ToSet
    <3>2. ToSet(s) \cup {u} \subseteq ToSet(p)
      <4>1. u \in ToSet(p)
        BY <2>2, <2>3 DEF ToSet
      <4>2. ASSUME NEW i \in 1..Len(s) PROVE s[i] \in ToSet(p)
        BY <2>2, <2>3, <2>6 DEF ToSet
      <4> QED
        BY <4>1, <4>2 DEF ToSet
    <3> QED
      BY <3>1, <3>2
  <2> QED
    BY <2>1, <2>3, <2>5, <2>7
<1> QED
  BY <1>1, <1>2

LEMMA BoundNat == Bound \in Nat
  BY MaxCachedAssumption DEF Bound

(* Trimming splits the keys in two: those kept, within the bound, and those *)
(* evicted.                                                                 *)
LEMMA KeptOrEvicted ==
  ASSUME NEW S, NEW s \in Seq(S), IsInjective(s)
  PROVE  /\ Kept(s) \in Seq(S)
         /\ Len(Kept(s)) <= Bound
         /\ IsInjective(Kept(s))
         /\ ToSet(Kept(s)) \cap Evicted(s) = {}
         /\ ToSet(Kept(s)) \cup Evicted(s) = ToSet(s)
<1> DEFINE n == IF Len(s) > Bound THEN Bound ELSE Len(s)
           k == Kept(s)
<1>1. n \in Nat /\ n <= Len(s) /\ n <= Bound /\ (n = Bound \/ n = Len(s))
  BY BoundNat
<1>2. k = SubSeq(s, 1, n)
  BY DEF Kept
<1> HIDE DEF n, k
<1>3. k \in Seq(S) /\ Len(k) = n /\ \A i \in 1..n : k[i] = s[i]
  BY <1>1, <1>2
<1>4. IsInjective(k)
  BY <1>1, <1>3 DEF IsInjective
<1>5. ToSet(k) = {s[i] : i \in 1..n}
  BY <1>1, <1>3 DEF ToSet
<1>6. ToSet(s) = {s[i] : i \in 1..Len(s)}
  BY DEF ToSet
<1>7. ToSet(k) \cap Evicted(s) = {}
  BY <1>1, <1>5, BoundNat DEF Evicted, IsInjective
<1>8. ToSet(k) \cup Evicted(s) = ToSet(s)
  <2>1. ASSUME NEW i \in 1..Len(s) PROVE s[i] \in ToSet(k) \cup Evicted(s)
    BY <1>1, <1>5, BoundNat DEF Evicted
  <2>2. ToSet(k) \cup Evicted(s) \subseteq ToSet(s)
    BY <1>1, <1>5, <1>6, BoundNat DEF Evicted
  <2> QED
    BY <2>1, <2>2, <1>6
<1> QED
  BY <1>1, <1>3, <1>4, <1>7, <1>8 DEF k


-----------------------------------------------------------------------------
(* The inductive invariant. What makes the cache safe is that an entry that *)
(* is not finished is still the map's entry for its URL, so only one        *)
(* goroutine can be building for a URL and nothing unfinished is dropped.   *)

Unfinished(e) == heap[e] \in {"fresh", "building"}

HeldIffActive == \A l \in Loaders : held[l] = NoEntry <=> pc[l] = "idle"

FetcherBuilds ==
  /\ \A l \in Loaders : pc[l] = "fetch" => heap[held[l]] = "building"
  /\ \A l, m \in Loaders : pc[l] = "fetch" /\ pc[m] = "fetch" /\ held[l] = held[m] => l = m

UnfinishedIsCurrent ==
  \A l \in Loaders : pc[l] # "idle" /\ Unfinished(held[l]) => entries[target[l].url] = held[l]

SettlesFinished == \A l \in Loaders : pc[l] = "settle" => heap[held[l]] \in Answers

OneUrlPerEntry ==
  /\ \A u, v \in Urls : entries[u] # NoEntry /\ entries[u] = entries[v] => u = v
  /\ \A l \in Loaders : \A u \in Urls :
       pc[l] # "idle" /\ entries[u] = held[l] => target[l].url = u

IInv ==
  /\ TypeOK
  /\ HeldIffActive
  /\ FetcherBuilds
  /\ UnfinishedIsCurrent
  /\ SettlesFinished
  /\ OneUrlPerEntry
  /\ LruSound

LEMMA InitIInv == Init => IInv
<1> SUFFICES ASSUME Init PROVE IInv
  OBVIOUS
<1>1. TypeOK
  BY DEF Init, TypeOK
<1>2. LruSound
  BY BoundNat DEF Init, LruSound, ToSet, IsInjective
<1> QED
  BY <1>1, <1>2, NoEntryAssumption
  DEF Init, IInv, HeldIffActive, FetcherBuilds, UnfinishedIsCurrent, SettlesFinished,
      OneUrlPerEntry, TypeOK

LEMMA LookupStep ==
  ASSUME IInv, NEW l \in Loaders, NEW t \in Targets, Lookup(l, t)
  PROVE  IInv'
<1> USE DEF IInv, Targets
<1> DEFINE u == t.url
<1>1. /\ u \in Urls /\ pc[l] = "idle" /\ held[l] = NoEntry
      /\ target' = [target EXCEPT ![l] = t] /\ pc' = [pc EXCEPT ![l] = "once"]
      /\ UNCHANGED <<lru, published, up>>
  BY DEF Lookup, cdnVars, HeldIffActive
<1>2. CASE entries[u] # NoEntry /\ held' = [held EXCEPT ![l] = entries[u]] /\ UNCHANGED <<entries, heap>>
  <2>1. TypeOK' /\ LruSound'
    BY <1>1, <1>2 DEF TypeOK, LruSound
  <2>2. HeldIffActive'
    BY <1>1, <1>2 DEF TypeOK, HeldIffActive
  <2>3. FetcherBuilds' /\ SettlesFinished'
    BY <1>1, <1>2 DEF TypeOK, FetcherBuilds, SettlesFinished
  <2>4. UnfinishedIsCurrent'
    BY <1>1, <1>2 DEF TypeOK, UnfinishedIsCurrent, Unfinished
  <2>5. OneUrlPerEntry'
    BY <1>1, <1>2 DEF TypeOK, OneUrlPerEntry
  <2> QED
    BY <2>1, <2>2, <2>3, <2>4, <2>5
<1>3. ASSUME NEW e \in Entries, entries[u] = NoEntry, Unreferenced(e),
             entries' = [entries EXCEPT ![u] = e], heap' = [heap EXCEPT ![e] = "fresh"],
             held' = [held EXCEPT ![l] = e]
      PROVE  IInv'
  <2>0. /\ \A v \in Urls : entries[v] # e
        /\ \A m \in Loaders : held[m] # e
        /\ e # NoEntry
    BY <1>3, NoEntryAssumption DEF Unreferenced
  <2>1. TypeOK'
    BY <1>1, <1>3 DEF TypeOK
  <2>2. LruSound'
    BY <1>1, <1>3, <2>0 DEF TypeOK, LruSound, ToSet
  <2>3. HeldIffActive'
    BY <1>1, <1>3, <2>0 DEF TypeOK, HeldIffActive
  <2>4. FetcherBuilds' /\ SettlesFinished'
    BY <1>1, <1>3, <2>0 DEF TypeOK, FetcherBuilds, SettlesFinished
  <2>5. UnfinishedIsCurrent'
    <3>1. ASSUME NEW m \in Loaders, pc[m]' # "idle", Unfinished(held[m])'
          PROVE  entries[target[m].url]' = held[m]'
      <4>1. CASE m = l
        BY <1>1, <1>3, <4>1 DEF TypeOK
      <4>2. CASE m # l
        <5>1. pc[m] # "idle" /\ held[m] \in Entries /\ held[m] # e /\ target[m]' = target[m]
          BY <1>1, <2>0, <3>1, <4>2 DEF TypeOK, HeldIffActive
        <5>2. held[m]' = held[m] /\ heap[held[m]]' = heap[held[m]]
          BY <1>3, <4>2, <5>1 DEF TypeOK
        <5>3. entries[target[m].url] = held[m]
          BY <3>1, <5>1, <5>2 DEF UnfinishedIsCurrent, Unfinished
        <5>4. target[m].url \in Urls /\ target[m].url # u
          BY <1>3, <5>1, <5>3, NoEntryAssumption DEF TypeOK
        <5> QED
          BY <1>3, <5>1, <5>2, <5>3, <5>4 DEF TypeOK
      <4> QED
        BY <4>1, <4>2
    <3> QED
      BY <3>1 DEF UnfinishedIsCurrent
  <2>6. OneUrlPerEntry'
    BY <1>1, <1>3, <2>0 DEF TypeOK, OneUrlPerEntry
  <2> QED
    BY <2>1, <2>2, <2>3, <2>4, <2>5, <2>6
<1> QED
  BY <1>2, <1>3 DEF Lookup

LEMMA OnceRunStep ==
  ASSUME IInv, NEW l \in Loaders, OnceRun(l)
  PROVE  IInv'
<1> USE DEF IInv
<1>1. /\ pc[l] = "once" /\ held[l] \in Entries /\ heap[held[l]] = "fresh"
      /\ heap' = [heap EXCEPT ![held[l]] = "building"] /\ pc' = [pc EXCEPT ![l] = "fetch"]
      /\ UNCHANGED <<entries, lru, held, target, published, up>>
  BY DEF OnceRun, cacheVars, loaderVars, cdnVars, HeldIffActive, TypeOK
<1>2. TypeOK'
  BY <1>1 DEF TypeOK
<1>3. LruSound'
  BY <1>1 DEF TypeOK, LruSound, ToSet
<1>4. HeldIffActive' /\ OneUrlPerEntry'
  BY <1>1 DEF TypeOK, HeldIffActive, OneUrlPerEntry
<1>5. FetcherBuilds' /\ SettlesFinished'
  BY <1>1 DEF TypeOK, FetcherBuilds, SettlesFinished, Answers
<1>6. UnfinishedIsCurrent'
  BY <1>1 DEF TypeOK, UnfinishedIsCurrent, Unfinished
<1> QED
  BY <1>2, <1>3, <1>4, <1>5, <1>6

LEMMA FetchDoneStep ==
  ASSUME IInv, NEW l \in Loaders, FetchDone(l)
  PROVE  IInv'
<1> USE DEF IInv
<1> DEFINE r == Reply(target[l])
<1>1. r \in Answers
  BY DEF Reply, Answers
<1>2. /\ pc[l] = "fetch" /\ held[l] \in Entries /\ heap[held[l]] = "building"
      /\ heap' = [heap EXCEPT ![held[l]] = r] /\ pc' = [pc EXCEPT ![l] = "settle"]
      /\ UNCHANGED <<entries, lru, held, target, published, up>>
  BY DEF FetchDone, cacheVars, loaderVars, cdnVars, HeldIffActive, TypeOK, FetcherBuilds
<1> HIDE DEF r
<1>3. TypeOK'
  BY <1>1, <1>2 DEF TypeOK
<1>4. LruSound'
  BY <1>2 DEF TypeOK, LruSound, ToSet
<1>5. HeldIffActive' /\ OneUrlPerEntry'
  BY <1>2 DEF TypeOK, HeldIffActive, OneUrlPerEntry
<1>6. FetcherBuilds' /\ SettlesFinished'
  BY <1>1, <1>2 DEF TypeOK, FetcherBuilds, SettlesFinished
<1>7. UnfinishedIsCurrent'
  BY <1>1, <1>2 DEF TypeOK, UnfinishedIsCurrent, Unfinished, Answers
<1> QED
  BY <1>3, <1>4, <1>5, <1>6, <1>7

LEMMA OnceWaitStep ==
  ASSUME IInv, NEW l \in Loaders, OnceWait(l)
  PROVE  IInv'
<1> USE DEF IInv
<1>1. /\ pc[l] = "once" /\ heap[held[l]] \in Answers /\ pc' = [pc EXCEPT ![l] = "settle"]
      /\ UNCHANGED <<entries, lru, heap, held, target, published, up>>
  BY DEF OnceWait, cacheVars, loaderVars, cdnVars
<1>2. TypeOK' /\ LruSound'
  BY <1>1 DEF TypeOK, LruSound
<1>3. HeldIffActive' /\ OneUrlPerEntry'
  BY <1>1 DEF TypeOK, HeldIffActive, OneUrlPerEntry
<1>4. FetcherBuilds' /\ SettlesFinished'
  BY <1>1 DEF TypeOK, FetcherBuilds, SettlesFinished
<1>5. UnfinishedIsCurrent'
  BY <1>1 DEF TypeOK, UnfinishedIsCurrent, Unfinished
<1> QED
  BY <1>2, <1>3, <1>4, <1>5

(* What settling can do to the map: only the goroutine's own finished entry *)
(* or an evicted mesh leaves it, and nothing enters it.                     *)
LEMMA SettleRemoves ==
  ASSUME IInv, NEW l \in Loaders, Settle(l)
  PROVE  /\ TypeOK' /\ LruSound'
         /\ \A u \in Urls :
              \/ entries'[u] = entries[u]
              \/ /\ entries'[u] = NoEntry
                 /\ entries[u] # NoEntry
                 /\ \/ heap[entries[u]] = "mesh"
                    \/ /\ u = target[l].url
                       /\ entries[u] = held[l]
                       /\ Drops(l)
<1> USE DEF IInv
<1> DEFINE u0 == target[l].url
<1>1. /\ pc[l] = "settle" /\ held[l] \in Entries /\ u0 \in Urls /\ heap[held[l]] \in Answers
      /\ pc' = [pc EXCEPT ![l] = "idle"] /\ held' = [held EXCEPT ![l] = NoEntry]
      /\ UNCHANGED <<heap, target, published, up>>
  BY DEF Settle, cdnVars, HeldIffActive, TypeOK, SettlesFinished, Targets
<1>2. pc' \in [Loaders -> {"idle", "once", "fetch", "settle"}]
      /\ held' \in [Loaders -> Entries \cup {NoEntry}]
  BY <1>1 DEF TypeOK
<1> HIDE DEF u0
<1>3. CASE Drops(l) /\ entries' = [entries EXCEPT ![u0] = NoEntry] /\ UNCHANGED lru
  <2>1. entries[u0] = held[l] /\ heap[held[l]] # "mesh"
    BY <1>3, <1>1 DEF Drops, Current, Verdict, u0
  <2>2. TypeOK'
    BY <1>1, <1>2, <1>3 DEF TypeOK
  <2>3. LruSound'
    <3>1. u0 \notin ToSet(lru)
      BY <2>1 DEF LruSound
    <3> QED
      BY <1>1, <1>3, <3>1 DEF LruSound, TypeOK, ToSet
  <2>4. \A u \in Urls : entries'[u] # entries[u] => u = u0 /\ entries'[u] = NoEntry
    BY <1>3 DEF TypeOK
  <2> QED
    BY <1>1, <1>3, <2>1, <2>2, <2>3, <2>4, NoEntryAssumption DEF u0
<1>4. CASE Registers(l) /\ Touch(u0)
  <2> DEFINE s == Promote(lru, u0)
  <2>1. entries[u0] = held[l] /\ heap[held[l]] = "mesh"
    BY <1>4 DEF Registers, Current, u0
  <2>2. s \in Seq(Urls) /\ IsInjective(s) /\ ToSet(s) = ToSet(lru) \cup {u0}
    BY <1>1, PromoteKeepsKeys DEF LruSound, TypeOK
  <2>3. lru' = Kept(s) /\ entries' = [k \in Urls |-> IF k \in Evicted(s) THEN NoEntry ELSE entries[k]]
    BY <1>4 DEF Touch
  <2> HIDE DEF s
  <2>4. /\ lru' \in Seq(Urls) /\ Len(lru') <= Bound /\ IsInjective(lru')
        /\ ToSet(lru') \cap Evicted(s) = {} /\ ToSet(lru') \cup Evicted(s) = ToSet(s)
    BY <2>2, <2>3, KeptOrEvicted
  <2>5. \A u \in ToSet(s) : u \in Urls /\ entries[u] # NoEntry /\ heap[entries[u]] = "mesh"
    <3>1. \A u \in ToSet(lru) : u \in Urls
      BY DEF TypeOK, ToSet
    <3>2. \A u \in ToSet(lru) : entries[u] # NoEntry /\ heap[entries[u]] = "mesh"
      BY DEF LruSound
    <3>3. entries[u0] # NoEntry
      BY <1>1, <2>1, NoEntryAssumption
    <3> QED
      BY <1>1, <2>1, <2>2, <3>1, <3>2, <3>3
  <2>6. TypeOK'
    BY <1>1, <1>2, <2>3, <2>4 DEF TypeOK
  <2>7. LruSound'
    <3>1. ASSUME NEW u \in ToSet(lru')
          PROVE  entries'[u] # NoEntry /\ heap'[entries'[u]] = "mesh"
      BY <1>1, <2>3, <2>4, <2>5
    <3>2. Bound' = Bound
      BY DEF Bound
    <3> QED
      BY <2>4, <3>1, <3>2 DEF LruSound, ToSet, IsInjective
  <2>8. \A u \in Urls : entries'[u] # entries[u] =>
           entries'[u] = NoEntry /\ entries[u] # NoEntry /\ heap[entries[u]] = "mesh"
    BY <2>3, <2>4, <2>5
  <2> QED
    BY <2>6, <2>7, <2>8
<1>5. CASE UNCHANGED <<entries, lru>>
  <2>1. TypeOK' /\ LruSound'
    BY <1>1, <1>2, <1>5 DEF TypeOK, LruSound
  <2> QED
    BY <1>5, <2>1
<1> QED
  BY <1>3, <1>4, <1>5 DEF Settle, cacheVars, u0

LEMMA SettleStep ==
  ASSUME IInv, NEW l \in Loaders, Settle(l)
  PROVE  IInv'
<1> USE DEF IInv
<1>1. /\ pc[l] = "settle" /\ held[l] \in Entries /\ heap[held[l]] \in Answers
      /\ pc' = [pc EXCEPT ![l] = "idle"] /\ held' = [held EXCEPT ![l] = NoEntry]
      /\ UNCHANGED <<heap, target, published, up>>
  BY DEF Settle, cdnVars, HeldIffActive, TypeOK, SettlesFinished
<1>2. TypeOK' /\ LruSound'
  BY SettleRemoves
<1>3. \A u \in Urls : \/ entries'[u] = entries[u]
                      \/ /\ entries'[u] = NoEntry
                         /\ entries[u] # NoEntry
                         /\ heap[entries[u]] \in Answers
  BY <1>1, SettleRemoves DEF Answers
<1>4. HeldIffActive'
  BY <1>1 DEF TypeOK, HeldIffActive
<1>5. FetcherBuilds' /\ SettlesFinished'
  BY <1>1 DEF TypeOK, FetcherBuilds, SettlesFinished
<1>6. UnfinishedIsCurrent'
  <2>1. ASSUME NEW m \in Loaders, pc[m]' # "idle", Unfinished(held[m])'
        PROVE  entries[target[m].url]' = held[m]'
    <3>1. m # l /\ pc[m] # "idle" /\ held[m]' = held[m] /\ Unfinished(held[m])
      BY <1>1, <2>1 DEF TypeOK, Unfinished
    <3>2. entries[target[m].url] = held[m] /\ target[m].url \in Urls
      BY <3>1 DEF UnfinishedIsCurrent, TypeOK, Targets
    <3>3. heap[held[m]] \notin Answers
      BY <3>1 DEF Unfinished, Answers
    <3> QED
      BY <1>1, <1>3, <3>1, <3>2, <3>3
  <2> QED
    BY <2>1 DEF UnfinishedIsCurrent
<1>7. OneUrlPerEntry'
  <2>1. ASSUME NEW u \in Urls, NEW v \in Urls, entries'[u] # NoEntry, entries'[u] = entries'[v]
        PROVE  u = v
    BY <1>3, <2>1 DEF OneUrlPerEntry
  <2>2. ASSUME NEW m \in Loaders, NEW u \in Urls, pc'[m] # "idle", entries'[u] = held'[m]
        PROVE  target'[m].url = u
    <3>1. m # l /\ pc[m] # "idle" /\ held'[m] = held[m] /\ held[m] \in Entries
      BY <1>1, <2>2 DEF TypeOK, HeldIffActive
    <3>2. entries[u] = held[m]
      BY <1>3, <2>2, <3>1, NoEntryAssumption
    <3> QED
      BY <1>1, <3>1, <3>2 DEF OneUrlPerEntry
  <2> QED
    BY <2>1, <2>2 DEF OneUrlPerEntry
<1> QED
  BY <1>2, <1>4, <1>5, <1>6, <1>7

LEMMA EnvironmentStep ==
  ASSUME IInv, \/ CdnToggle
               \/ \E u \in Urls : Publish(u)
               \/ UNCHANGED vars
  PROVE  IInv'
<1>1. /\ UNCHANGED <<entries, lru, heap, pc, held, target>>
      /\ published' \in [Urls -> Content] /\ up' \in BOOLEAN
  BY DEF CdnToggle, Publish, vars, cacheVars, loaderVars, cdnVars, IInv, TypeOK
<1> QED
  BY <1>1 DEF IInv, TypeOK, HeldIffActive, FetcherBuilds, UnfinishedIsCurrent, Unfinished,
              SettlesFinished, OneUrlPerEntry, LruSound

(* The invariant is inductive.                                              *)
THEOREM Inductive == Spec => []IInv
<1>1. Init => IInv
  BY InitIInv
<1>2. IInv /\ [Next]_vars => IInv'
  <2> SUFFICES ASSUME IInv, [Next]_vars PROVE IInv'
    OBVIOUS
  <2> QED
    BY LookupStep, OnceRunStep, FetchDoneStep, OnceWaitStep, SettleStep, EnvironmentStep DEF Next
<1> QED
  BY <1>1, <1>2, PTL DEF Spec

(* The LRU is sound for every bound, zero and negative ones included.       *)
THEOREM LruIsSound == Spec => []LruSound
<1>1. IInv => LruSound
  BY DEF IInv
<1> QED
  BY <1>1, Inductive, PTL

(* One fetch per URL at a time, whatever is evicted, dropped and looked up  *)
(* again meanwhile.                                                         *)
THEOREM SingleFlightHolds == Spec => []SingleFlight
<1>1. IInv => SingleFlight
  <2> SUFFICES ASSUME IInv, NEW u \in Urls, NEW l \in Fetching(u), NEW m \in Fetching(u)
               PROVE  l = m
    BY DEF SingleFlight
  <2>1. /\ l \in Loaders /\ pc[l] = "fetch" /\ target[l].url = u
        /\ m \in Loaders /\ pc[m] = "fetch" /\ target[m].url = u
    BY DEF Fetching
  <2>2. entries[u] = held[l] /\ entries[u] = held[m]
    BY <2>1 DEF IInv, FetcherBuilds, UnfinishedIsCurrent, Unfinished
  <2> QED
    BY <2>1, <2>2 DEF IInv, FetcherBuilds
<1> QED
  BY <1>1, Inductive, PTL

-----------------------------------------------------------------------------
(* The remaining invariants need IInv in the state they step from.          *)

LEMMA AccountedStep ==
  ASSUME IInv, MeshAccounted, [Next]_vars
  PROVE  MeshAccounted'
<1> USE DEF IInv
<1> SUFFICES ASSUME NEW u \in Urls, entries'[u] # NoEntry, heap'[entries'[u]] = "mesh"
             PROVE  u \in ToSet(lru') \/ \E l \in Loaders : held'[l] = entries'[u]
  BY DEF MeshAccounted
<1> DEFINE Goal == u \in ToSet(lru') \/ \E l \in Loaders : held'[l] = entries'[u]
<1>1. ASSUME NEW l \in Loaders, NEW t \in Targets, Lookup(l, t) PROVE Goal
  <2>1. held[l] = NoEntry /\ lru' = lru
        /\ \A m \in Loaders : m # l => held'[m] = held[m]
    <3>1. pc[l] = "idle" /\ lru' = lru /\ \E e : held' = [held EXCEPT ![l] = e]
      BY <1>1 DEF Lookup
    <3> QED
      BY <3>1 DEF HeldIffActive, TypeOK
  <2>2. CASE entries' = entries /\ heap' = heap
    <3>1. u \in ToSet(lru) \/ \E m \in Loaders : held[m] = entries[u]
      BY <2>2 DEF MeshAccounted
    <3> QED
      BY <2>1, <2>2, <3>1
  <2>3. ASSUME NEW e \in Entries, Unreferenced(e), entries' = [entries EXCEPT ![t.url] = e],
               heap' = [heap EXCEPT ![e] = "fresh"]
        PROVE  Goal
    <3>1. u # t.url
      BY <2>3 DEF TypeOK, Targets
    <3>2. entries'[u] = entries[u] /\ entries[u] # e /\ heap[entries[u]] = "mesh"
      BY <2>3, <3>1 DEF TypeOK, Unreferenced
    <3>3. u \in ToSet(lru) \/ \E m \in Loaders : held[m] = entries[u]
      BY <3>2 DEF MeshAccounted
    <3> QED
      BY <2>1, <3>2, <3>3
  <2> QED
    BY <1>1, <2>2, <2>3 DEF Lookup
<1>2. ASSUME NEW l \in Loaders, OnceRun(l) \/ FetchDone(l) PROVE Goal
  <2>1. UNCHANGED <<entries, lru, held>> /\ held[l] \in Entries
        /\ \E v : heap' = [heap EXCEPT ![held[l]] = v]
    BY <1>2 DEF OnceRun, FetchDone, cacheVars, loaderVars, HeldIffActive, TypeOK
  <2>2. CASE held[l] = entries[u]
    BY <2>1, <2>2
  <2>3. CASE held[l] # entries[u]
    BY <2>1, <2>3 DEF MeshAccounted, TypeOK
  <2> QED
    BY <2>2, <2>3
<1>3. ASSUME NEW l \in Loaders, OnceWait(l) PROVE Goal
  BY <1>3 DEF OnceWait, cacheVars, loaderVars, MeshAccounted
<1>4. ASSUME NEW l \in Loaders, Settle(l) PROVE Goal
  <2>1. heap' = heap /\ entries'[u] = entries[u] /\ pc[l] = "settle" /\ held[l] \in Entries
        /\ target[l].url \in Urls
        /\ \A m \in Loaders : m # l => held'[m] = held[m]
    <3>1. heap' = heap /\ pc[l] = "settle" /\ held' = [held EXCEPT ![l] = NoEntry]
      BY <1>4 DEF Settle
    <3>2. entries'[u] = entries[u]
      BY <1>4, SettleRemoves
    <3> QED
      BY <3>1, <3>2 DEF HeldIffActive, TypeOK, Targets
  <2>2. u \in ToSet(lru) \/ \E m \in Loaders : held[m] = entries[u]
    BY <2>1 DEF MeshAccounted
  <2>3. CASE Registers(l) /\ Touch(target[l].url)
    <3> DEFINE s == Promote(lru, target[l].url)
    <3>1. s \in Seq(Urls) /\ IsInjective(s) /\ ToSet(s) = ToSet(lru) \cup {target[l].url}
      <4>1. lru \in Seq(Urls) /\ IsInjective(lru) /\ target[l].url \in Urls
        BY <2>1 DEF LruSound, TypeOK
      <4>2. ASSUME NEW v \in Urls
            PROVE  /\ Promote(lru, v) \in Seq(Urls) /\ IsInjective(Promote(lru, v))
                   /\ ToSet(Promote(lru, v)) = ToSet(lru) \cup {v}
        BY <4>1, PromoteKeepsKeys
      <4> QED
        BY <4>1, <4>2
    <3>2. lru' = Kept(s) /\ entries' = [k \in Urls |-> IF k \in Evicted(s) THEN NoEntry ELSE entries[k]]
      BY <2>3 DEF Touch
    <3> HIDE DEF s
    <3>3. ToSet(lru') \cup Evicted(s) = ToSet(s)
      BY <3>1, <3>2, KeptOrEvicted
    <3>4. u \notin Evicted(s)
      BY <3>2
    <3>5. CASE u \in ToSet(s)
      BY <3>3, <3>4, <3>5
    <3>6. CASE u \notin ToSet(s)
      <4>1. PICK m \in Loaders : held[m] = entries[u]
        BY <2>2, <3>1, <3>6
      <4>2. m # l
        BY <2>1, <3>1, <3>6, <4>1 DEF OneUrlPerEntry
      <4> QED
        BY <2>1, <4>1, <4>2
    <3> QED
      BY <3>5, <3>6
  <2>4. CASE ~Registers(l) /\ lru' = lru
    <3>1. held[l] # entries[u]
      BY <2>1, <2>4 DEF Registers, Current, OneUrlPerEntry
    <3> QED
      BY <2>1, <2>2, <2>4, <3>1
  <2> QED
    BY <1>4, <2>3, <2>4 DEF Settle, Drops, Registers, Verdict, cacheVars
<1>5. CASE CdnToggle \/ (\E v \in Urls : Publish(v)) \/ UNCHANGED vars
  BY <1>5 DEF CdnToggle, Publish, vars, cacheVars, loaderVars, MeshAccounted
<1> QED
  BY <1>1, <1>2, <1>3, <1>4, <1>5 DEF Next

(* No resident mesh escapes the bound: it is in the LRU, or its holder has  *)
(* yet to settle.                                                           *)
THEOREM NoMeshEscapesTheBound == Spec => []MeshAccounted
<1>1. Init => MeshAccounted
  BY DEF Init, MeshAccounted
<1>2. IInv /\ MeshAccounted /\ [Next]_vars => MeshAccounted'
  BY AccountedStep
<1> QED
  BY <1>1, <1>2, Inductive, PTL DEF Spec

LEMMA ErrorStep ==
  ASSUME IInv, NoErrorMemoized, [Next]_vars
  PROVE  NoErrorMemoized'
<1> USE DEF IInv
<1> SUFFICES ASSUME NEW u \in Urls, entries'[u] # NoEntry, heap'[entries'[u]] = "error"
             PROVE  \E l \in Loaders : held'[l] = entries'[u] /\ target'[l].url = u
  BY DEF NoErrorMemoized
<1> DEFINE Goal == \E l \in Loaders : held'[l] = entries'[u] /\ target'[l].url = u
<1>1. ASSUME NEW l \in Loaders, NEW t \in Targets, Lookup(l, t) PROVE Goal
  <2>1. held[l] = NoEntry
        /\ \A m \in Loaders : m # l => held'[m] = held[m] /\ target'[m] = target[m]
    <3>1. pc[l] = "idle" /\ target' = [target EXCEPT ![l] = t] /\ \E e : held' = [held EXCEPT ![l] = e]
      BY <1>1 DEF Lookup
    <3> QED
      BY <3>1 DEF HeldIffActive, TypeOK
  <2>2. entries'[u] = entries[u] /\ heap[entries[u]] = "error"
    <3>1. CASE UNCHANGED <<entries, heap>>
      BY <3>1
    <3>2. ASSUME NEW e \in Entries, Unreferenced(e), entries' = [entries EXCEPT ![t.url] = e],
                 heap' = [heap EXCEPT ![e] = "fresh"]
          PROVE  entries'[u] = entries[u] /\ heap[entries[u]] = "error"
      <4>1. u # t.url
        BY <3>2 DEF TypeOK, Targets
      <4> QED
        BY <3>2, <4>1 DEF TypeOK, Unreferenced
    <3> QED
      BY <1>1, <3>1, <3>2 DEF Lookup
  <2>3. PICK m \in Loaders : held[m] = entries[u] /\ target[m].url = u
    BY <2>2 DEF NoErrorMemoized
  <2> QED
    BY <2>1, <2>2, <2>3
<1>2. ASSUME NEW l \in Loaders, OnceRun(l) PROVE Goal
  <2>1. UNCHANGED <<entries, held, target>> /\ held[l] \in Entries /\ heap' = [heap EXCEPT ![held[l]] = "building"]
    BY <1>2 DEF OnceRun, cacheVars, loaderVars, HeldIffActive, TypeOK
  <2>2. heap[entries[u]] = "error"
    BY <2>1 DEF TypeOK
  <2> QED
    BY <2>1, <2>2 DEF NoErrorMemoized
<1>3. ASSUME NEW l \in Loaders, FetchDone(l) PROVE Goal
  <2>1. UNCHANGED <<entries, held, target>> /\ held[l] \in Entries
        /\ \E r : heap' = [heap EXCEPT ![held[l]] = r]
    BY <1>3 DEF FetchDone, cacheVars, loaderVars, HeldIffActive, TypeOK
  <2>2. CASE held[l] = entries[u]
    <3>1. target[l].url = u
      BY <1>3, <2>2 DEF FetchDone, OneUrlPerEntry
    <3> QED
      BY <2>1, <2>2, <3>1
  <2>3. CASE held[l] # entries[u]
    BY <2>1, <2>3 DEF NoErrorMemoized, TypeOK
  <2> QED
    BY <2>2, <2>3
<1>4. ASSUME NEW l \in Loaders, OnceWait(l) PROVE Goal
  BY <1>4 DEF OnceWait, cacheVars, loaderVars, NoErrorMemoized
<1>5. ASSUME NEW l \in Loaders, Settle(l) PROVE Goal
  <2>1. heap' = heap /\ target' = target /\ pc[l] = "settle" /\ held' = [held EXCEPT ![l] = NoEntry]
    BY <1>5 DEF Settle
  <2>2. entries'[u] = entries[u]
    BY <1>5, SettleRemoves
  <2>3. PICK m \in Loaders : held[m] = entries[u] /\ target[m].url = u
    BY <2>1, <2>2 DEF NoErrorMemoized
  <2>4. m # l
    <3>1. SUFFICES ASSUME m = l PROVE FALSE
      OBVIOUS
    <3>2. Drops(l) /\ target[l].url = u
      BY <2>1, <2>2, <2>3, <3>1 DEF Drops, Current, Verdict
    <3>3. entries' = [entries EXCEPT ![u] = NoEntry]
      BY <1>5, <2>1, <2>2, <2>3, <3>1, <3>2 DEF Settle, Registers
    <3> QED
      BY <3>3 DEF TypeOK
  <2> QED
    BY <2>1, <2>2, <2>3, <2>4 DEF TypeOK
<1>6. CASE CdnToggle \/ (\E v \in Urls : Publish(v)) \/ UNCHANGED vars
  BY <1>6 DEF CdnToggle, Publish, vars, cacheVars, loaderVars, NoErrorMemoized
<1> QED
  BY <1>1, <1>2, <1>3, <1>4, <1>5, <1>6 DEF Next

(* A failure the map still holds always has a request that will drop it.    *)
THEOREM FailuresAreForgotten == Spec => []NoErrorMemoized
<1>1. Init => NoErrorMemoized
  BY DEF Init, NoErrorMemoized
<1>2. IInv /\ NoErrorMemoized /\ [Next]_vars => NoErrorMemoized'
  BY ErrorStep
<1> QED
  BY <1>1, <1>2, Inductive, PTL DEF Spec

(* Only a settling request that the manifest lists the URL for forgets an   *)
(* absence: no eviction, failure or flat probe can.                         *)
THEOREM AbsenceIsKept == Spec => AbsenceStands
<1> DEFINE Kept1(u) ==
      entries[u] # NoEntry /\ heap[entries[u]] = "absent" /\ entries'[u] # entries[u]
        => \E l \in Loaders : /\ pc[l] = "settle" /\ pc'[l] = "idle"
                              /\ target[l] = [url |-> u, listed |-> TRUE]
<1>1. IInv /\ [Next]_vars => [\A u \in Urls : Kept1(u)]_vars
  <2> SUFFICES ASSUME IInv, Next, NEW u \in Urls, entries[u] # NoEntry,
                      heap[entries[u]] = "absent", entries'[u] # entries[u]
               PROVE  \E l \in Loaders : /\ pc[l] = "settle" /\ pc'[l] = "idle"
                                         /\ target[l] = [url |-> u, listed |-> TRUE]
    OBVIOUS
  <2>1. ASSUME NEW l \in Loaders, NEW t \in Targets, Lookup(l, t) PROVE FALSE
    <3>1. CASE UNCHANGED entries
      BY <3>1
    <3>2. ASSUME NEW e, entries[t.url] = NoEntry, entries' = [entries EXCEPT ![t.url] = e] PROVE FALSE
      BY <3>2 DEF IInv, TypeOK
    <3> QED
      BY <2>1, <3>1, <3>2 DEF Lookup
  <2>2. PICK l \in Loaders : Settle(l)
    BY <2>1 DEF Next, OnceRun, FetchDone, OnceWait, CdnToggle, Publish, cacheVars
  <2>3. u = target[l].url /\ Drops(l) /\ entries[u] = held[l]
    BY <2>2, SettleRemoves
  <2>4. target[l] \in Targets /\ pc[l] = "settle" /\ pc' = [pc EXCEPT ![l] = "idle"]
    BY <2>2 DEF Settle, IInv, TypeOK
  <2>5. target[l].listed = TRUE
    BY <2>3, <2>4 DEF Drops, Verdict, Targets
  <2> QED
    BY <2>3, <2>4, <2>5 DEF Targets, IInv, TypeOK
<1> QED
  BY <1>1, Inductive, PTL DEF Spec, AbsenceStands

(* What the map keeps is accounted for, for every instance.                 *)
THEOREM CacheIsCoherent == Spec => []CacheCoherent
<1>1. IInv => TypeOK
  BY DEF IInv
<1>2. TypeOK /\ LruSound /\ MeshAccounted /\ NoErrorMemoized => CacheCoherent
  BY DEF CacheCoherent
<1> QED
  BY <1>1, <1>2, Inductive, LruIsSound, NoMeshEscapesTheBound, FailuresAreForgotten, PTL
-----------------------------------------------------------------------------
(* Bvh. *)

(* The permutations of the triangles' places. *)
Perms(n) ==
  {p \in [1 .. n -> 1 .. n] : /\ \A i, j \in 1 .. n : p[i] = p[j] => i = j
                              /\ \A v \in 1 .. n : \E i \in 1 .. n : p[i] = v}

Boxes == [lo : [Axes -> Int], hi : [Axes -> Int]]
Nodes == [box : Boxes, count : Nat, index : Nat, axis : 0 .. 2]
Calls == [start : Nat \ {0}, n : Nat \ {0}, depth : 0 .. MaxDepth, parent : Nat]

(* The call that made a node, and where its run was split. *)
Makings == [start : Nat \ {0}, n : Nat \ {0}, depth : 0 .. MaxDepth, mid : Nat]

RunOf(c) == c.start .. c.start + c.n - 1

IsFor(c, start, n, depth) == c.start = start /\ c.n = n /\ c.depth = depth

Bounds(box, t) == \A a \in Axes : box.lo[a] <= Lowest(t, a) /\ Highest(t, a) <= box.hi[a]

BvhType ==
  /\ mesh \in Meshes
  /\ tris \in Seq(Triangles) /\ Len(tris) = Len(mesh)
  /\ nodes \in Seq(Nodes)
  /\ refs \in [DOMAIN mesh -> 0 .. Len(mesh)]
  /\ calls \in Seq(Calls)
  /\ first \in Nat \ {0} /\ hole \in 0 .. Len(mesh)
  /\ ray \in Rays \cup {NoRay}
  /\ walk \in {"split", "place", "ready", "walking", "done"}
  /\ node \in Nat /\ stack \in Seq(Nat) /\ best \in Int /\ hit \in 0 .. Len(mesh)

(* The left child of a node comes next, and the right one is there or is to  *)
(* be made.                                                                  *)
LeftMade(made, k) ==
  LET m == made[k]
  IN  IF k < Len(nodes) THEN IsFor(made[k + 1], m.start, m.mid, m.depth + 1)
      ELSE calls # <<>> /\ Last(calls) = Call(m.start, m.mid, m.depth + 1, 0)

RightIsFor(made, k, c) ==
  IsFor(c, made[k].start + made[k].mid, made[k].n - made[k].mid, made[k].depth + 1)

RightMade(made, k) ==
  \/ nodes[k].index \in k + 2 .. Len(nodes) /\ RightIsFor(made, k, made[nodes[k].index])
  \/ nodes[k].index = 0 /\ \E i \in DOMAIN calls : calls[i].parent = k

NodeMade(made, k) ==
  LET m == made[k]
  IN  /\ m.start + m.n - 1 <= Len(mesh)
      /\ nodes[k].count > 0 => nodes[k].index = m.start /\ nodes[k].count = m.n
      /\ nodes[k].count = 0 =>
            /\ m.mid \in 1 .. m.n - 1 /\ m.depth < MaxDepth /\ nodes[k].axis \in Axes
            /\ LeftMade(made, k) /\ RightMade(made, k)

CallsMade(made) ==
  /\ \A i \in DOMAIN calls :
       /\ calls[i].start + calls[i].n - 1 <= Len(mesh)
       /\ calls[i].parent # 0 => /\ calls[i].parent \in DOMAIN nodes
                                 /\ nodes[calls[i].parent].count = 0
                                 /\ RightIsFor(made, calls[i].parent, calls[i])
       /\ \A k \in DOMAIN nodes : \/ RunOf(calls[i]) \subseteq RunOf(made[k])
                                  \/ RunOf(calls[i]) \cap RunOf(made[k]) = {}
  /\ \A i, j \in DOMAIN calls : i # j => RunOf(calls[i]) \cap RunOf(calls[j]) = {}

RootMade(made) ==
  mesh # <<>> => IF nodes = <<>> THEN calls = <<Call(1, Len(mesh), 0, 0)>>
                 ELSE IsFor(made[1], 1, Len(mesh), 0)

(* The calls that made the nodes, and those that remain. *)
Grown(made) ==
  /\ made \in [DOMAIN nodes -> Makings]
  /\ \A k \in DOMAIN nodes : NodeMade(made, k)
  /\ CallsMade(made)
  /\ RootMade(made)

(* A node's box is around the triangles of its run. *)
Fitted(made, p) ==
  \A k \in DOMAIN nodes : \A i \in RunOf(made[k]) : Bounds(nodes[k].box, mesh[p[i]])

(* The cycles placed so far, and the part of the current one. *)
Placing(p) ==
  /\ \A i \in DOMAIN mesh :
       /\ refs[i] = Placed => tris[i] = mesh[p[i]]
       /\ refs[i] # Placed => refs[i] = p[i] /\ tris[i] = mesh[i]
       /\ i < first => refs[i] = Placed
  /\ hole = 0 => \A i \in DOMAIN mesh : refs[i] # Placed => refs[p[i]] # Placed
  /\ hole # 0 =>
       /\ first <= Len(mesh) /\ saved = mesh[first] /\ refs[hole] # Placed
       /\ \A i \in DOMAIN mesh : refs[i] # Placed => p[i] = first \/ refs[p[i]] # Placed
       /\ hole # first => /\ refs[first] = Placed
                          /\ \A i \in DOMAIN mesh : refs[i] # Placed => p[i] # hole

(* Only these triangles are met nearer than w. *)
MeetsOnly(S, w) ==
  \A i \in DOMAIN mesh : \A d \in Crossings(ray, tris[i]) : ray.low < d /\ d < w => i \in S

(* The best so far. *)
Found(b, h) ==
  IF h = 0 THEN b = ray.high
  ELSE /\ ~ray.any /\ h \in DOMAIN tris
       /\ b \in Crossings(ray, tris[h]) /\ ray.low < b /\ b < ray.high

(* What a ray has not come to yet. *)
OnStack(made) == UNION {RunOf(made[stack[s]]) : s \in DOMAIN stack}

(* A ray on its way: what it may still meet is in its node or on the stack,  *)
(* which is no longer than the node is deep.                                 *)
Walking(made) ==
  /\ ray \in Rays /\ mesh # <<>>
  /\ node \in DOMAIN nodes /\ \A s \in DOMAIN stack : stack[s] \in DOMAIN nodes
  /\ made[node].depth >= Len(stack)
  /\ \A s \in DOMAIN stack : made[stack[s]].depth >= s
  /\ MeetsOnly(RunOf(made[node]) \cup OnStack(made), Within)
  /\ Found(best, hit)

TreeInv(made, p) ==
  /\ Grown(made) /\ Fitted(made, p)
  /\ walk = "split" => refs = p /\ tris = mesh /\ first = 1 /\ hole = 0
  /\ walk # "split" => calls = <<>>
  /\ walk = "place" => Placing(p)
  /\ walk \in {"ready", "walking", "done"} => \A i \in DOMAIN mesh : tris[i] = mesh[p[i]]
  /\ walk \notin {"walking", "done"} => node = 1 /\ stack = <<>> /\ hit = 0
  /\ walk = "walking" => Walking(made)

-----------------------------------------------------------------------------
(* Boxes. *)

\* The least and the greatest of finitely many values.
LEMMA Extremes ==
    ASSUME NEW P, IsFiniteSet(P), P # {}, NEW f \in [P -> Int]
    PROVE  LET S == {f[x] : x \in P}
           IN  /\ Min(S) \in Int /\ \A x \in P : Min(S) <= f[x]
               /\ Max(S) \in Int /\ \A x \in P : f[x] <= Max(S)
               /\ \E x \in P : Min(S) = f[x]
<1> DEFINE S == {f[x] : x \in P}
           Up   == {x \in S \X S : x[1] < x[2]}
           Down == {x \in S \X S : x[2] < x[1]}
<1>1. IsFiniteSet(S) /\ S # {} /\ S \subseteq Int
  <2>1. f \in Surjection(P, S)
    BY DEF Surjection
  <2>. QED
    BY <2>1, FS_Surjection
<1>. HIDE DEF S
<1>2. TotalOrder(S, Up)
  BY <1>1 DEF TotalOrder
<1>3. TotalOrder(S, Down)
  BY <1>1 DEF TotalOrder
<1>. HIDE DEF Up, Down
<1>4. \E m \in S : \A q \in S \ {m} : <<m, q>> \in Up
  BY <1>1, <1>2, FirstOf
<1>5. \E h \in S : \A q \in S \ {h} : <<h, q>> \in Down
  BY <1>1, <1>3, FirstOf
<1>6. PICK m \in S, h \in S : \A q \in S : (q # m => <<m, q>> \in Up) /\ (q # h => <<h, q>> \in Down)
  BY <1>4, <1>5
<1>7. ASSUME NEW q \in S PROVE m <= q /\ h >= q
  <2>1. m = q \/ m < q
    BY <1>6 DEF Up
  <2>2. h = q \/ q < h
    BY <1>6 DEF Down
  <2>. QED
    BY <1>1, <2>1, <2>2
<1>8. Min(S) \in S /\ \A q \in S : Min(S) <= q
  BY <1>7 DEF Min
<1>9. Max(S) \in S /\ \A q \in S : Max(S) >= q
  BY <1>7 DEF Max
<1>. QED
  BY <1>1, <1>8, <1>9 DEF S

LEMMA Spans ==
    ASSUME NEW t \in Triangles, NEW a \in Axes
    PROVE  Lowest(t, a) \in Int /\ Highest(t, a) \in Int /\ Centre(t, a) \in Int
<1> DEFINE f == [c \in {1, 2} |-> t[c][a]]
<1>1. DOMAIN t = {1, 2} /\ f \in [{1, 2} -> Int]
  BY DEF Triangles, Corners, Axes
<1>2. IsFiniteSet({1, 2})
  <2>1. {1, 2} = 1 .. 2
    OBVIOUS
  <2>. QED
    BY <2>1, OneTo
<1>3. {t[c][a] : c \in DOMAIN t} = {f[c] : c \in {1, 2}}
  BY <1>1
<1>4. Centre(t, a) \in Int
  BY <1>1 DEF Centre
<1>. HIDE DEF f
<1>5. Min({f[c] : c \in {1, 2}}) \in Int /\ Max({f[c] : c \in {1, 2}}) \in Int
  BY <1>1, <1>2, Extremes
<1>. QED
  BY <1>3, <1>4, <1>5 DEF Lowest, Highest

\* The box of some triangles is around each of them.
LEMMA BoxIs ==
    ASSUME NEW ts \in Seq(Triangles), NEW P \in SUBSET DOMAIN ts, P # {}
    PROVE  /\ IsFiniteSet(P) /\ BoxOf(ts, P) \in Boxes
           /\ \A i \in P : Bounds(BoxOf(ts, P), ts[i])
           /\ Area(BoxOf(ts, P)) \in Int
<1> DEFINE lo(a) == [i \in P |-> Lowest(ts[i], a)]
           hi(a) == [i \in P |-> Highest(ts[i], a)]
           box == BoxOf(ts, P)
<1>1. IsFiniteSet(P)
  <2>1. DOMAIN ts = 1 .. Len(ts) /\ Len(ts) \in Nat
    OBVIOUS
  <2>. QED
    BY <2>1, OneTo, FS_Subset
<1>2. ASSUME NEW a \in Axes
      PROVE  /\ box.lo[a] \in Int /\ box.hi[a] \in Int
             /\ \A i \in P : box.lo[a] <= Lowest(ts[i], a) /\ Highest(ts[i], a) <= box.hi[a]
  <2>1. \A i \in P : ts[i] \in Triangles
    OBVIOUS
  <2>2. lo(a) \in [P -> Int] /\ hi(a) \in [P -> Int]
    BY <2>1, Spans
  <2>3. /\ box.lo[a] = Min({lo(a)[i] : i \in P})
        /\ box.hi[a] = Max({hi(a)[i] : i \in P})
    <3>1. /\ {Lowest(ts[i], a) : i \in P} = {lo(a)[i] : i \in P}
          /\ {Highest(ts[i], a) : i \in P} = {hi(a)[i] : i \in P}
      OBVIOUS
    <3>. QED
      BY <3>1 DEF BoxOf
  <2> DEFINE l == lo(a)
             h == hi(a)
  <2>4. \A i \in P : l[i] = Lowest(ts[i], a) /\ h[i] = Highest(ts[i], a)
    OBVIOUS
  <2>. HIDE DEF l, h
  <2>5. /\ Min({l[i] : i \in P}) \in Int /\ Max({h[i] : i \in P}) \in Int
        /\ \A k \in P : Min({l[i] : i \in P}) <= l[k] /\ h[k] <= Max({h[i] : i \in P})
    <3>1. l \in [P -> Int] /\ h \in [P -> Int]
      BY <2>2 DEF l, h
    <3>. QED
      BY <1>1, <3>1, Extremes
  <2>6. box.lo[a] = Min({l[i] : i \in P}) /\ box.hi[a] = Max({h[i] : i \in P})
    BY <2>3 DEF l, h
  <2>. HIDE DEF box
  <2>. QED
    BY <2>4, <2>5, <2>6
<1>3. \A i \in P : Bounds(box, ts[i])
  BY <1>2 DEF Bounds
<1>4. box \in Boxes
  <2>1. /\ box = [lo |-> box.lo, hi |-> box.hi]
        /\ box.lo = [a \in Axes |-> box.lo[a]] /\ box.hi = [a \in Axes |-> box.hi[a]]
    BY DEF BoxOf
  <2>. HIDE DEF box
  <2>2. box.lo \in [Axes -> Int] /\ box.hi \in [Axes -> Int]
    BY <1>2, <2>1
  <2>. QED
    BY <2>1, <2>2 DEF Boxes
<1>5. Area(box) \in Int
  <2>. HIDE DEF box
  <2>1. /\ box.lo[1] \in Int /\ box.lo[2] \in Int /\ box.hi[1] \in Int /\ box.hi[2] \in Int
    BY <1>4 DEF Boxes, Axes
  <2>. QED
    BY <2>1 DEF Area
<1>. QED
  BY <1>1, <1>3, <1>4, <1>5

-----------------------------------------------------------------------------
(* Splitting. *)

\* Where some of the centres differ the bins are numbers.
LEMMA BinIs ==
    ASSUME BvhAssumption, NEW ts \in Seq(Triangles), NEW P \in SUBSET DOMAIN ts, NEW a \in Axes,
           \E i, k \in P : Centre(ts[i], a) # Centre(ts[k], a)
    PROVE  \A i \in P : BinOf(ts, P, i, a) \in Int
<1> DEFINE f == [k \in P |-> Centre(ts[k], a)]
           centres == {Centre(ts[k], a) : k \in P}
           lo == Min(centres)
           hi == Max(centres)
<1>1. IsFiniteSet(P) /\ P # {}
  BY BoxIs
<1>2. f \in [P -> Int]
  <2>1. \A i \in P : ts[i] \in Triangles
    OBVIOUS
  <2>. QED
    BY <2>1, Spans
<1>3. centres = {f[k] : k \in P}
  OBVIOUS
<1>4. \A i \in P : f[i] = Centre(ts[i], a)
  OBVIOUS
<1>. HIDE DEF f, centres
<1>5. lo \in Int /\ hi \in Int /\ \A i \in P : lo <= f[i] /\ f[i] <= hi
  <2>1. LET S == {f[x] : x \in P}
        IN  Min(S) \in Int /\ Max(S) \in Int /\ \A i \in P : Min(S) <= f[i] /\ f[i] <= Max(S)
    BY <1>1, <1>2, Extremes
  <2>. QED
    BY <1>3, <2>1
<1>. HIDE DEF lo, hi
<1>6. hi - lo > 0
  <2>1. PICK i \in P, k \in P : f[i] # f[k]
    BY <1>4
  <2>2. f[i] \in Int /\ f[k] \in Int
    BY <1>2
  <2>. QED
    BY <1>5, <2>1, <2>2
<1>7. ASSUME NEW i \in P PROVE BinOf(ts, P, i, a) \in Int
  <2> DEFINE m == (f[i] - lo) * Bins
             k == m \div (hi - lo)
  <2>1. BinOf(ts, P, i, a) = IF k >= Bins THEN Bins - 1 ELSE k
    BY <1>4 DEF BinOf, centres, lo, hi
  <2>2. m \in Int
    <3>1. f[i] \in Int /\ Bins \in Int
      BY <1>2, BvhAssumption
    <3>. QED
      BY <1>5, <3>1
  <2>. HIDE DEF m
  <2>3. k \in Int
    <3> DEFINE d == hi - lo
    <3>1. d \in Nat \ {0}
      BY <1>5, <1>6
    <3>. HIDE DEF d
    <3>2. m \div d \in Int
      BY <2>2, <3>1
    <3>. QED
      BY <3>2 DEF d
  <2>. HIDE DEF k
  <2>. QED
    BY <2>1, <2>3, BvhAssumption
<1>. QED
  BY <1>7

\* A plane has triangles on both sides, and its price is a number.
LEMMA PlaneSplits ==
    ASSUME BvhAssumption, NEW ts \in Seq(Triangles), NEW P \in SUBSET DOMAIN ts,
           NEW s \in Planes(ts, P)
    PROVE  LET left == Left(ts, P, s)
           IN  /\ s \in Axes \X (1 .. Bins - 1)
               /\ left \in SUBSET P /\ left # {} /\ left # P
               /\ Price(ts, P, s) \in Int
<1> DEFINE left == Left(ts, P, s)
           a == s[1]
<1>1. /\ s \in Axes \X (1 .. Bins - 1)
      /\ \E i, k \in P : Centre(ts[i], a) # Centre(ts[k], a)
      /\ \E i \in P : BinOf(ts, P, i, a) < s[2]
      /\ \E i \in P : BinOf(ts, P, i, a) >= s[2]
  BY DEF Planes
<1>2. a \in Axes /\ s[2] \in Int
  BY <1>1, BvhAssumption
<1>3. \A i \in P : BinOf(ts, P, i, a) \in Int
  BY <1>1, <1>2, BinIs
<1>4. left \in SUBSET P /\ left # {} /\ left # P
  BY <1>1, <1>2, <1>3 DEF Left
<1>. HIDE DEF left, a
<1>5. ASSUME NEW side \in SUBSET P, side # {}
      PROVE  Area(BoxOf(ts, side)) * Cardinality(side) \in Int
  <2>1. side \in SUBSET DOMAIN ts
    OBVIOUS
  <2>2. IsFiniteSet(side) /\ Area(BoxOf(ts, side)) \in Int
    BY <1>5, <2>1, BoxIs
  <2>3. Cardinality(side) \in Nat
    BY <2>2, FS_CardinalityType
  <2>. QED
    BY <2>2, <2>3
<1>6. Price(ts, P, s) \in Int
  <2>1. P \ left \in SUBSET P /\ P \ left # {}
    BY <1>4
  <2>2. /\ Area(BoxOf(ts, left)) * Cardinality(left) \in Int
        /\ Area(BoxOf(ts, P \ left)) * Cardinality(P \ left) \in Int
    BY <1>4, <1>5, <2>1
  <2>. QED
    BY <2>2 DEF Price, left
<1>. QED
  BY <1>1, <1>4, <1>6 DEF left

\* The plane chosen is one of them.
LEMMA SahSplitIs ==
    ASSUME BvhAssumption, NEW ts \in Seq(Triangles), NEW P \in SUBSET DOMAIN ts,
           Planes(ts, P) # {}
    PROVE  SahSplit(ts, P) \in Planes(ts, P)
<1> DEFINE S == Planes(ts, P)
           W == Axes \X (1 .. Bins - 1)
           price(s) == Price(ts, P, s)
           Cheaper(s, q) == \/ price(s) < price(q)
                            \/ /\ price(s) = price(q)
                               /\ (s[1] < q[1] \/ (s[1] = q[1] /\ s[2] < q[2]))
           R == {x \in S \X S : Cheaper(x[1], x[2])}
<1>1. S \subseteq W /\ \A s \in S : price(s) \in Int
  BY PlaneSplits
<1>2. IsFiniteSet(S)
  <2>1. Axes = 1 .. 2
    BY DEF Axes
  <2>2. Bins - 1 \in Int
    BY BvhAssumption
  <2>3. IsFiniteSet(Axes) /\ IsFiniteSet(1 .. Bins - 1)
    <3>1. IsFiniteSet(1 .. 2)
      BY OneTo
    <3>2. 1 \in Int /\ IsFiniteSet(1 .. Bins - 1)
      BY <2>2, FS_Interval
    <3>. QED
      BY <2>1, <3>1, <3>2
  <2>4. IsFiniteSet(W)
    BY <2>3, FS_Product
  <2>. QED
    BY <1>1, <2>4, FS_Subset
<1>. HIDE DEF S, price
<1>3. TotalOrder(S, R)
  <2>1. \A s \in S : /\ s = <<s[1], s[2]>> /\ s[1] \in Int /\ s[2] \in Int /\ price(s) \in Int
    BY <1>1, BvhAssumption DEF Axes
  <2>2. ASSUME NEW s \in S, NEW q \in S, NEW r \in S, Cheaper(s, q), Cheaper(q, r)
        PROVE  Cheaper(s, r)
    BY <2>1, <2>2
  <2>3. ASSUME NEW s \in S, NEW q \in S, s # q PROVE Cheaper(s, q) \/ Cheaper(q, s)
    BY <2>1, <2>3
  <2>4. \A s \in S : ~Cheaper(s, s)
    BY <2>1
  <2>5. \A s, q \in S : <<s, q>> \in R <=> Cheaper(s, q)
    OBVIOUS
  <2>. HIDE DEF R, Cheaper
  <2>. QED
    BY <2>2, <2>3, <2>4, <2>5 DEF TotalOrder
<1>4. PICK s \in S : \A q \in S \ {s} : <<s, q>> \in R
  <2>1. S # {}
    BY DEF S
  <2>. HIDE DEF R
  <2>. QED
    BY <1>2, <1>3, <2>1, FirstOf
<1>5. \A q \in S \ {s} : Cheaper(s, q)
  BY <1>4
<1>6. SahSplit(ts, P) = CHOOSE x \in S : \A q \in S \ {x} : Cheaper(x, q)
  BY DEF SahSplit, S, price
<1>. HIDE DEF Cheaper
<1>. QED
  BY <1>5, <1>6 DEF S

-----------------------------------------------------------------------------
(* Partitioning. *)

(* So far: a permutation of the refs, those before i are left of the plane   *)
(* and those after j are not, and n - 1 - k remain between.                  *)
Settling(x, order, left, k) ==
  LET n == Len(order)
  IN  /\ x.i \in 1 .. n + 1 /\ x.j \in 0 .. n /\ x.j - x.i = n - 1 - k
      /\ \A l \in 1 .. n : (l < x.i => x.order[l] \in left) /\ (l > x.j => x.order[l] \notin left)
      /\ \E q \in Perms(n) : x.order = [l \in 1 .. n |-> order[q[l]]]

LEMMA Swapped ==
    ASSUME NEW n \in Nat, NEW q \in Perms(n), NEW i \in 1 .. n, NEW j \in 1 .. n
    PROVE  [q EXCEPT ![i] = q[j], ![j] = q[i]] \in Perms(n)
<1> DEFINE r == [q EXCEPT ![i] = q[j], ![j] = q[i]]
<1>1. /\ q \in [1 .. n -> 1 .. n] /\ \A k, l \in 1 .. n : q[k] = q[l] => k = l
      /\ \A v \in 1 .. n : \E k \in 1 .. n : q[k] = v
  BY DEF Perms
<1>2. /\ r \in [1 .. n -> 1 .. n]
      /\ \A k \in 1 .. n : r[k] = IF k = j THEN q[i] ELSE IF k = i THEN q[j] ELSE q[k]
  BY <1>1
<1>. HIDE DEF r
<1>3. \A k, l \in 1 .. n : r[k] = r[l] => k = l
  BY <1>1, <1>2
<1>4. ASSUME NEW v \in 1 .. n PROVE \E k \in 1 .. n : r[k] = v
  <2>1. PICK k \in 1 .. n : q[k] = v
    BY <1>1
  <2>. QED
    BY <1>2, <2>1
<1>. QED
  BY <1>2, <1>3, <1>4 DEF Perms, r

LEMMA SettledIs ==
    ASSUME NEW S, NEW order \in Seq(S), NEW left, NEW k \in 1 .. Len(order), NEW x,
           x \in [order : Seq(S), i : Int, j : Int], Settling(x, order, left, k - 1)
    PROVE  /\ Settled(x, left) \in [order : Seq(S), i : Int, j : Int]
           /\ Settling(Settled(x, left), order, left, k)
<1> DEFINE n == Len(order)
           y == Settled(x, left)
<1>1. n \in Nat /\ order \in [1 .. n -> S] /\ k \in 1 .. n
  OBVIOUS
<1>2. PICK q \in Perms(n) : x.order = [l \in 1 .. n |-> order[q[l]]]
  BY DEF Settling
<1>3. /\ x.i \in 1 .. n /\ x.j \in 1 .. n /\ x.j - x.i = n - k
      /\ \A l \in 1 .. n : (l < x.i => x.order[l] \in left) /\ (l > x.j => x.order[l] \notin left)
  BY <1>1 DEF Settling
<1>4. x = [order |-> x.order, i |-> x.i, j |-> x.j] /\ x.order \in Seq(S)
  OBVIOUS
<1>. HIDE DEF n
<1>5. x.order \in [1 .. n -> S]
  <2>1. q \in [1 .. n -> 1 .. n]
    BY DEF Perms
  <2>2. \A l \in 1 .. n : order[q[l]] \in S
    BY <1>1, <2>1
  <2>. QED
    BY <1>2, <2>2
<1>6. CASE x.order[x.i] \in left
  <2>1. y.order = x.order /\ y.i = x.i + 1 /\ y.j = x.j
        /\ y \in [order : Seq(S), i : Int, j : Int]
    BY <1>4, <1>6 DEF Settled
  <2>. HIDE DEF y
  <2>2. \A l \in 1 .. n : l < x.i + 1 => x.order[l] \in left
    BY <1>3, <1>6
  <2>3. x.i + 1 \in 1 .. n + 1 /\ x.j \in 0 .. n /\ x.j - (x.i + 1) = n - 1 - k
    BY <1>1, <1>3
  <2>4. Settling(y, order, left, k)
    BY <1>2, <1>3, <2>1, <2>2, <2>3 DEF Settling, n
  <2>. QED
    BY <2>1, <2>4 DEF y
<1>7. CASE x.order[x.i] \notin left
  <2> DEFINE r == [q EXCEPT ![x.i] = q[x.j], ![x.j] = q[x.i]]
             o == [x.order EXCEPT ![x.i] = x.order[x.j], ![x.j] = x.order[x.i]]
  <2>1. y.order = o /\ y.i = x.i /\ y.j = x.j - 1 /\ y = [order |-> o, i |-> x.i, j |-> x.j - 1]
    BY <1>4, <1>7 DEF Settled
  <2>2. r \in Perms(n)
    BY <1>1, <1>3, Swapped
  <2>3. /\ o \in [1 .. n -> S]
        /\ \A l \in 1 .. n : o[l] = IF l = x.j THEN x.order[x.i]
                                    ELSE IF l = x.i THEN x.order[x.j] ELSE x.order[l]
    BY <1>3, <1>5
  <2>4. o = [l \in 1 .. n |-> order[r[l]]]
    <3>1. q \in [1 .. n -> 1 .. n]
      BY DEF Perms
    <3>2. \A l \in 1 .. n : r[l] = IF l = x.j THEN q[x.i] ELSE IF l = x.i THEN q[x.j] ELSE q[l]
      BY <1>3, <3>1
    <3>. HIDE DEF r, o
    <3>3. ASSUME NEW l \in 1 .. n PROVE o[l] = order[r[l]]
      <4>1. \A m \in 1 .. n : x.order[m] = order[q[m]]
        BY <1>2
      <4>. QED
        BY <1>3, <2>3, <3>2, <4>1
    <3>. QED
      BY <2>3, <3>3
  <2>5. o \in Seq(S)
    <3>. HIDE DEF o
    <3>. QED
      BY <1>1, <2>3
  <2>. HIDE DEF o, r, y
  <2>6. ASSUME NEW l \in 1 .. n
        PROVE  (l < x.i => o[l] \in left) /\ (l > x.j - 1 => o[l] \notin left)
    <3>1. x.i <= x.j
      BY <1>1, <1>3
    <3>2. CASE l < x.i
      <4>1. o[l] = x.order[l]
        BY <2>3, <3>1, <3>2, <1>3
      <4>. QED
        BY <1>3, <3>1, <3>2, <4>1
    <3>3. CASE l > x.j
      <4>1. o[l] = x.order[l]
        BY <2>3, <3>1, <3>3, <1>3
      <4>. QED
        BY <1>3, <3>1, <3>3, <4>1
    <3>4. CASE l = x.j
      <4>1. o[l] = x.order[x.i]
        BY <2>3, <3>4
      <4>. QED
        BY <1>3, <1>7, <3>1, <3>4, <4>1
    <3>5. CASE l >= x.i /\ l < x.j
      BY <1>3, <3>5
    <3>. QED
      BY <1>3, <3>2, <3>3, <3>4, <3>5
  <2>7. /\ x.i \in 1 .. n + 1 /\ x.j - 1 \in 0 .. n /\ (x.j - 1) - x.i = n - 1 - k
    BY <1>1, <1>3
  <2>8. Settling(y, order, left, k)
    BY <2>1, <2>2, <2>4, <2>6, <2>7 DEF Settling, n
  <2>9. y \in [order : Seq(S), i : Int, j : Int]
    BY <1>4, <2>1, <2>5
  <2>. QED
    BY <2>8, <2>9 DEF y
<1>. QED
  BY <1>6, <1>7

\* A partition puts those left of the plane first, and only those.
LEMMA PartitionIs ==
    ASSUME NEW S, NEW order \in Seq(S), NEW left
    PROVE  LET n == Len(order)
               sorted == Partition(order, left)
           IN  /\ sorted \in Seq(S) /\ Len(sorted) = n
               /\ \E q \in Perms(n) : \A k \in 1 .. n : sorted[k] = order[q[k]]
               /\ \E m \in 0 .. n : \A k \in 1 .. n : sorted[k] \in left <=> k <= m
<1> DEFINE n == Len(order)
           X == [order : Seq(S), i : Int, j : Int]
           begin == [order |-> order, i |-> 1, j |-> n]
           turn(x) == Settled(x, left)
           g == [k \in 1 .. n |-> [x \in X |-> IF turn(x) \in X THEN turn(x) ELSE x]]
           Is(f) == f = [k \in 0 .. n |-> IF k = 0 THEN begin ELSE turn(f[k - 1])]
           part == CHOOSE f : Is(f)
           Good(f) == {k \in 0 .. n : f[k] \in X /\ Settling(f[k], order, left, k)}
<1>1. n \in Nat /\ begin \in X
  OBVIOUS
<1>2. Settling(begin, order, left, 0)
  <2> DEFINE id == [l \in 1 .. n |-> l]
  <2>1. id \in Perms(n) /\ order = [l \in 1 .. n |-> order[id[l]]]
    BY DEF Perms
  <2>. HIDE DEF id
  <2>. QED
    BY <1>1, <2>1 DEF Settling
<1>. HIDE DEF X, begin
<1>3. ASSUME NEW f, f[0] = begin, \A k \in 1 .. n : f[k - 1] \in X /\ turn(f[k - 1]) \in X => f[k] = turn(f[k - 1])
      PROVE  0 .. n \subseteq Good(f)
  <2>1. 0 \in Good(f)
    BY <1>1, <1>2, <1>3
  <2>2. ASSUME NEW k \in 1 .. n, k - 1 \in Good(f) PROVE k \in Good(f)
    <3>1. f[k - 1] \in X /\ Settling(f[k - 1], order, left, k - 1)
      BY <2>2
    <3>2. turn(f[k - 1]) \in X /\ Settling(turn(f[k - 1]), order, left, k)
      BY <3>1, SettledIs DEF X
    <3>3. f[k] = turn(f[k - 1]) /\ k \in 0 .. n
      BY <1>1, <1>3, <3>1, <3>2
    <3>. QED
      BY <3>2, <3>3
  <2>. HIDE DEF Good
  <2>. QED
    BY <1>1, <2>1, <2>2, UpTo
<1>4. \E f : Is(f)
  <2>1. g \in Strides(n, X)
    BY DEF Strides
  <2>2. PICK f : IsWalk(n, X, begin, g, f)
    <3>. HIDE DEF g
    <3>. QED
      BY <1>1, <2>1, Walk
  <2>3. /\ f \in [0 .. n -> X] /\ f[0] = begin
        /\ \A k \in 1 .. n : f[k] = g[k][f[k - 1]]
    BY <2>2 DEF IsWalk
  <2>4. \A k \in 1 .. n : f[k - 1] \in X /\ turn(f[k - 1]) \in X => f[k] = turn(f[k - 1])
    BY <2>3
  <2>. HIDE DEF turn
  <2>5. 0 .. n \subseteq Good(f)
    BY <1>3, <2>3, <2>4
  <2>6. ASSUME NEW k \in 1 .. n PROVE f[k] = turn(f[k - 1])
    <3>1. k - 1 \in 0 .. n
      BY <1>1
    <3>2. f[k - 1] \in X /\ Settling(f[k - 1], order, left, k - 1)
      BY <2>5, <3>1
    <3>3. turn(f[k - 1]) \in X
      BY <3>2, SettledIs DEF X, turn
    <3>. QED
      BY <2>4, <3>2, <3>3
  <2>7. \A k \in 0 .. n : f[k] = IF k = 0 THEN begin ELSE turn(f[k - 1])
    BY <1>1, <2>3, <2>6
  <2>8. Is(f)
    BY <2>3, <2>7
  <2>. QED
    BY <2>8
<1>5. Partition(order, left) = part[n].order
  BY DEF Partition, begin
<1>6. Is(part)
  BY <1>4
<1>. HIDE DEF part
<1>7. /\ part[0] = begin
      /\ \A k \in 1 .. n : part[k - 1] \in X /\ turn(part[k - 1]) \in X => part[k] = turn(part[k - 1])
  <2>. HIDE DEF turn
  <2>. QED
    BY <1>1, <1>6
<1>8. 0 .. n \subseteq Good(part)
  <2>. HIDE DEF turn, Good
  <2>. QED
    BY <1>3, <1>7
<1> DEFINE x == part[n]
<1>9. x \in X /\ Settling(x, order, left, n)
  BY <1>1, <1>8
<1>. HIDE DEF x
<1>10. PICK q \in Perms(n) : x.order = [l \in 1 .. n |-> order[q[l]]]
  BY <1>9 DEF Settling
<1>11. x.order \in Seq(S) /\ Len(x.order) = n
  <2>1. x.order \in Seq(S)
    BY <1>9 DEF X
  <2>. QED
    BY <1>1, <1>10, <2>1
<1>12. /\ x.i - 1 \in 0 .. n /\ \A k \in 1 .. n : x.order[k] \in left <=> k <= x.i - 1
  BY <1>1, <1>9 DEF Settling
<1>13. \A k \in 1 .. n : x.order[k] = order[q[k]]
  BY <1>10
<1>. QED
  BY <1>5, <1>11, <1>12, <1>13 DEF x

-----------------------------------------------------------------------------
(* A call of buildNode. *)

\* Two sequences, one after the other.
LEMMA JoinedIs ==
    ASSUME NEW S, NEW a \in Seq(S), NEW b \in Seq(S)
    PROVE  /\ a \o b \in Seq(S) /\ Len(a \o b) = Len(a) + Len(b)
           /\ \A i \in 1 .. Len(a) : (a \o b)[i] = a[i]
           /\ \A i \in Len(a) + 1 .. Len(a) + Len(b) : (a \o b)[i] = b[i - Len(a)]
<1>1. /\ a \o b \in Seq(S) /\ Len(a \o b) = Len(a) + Len(b)
      /\ \A i \in 1 .. Len(a) + Len(b) : (a \o b)[i] = IF i <= Len(a) THEN a[i] ELSE b[i - Len(a)]
  BY ConcatProperties
<1>2. Len(a) \in Nat /\ Len(b) \in Nat
  BY LenProperties
<1>. QED
  BY <1>1, <1>2

(* The refs s are the refs r, with a run of them put in another order.      *)
IsSplice(N, r, start, n, q, sorted, s) ==
  /\ N \in Nat /\ r \in Perms(N) /\ start \in Nat \ {0} /\ n \in Nat \ {0}
  /\ start + n - 1 <= N
  /\ sorted \in Seq(1 .. N) /\ Len(sorted) = n /\ q \in Perms(n)
  /\ \A k \in 1 .. n : sorted[k] = r[start + q[k] - 1]
  /\ s = SubSeq(r, 1, start - 1) \o sorted \o SubSeq(r, start + n, Len(r))

LEMMA Spliced ==
    ASSUME NEW N, NEW r, NEW start, NEW n, NEW q, NEW sorted, NEW s,
           IsSplice(N, r, start, n, q, sorted, s)
    PROVE  /\ s \in Perms(N)
           /\ \A i \in (1 .. N) \ (start .. start + n - 1) : s[i] = r[i]
           /\ \A i \in start .. start + n - 1 : \E j \in start .. start + n - 1 : s[i] = r[j]
<1>. /\ N \in Nat /\ start \in Nat \ {0} /\ n \in Nat \ {0} /\ start + n - 1 <= N
     /\ r \in Perms(N) /\ q \in Perms(n)
     /\ sorted \in Seq(1 .. N) /\ Len(sorted) = n
     /\ \A k \in 1 .. n : sorted[k] = r[start + q[k] - 1]
  BY DEF IsSplice
<1> DEFINE A == SubSeq(r, 1, start - 1)
           B == SubSeq(r, start + n, Len(r))
<1>0. s = A \o sorted \o B
  BY DEF IsSplice
<1>1. /\ r \in [1 .. N -> 1 .. N] /\ \A i, j \in 1 .. N : r[i] = r[j] => i = j
      /\ \A v \in 1 .. N : \E i \in 1 .. N : r[i] = v
  BY DEF Perms
<1>2. /\ q \in [1 .. n -> 1 .. n] /\ \A i, j \in 1 .. n : q[i] = q[j] => i = j
      /\ \A v \in 1 .. n : \E i \in 1 .. n : q[i] = v
  BY DEF Perms
<1>3. Len(r) = N
  BY <1>1, ASeqOf
<1>4. /\ A \in Seq(1 .. N) /\ Len(A) = start - 1 /\ \A i \in 1 .. start - 1 : A[i] = r[i]
  <2>1. ASSUME NEW i \in 1 .. start - 1 PROVE r[i] \in 1 .. N
    <3>1. i \in 1 .. N
      OBVIOUS
    <3>. QED
      BY <1>1, <3>1
  <2>2. 1 \in Int /\ start - 1 \in Int
    OBVIOUS
  <2>3. /\ A \in Seq(1 .. N) /\ Len(A) = IF 1 <= start - 1 THEN start - 1 - 1 + 1 ELSE 0
        /\ \A i \in 1 .. start - 1 - 1 + 1 : A[i] = r[1 + i - 1]
    BY <2>1, <2>2, SubSeqProperties
  <2>. HIDE DEF A
  <2>4. \A i \in 1 .. start - 1 : i \in 1 .. start - 1 - 1 + 1 /\ 1 + i - 1 = i
    OBVIOUS
  <2>. QED
    BY <2>3, <2>4
<1>5. /\ B \in Seq(1 .. N) /\ Len(B) = N - (start + n) + 1
      /\ \A i \in 1 .. N - (start + n) + 1 : B[i] = r[start + n - 1 + i]
  <2>1. ASSUME NEW i \in start + n .. N PROVE r[i] \in 1 .. N
    <3>1. i \in 1 .. N
      OBVIOUS
    <3>. QED
      BY <1>1, <3>1
  <2>2. start + n \in Int
    OBVIOUS
  <2>3. /\ SubSeq(r, start + n, N) \in Seq(1 .. N)
        /\ Len(SubSeq(r, start + n, N)) = IF start + n <= N THEN N - (start + n) + 1 ELSE 0
        /\ \A i \in 1 .. N - (start + n) + 1 : SubSeq(r, start + n, N)[i] = r[start + n + i - 1]
    BY <2>1, <2>2, SubSeqProperties
  <2>4. B = SubSeq(r, start + n, N)
    BY <1>3
  <2>. HIDE DEF B
  <2>5. \A i \in Int : start + n + i - 1 = start + n - 1 + i
    OBVIOUS
  <2>. QED
    BY <2>3, <2>4, <2>5
<1>. HIDE DEF A, B
<1>6. /\ s \in Seq(1 .. N) /\ Len(s) = N
      /\ \A i \in 1 .. start - 1 : s[i] = r[i]
      /\ \A i \in start .. start + n - 1 : s[i] = sorted[i - start + 1]
      /\ \A i \in start + n .. N : s[i] = r[i]
  <2> DEFINE C == A \o sorted
             m == start - 1
             k == start + n - 1
             l == N - (start + n) + 1
  <2>1. m \in Nat /\ k \in Nat /\ l \in Nat /\ m + n = k /\ k + l = N
    OBVIOUS
  <2>2. A \in Seq(1 .. N) /\ Len(A) = m /\ B \in Seq(1 .. N) /\ Len(B) = l /\ s = C \o B
    BY <1>0, <1>4, <1>5
  <2>3. /\ C \in Seq(1 .. N) /\ Len(C) = k
        /\ \A i \in 1 .. m : C[i] = A[i]
        /\ \A i \in m + 1 .. k : C[i] = sorted[i - m]
    <3>. HIDE DEF m, k
    <3>1. /\ C \in Seq(1 .. N) /\ Len(C) = Len(A) + Len(sorted)
          /\ \A i \in 1 .. Len(A) : C[i] = A[i]
          /\ \A i \in Len(A) + 1 .. Len(A) + Len(sorted) : C[i] = sorted[i - Len(A)]
      BY <2>2, JoinedIs
    <3>. QED
      BY <2>1, <2>2, <3>1
  <2>. HIDE DEF C
  <2>4. /\ s \in Seq(1 .. N) /\ Len(s) = k + l
        /\ \A i \in 1 .. k : s[i] = C[i]
        /\ \A i \in k + 1 .. k + l : s[i] = B[i - k]
    <3>. HIDE DEF m, k, l
    <3>1. /\ s \in Seq(1 .. N) /\ Len(s) = Len(C) + Len(B)
          /\ \A i \in 1 .. Len(C) : s[i] = C[i]
          /\ \A i \in Len(C) + 1 .. Len(C) + Len(B) : s[i] = B[i - Len(C)]
      <4>1. /\ C \o B \in Seq(1 .. N) /\ Len(C \o B) = Len(C) + Len(B)
            /\ \A i \in 1 .. Len(C) : (C \o B)[i] = C[i]
            /\ \A i \in Len(C) + 1 .. Len(C) + Len(B) : (C \o B)[i] = B[i - Len(C)]
        <5>1. C \in Seq(1 .. N) /\ B \in Seq(1 .. N)
          BY <2>2, <2>3
        <5>. QED
          BY <5>1, JoinedIs
      <4>. QED
        BY <2>2, <4>1
    <3>. QED
      BY <2>1, <2>2, <2>3, <3>1
  <2>5. ASSUME NEW i \in 1 .. start - 1 PROVE s[i] = r[i]
    <3>1. i \in 1 .. m /\ i \in 1 .. k
      OBVIOUS
    <3>2. A[i] = r[i]
      BY <1>4
    <3>. HIDE DEF m, k
    <3>. QED
      BY <2>3, <2>4, <3>1, <3>2
  <2>6. ASSUME NEW i \in start .. start + n - 1 PROVE s[i] = sorted[i - start + 1]
    <3>1. i \in m + 1 .. k /\ i \in 1 .. k /\ i - m = i - start + 1
      OBVIOUS
    <3>. HIDE DEF m, k
    <3>. QED
      BY <2>3, <2>4, <3>1
  <2>7. ASSUME NEW i \in start + n .. N PROVE s[i] = r[i]
    <3>1. /\ i \in k + 1 .. k + l /\ i - k \in 1 .. N - (start + n) + 1
          /\ start + n - 1 + (i - k) = i
      OBVIOUS
    <3>2. B[i - k] = r[start + n - 1 + (i - k)]
      BY <1>5, <3>1
    <3>. HIDE DEF k, l
    <3>. QED
      BY <2>4, <3>1, <3>2
  <2>. HIDE DEF m, k, l
  <2>. QED
    BY <2>1, <2>4, <2>5, <2>6, <2>7
<1>7. /\ \A i \in (1 .. N) \ (start .. start + n - 1) : s[i] = r[i]
      /\ \A i \in start .. start + n - 1 :
            /\ i - start + 1 \in 1 .. n
            /\ start + q[i - start + 1] - 1 \in start .. start + n - 1
            /\ s[i] = r[start + q[i - start + 1] - 1]
  <2>1. \A i \in start .. start + n - 1 : i - start + 1 \in 1 .. n
    OBVIOUS
  <2>2. ASSUME NEW k \in 1 .. n PROVE start + q[k] - 1 \in start .. start + n - 1
    <3>1. q[k] \in 1 .. n
      BY <1>2
    <3>. QED
      BY <3>1
  <2>3. \A i \in (1 .. N) \ (start .. start + n - 1) : i \in 1 .. start - 1 \/ i \in start + n .. N
    OBVIOUS
  <2>. QED
    BY <1>6, <2>1, <2>2, <2>3
<1> DEFINE at == [i \in 1 .. N |-> IF i \in start .. start + n - 1 THEN start + q[i - start + 1] - 1
                                   ELSE i]
<1>8. /\ at \in [1 .. N -> 1 .. N] /\ \A i \in 1 .. N : s[i] = r[at[i]]
  <2>1. start .. start + n - 1 \subseteq 1 .. N
    OBVIOUS
  <2>. QED
    BY <1>7, <2>1
<1>9. \A i, j \in 1 .. N : at[i] = at[j] => i = j
  <2>1. ASSUME NEW i \in start .. start + n - 1, NEW j \in start .. start + n - 1,
               start + q[i - start + 1] - 1 = start + q[j - start + 1] - 1
        PROVE  i = j
    <3>1. i - start + 1 \in 1 .. n /\ j - start + 1 \in 1 .. n
      OBVIOUS
    <3>2. q[i - start + 1] \in 1 .. n /\ q[j - start + 1] \in 1 .. n
      BY <1>2, <3>1
    <3>3. q[i - start + 1] = q[j - start + 1]
      <4>1. \A x, y \in 1 .. n : start + x - 1 = start + y - 1 => x = y
        OBVIOUS
      <4>. QED
        BY <2>1, <3>2, <4>1
    <3>4. i - start + 1 = j - start + 1
      BY <1>2, <3>1, <3>3
    <3>. QED
      BY <3>4
  <2>2. ASSUME NEW i \in 1 .. N, NEW j \in 1 .. N, at[i] = at[j]
        PROVE  i = j
    <3> DEFINE run == start .. start + n - 1
    <3>1. CASE i \in run /\ j \in run
      BY <1>7, <2>1, <2>2, <3>1
    <3>2. CASE i \notin run /\ j \notin run
      BY <1>7, <2>2, <3>2
    <3>3. CASE i \in run /\ j \notin run
      BY <1>7, <2>2, <3>3
    <3>4. CASE i \notin run /\ j \in run
      BY <1>7, <2>2, <3>4
    <3>. QED
      BY <3>1, <3>2, <3>3, <3>4
  <2>. QED
    BY <2>2
<1>10. \A v \in 1 .. N : \E i \in 1 .. N : at[i] = v
  <2>1. ASSUME NEW v \in start .. start + n - 1 PROVE \E i \in start .. start + n - 1 : at[i] = v
    <3>1. PICK k \in 1 .. n : q[k] = v - start + 1
      <4>1. v - start + 1 \in 1 .. n
        OBVIOUS
      <4>. QED
        BY <1>2, <4>1
    <3>2. /\ start + k - 1 \in start .. start + n - 1 /\ start + k - 1 \in 1 .. N
          /\ (start + k - 1) - start + 1 = k
      OBVIOUS
    <3>3. at[start + k - 1] = start + q[k] - 1
      BY <3>2
    <3>4. start + q[k] - 1 = v
      BY <3>1
    <3>. HIDE DEF at
    <3>. QED
      BY <3>2, <3>3, <3>4
  <2>2. start .. start + n - 1 \subseteq 1 .. N
    OBVIOUS
  <2>. QED
    BY <2>1, <2>2
<1>. HIDE DEF at
<1>11. s \in Perms(N)
  <2>1. s \in [1 .. N -> 1 .. N]
    BY <1>6, LenProperties
  <2>2. ASSUME NEW i \in 1 .. N, NEW j \in 1 .. N, s[i] = s[j] PROVE i = j
    <3>1. r[at[i]] = r[at[j]] /\ at[i] \in 1 .. N /\ at[j] \in 1 .. N
      BY <1>8, <2>2
    <3>. QED
      BY <1>1, <1>9, <3>1
  <2>3. ASSUME NEW v \in 1 .. N PROVE \E i \in 1 .. N : s[i] = v
    <3>1. PICK j \in 1 .. N : r[j] = v
      BY <1>1
    <3>2. PICK i \in 1 .. N : at[i] = j
      BY <1>10
    <3>. QED
      BY <1>8, <3>1, <3>2
  <2>. QED
    BY <2>1, <2>2, <2>3 DEF Perms
<1>. QED
  BY <1>7, <1>11

(* What a call does: a leaf for its run, or a node and two calls more. *)
Grows ==
  LET c  == Last(calls)
      at == Len(nodes) + 1
  IN  /\ calls # <<>> /\ walk = "split"
      /\ UNCHANGED <<mesh, tris, first, hole, saved, ray, walk, node, stack, best, hit>>
      /\ nodes' \in Seq(Nodes) /\ Len(nodes') = at
      /\ \A k \in DOMAIN nodes :
           /\ nodes'[k].box = nodes[k].box /\ nodes'[k].count = nodes[k].count
           /\ nodes'[k].axis = nodes[k].axis
           /\ nodes'[k].index = IF k = c.parent THEN at ELSE nodes[k].index
      /\ refs' \in Perms(Len(mesh))
      /\ \A i \in DOMAIN mesh \ RunOf(c) : refs'[i] = refs[i]
      /\ \A i \in RunOf(c) : \E j \in RunOf(c) : refs'[i] = refs[j]
      /\ \A i \in RunOf(c) : Bounds(nodes'[at].box, mesh[refs[i]])
      /\ \/ /\ nodes'[at].count = c.n /\ nodes'[at].index = c.start
            /\ calls' = Front(calls)
         \/ \E mid \in 1 .. c.n - 1 :
              /\ nodes'[at].count = 0 /\ nodes'[at].index = 0 /\ nodes'[at].axis \in Axes
              /\ c.depth < MaxDepth
              /\ calls' = Front(calls) \o <<Call(c.start + mid, c.n - mid, c.depth + 1, at),
                                            Call(c.start, mid, c.depth + 1, 0)>>

LEMMA BuildNodeGrows ==
    ASSUME BvhAssumption, BvhType, BuildNode, refs \in Perms(Len(mesh)),
           Last(calls).start + Last(calls).n - 1 <= Len(mesh),
           Last(calls).parent # 0 => Last(calls).parent \in DOMAIN nodes
    PROVE  Grows
<1> DEFINE c == Last(calls)
           N == Len(mesh)
           run == SubSeq(refs, c.start, c.start + c.n - 1)
           places == {run[i] : i \in DOMAIN run}
           box == BoxOf(mesh, places)
           planes == Planes(mesh, places)
           plane == SahSplit(mesh, places)
           left == Left(mesh, places, plane)
           mid == IF planes = {} THEN c.n \div 2 ELSE Cardinality(left)
           leaf == \/ c.n <= LeafSize \/ c.depth >= MaxDepth
                   \/ /\ c.n <= MaxLeaf
                      /\ \/ planes = {}
                         \/ Area(box) + Price(mesh, places, plane) >= c.n * Area(box)
           at == Len(nodes) + 1
           known == IF c.parent = 0 THEN nodes
                    ELSE [nodes EXCEPT ![c.parent].index = at]
           asLeaf == [box |-> box, count |-> c.n, index |-> c.start, axis |-> 0]
           inner == [box |-> box, count |-> 0, index |-> 0,
                     axis |-> IF planes = {} THEN 1 ELSE plane[1]]
           spliced == SubSeq(refs, 1, c.start - 1) \o Partition(run, left)
                        \o SubSeq(refs, c.start + c.n, Len(refs))
<1>1. /\ walk = "split" /\ calls # <<>>
      /\ UNCHANGED <<mesh, tris, first, hole, saved, ray, walk, node, stack, best, hit>>
      /\ leaf => /\ nodes' = Append(known, asLeaf) /\ calls' = Front(calls) /\ refs' = refs
      /\ ~leaf => /\ nodes' = Append(known, inner)
                  /\ calls' = Front(calls)
                               \o <<Call(c.start + mid, c.n - mid, c.depth + 1, at),
                                    Call(c.start, mid, c.depth + 1, 0)>>
                  /\ refs' = IF planes = {} THEN refs ELSE spliced
  BY DEF BuildNode, RightOf
<1>2. /\ c \in Calls /\ c.start \in Nat \ {0} /\ c.n \in Nat \ {0} /\ c.depth \in 0 .. MaxDepth
      /\ c.parent \in Nat
  <2>1. calls \in Seq(Calls)
    BY DEF BvhType
  <2>2. c \in Calls
    <3>1. Len(calls) \in 1 .. Len(calls)
      <4>1. Len(calls) \in Nat /\ Len(calls) # 0
        BY <1>1, <2>1, EmptySeq
      <4>. QED
        BY <4>1
    <3>. QED
      BY <2>1, <3>1, ElementOfSeq DEF Last
  <2>. QED
    BY <2>2 DEF Calls
<1>3. mesh \in Seq(Triangles) /\ N \in Nat /\ DOMAIN mesh = 1 .. N
  BY BvhAssumption DEF BvhType, BvhAssumption
<1>4. /\ refs \in [1 .. N -> 1 .. N] /\ refs \in Seq(1 .. N) /\ Len(refs) = N
      /\ \A i, j \in 1 .. N : refs[i] = refs[j] => i = j
  <2>1. /\ refs \in [1 .. N -> 1 .. N] /\ \A i, j \in 1 .. N : refs[i] = refs[j] => i = j
    BY DEF Perms
  <2>. HIDE DEF N
  <2>. QED
    BY <1>3, <2>1
<1>5. c.start + c.n - 1 <= N
  OBVIOUS
<1>6. c.parent # 0 => c.parent \in DOMAIN nodes
  OBVIOUS
<1>7. nodes \in Seq(Nodes)
  BY DEF BvhType
<1>8. refs \in Perms(N)
  OBVIOUS
<1>. HIDE DEF c, N
<1>9. /\ run \in Seq(1 .. N) /\ Len(run) = c.n /\ DOMAIN run = 1 .. c.n
      /\ \A i \in 1 .. c.n : run[i] = refs[c.start + i - 1]
  <2> DEFINE m == c.start
             k == c.start + c.n - 1
  <2>1. m \in Int /\ k \in Int /\ m <= k /\ k - m + 1 = c.n /\ \A i \in m .. k : i \in 1 .. N
    BY <1>2, <1>3, <1>5
  <2>2. /\ SubSeq(refs, m, k) \in Seq(1 .. N)
        /\ Len(SubSeq(refs, m, k)) = IF m <= k THEN k - m + 1 ELSE 0
        /\ \A i \in 1 .. k - m + 1 : SubSeq(refs, m, k)[i] = refs[m + i - 1]
    <3>. HIDE DEF m, k
    <3>1. \A i \in m .. k : refs[i] \in 1 .. N
      BY <1>4, <2>1
    <3>. QED
      BY <2>1, <3>1, SubSeqProperties
  <2>3. DOMAIN run = 1 .. Len(run)
    BY <2>2
  <2>. QED
    BY <2>1, <2>2, <2>3
<1>. HIDE DEF run
<1>10. /\ places \in SUBSET DOMAIN mesh /\ places # {}
       /\ \A i \in RunOf(c) : refs[i] \in places
       /\ IsFiniteSet(places) /\ Cardinality(places) <= c.n
  <2>1. places \in SUBSET DOMAIN mesh /\ places # {}
    <3>1. \A i \in 1 .. c.n : run[i] \in 1 .. N
      BY <1>9, ElementOfSeq
    <3>2. 1 \in 1 .. c.n
      BY <1>2
    <3>. QED
      BY <1>3, <1>9, <3>1, <3>2
  <2>2. ASSUME NEW i \in RunOf(c) PROVE refs[i] \in places
    <3>1. i - c.start + 1 \in 1 .. c.n /\ c.start + (i - c.start + 1) - 1 = i
      BY <1>2 DEF RunOf
    <3>. QED
      BY <1>9, <3>1
  <2>3. run \in Surjection(1 .. c.n, places)
    BY <1>9 DEF Surjection
  <2>. HIDE DEF places
  <2>4. IsFiniteSet(1 .. c.n) /\ Cardinality(1 .. c.n) = c.n
    BY <1>2, OneTo
  <2>. QED
    BY <2>1, <2>2, <2>3, <2>4, FS_Surjection
<1>. HIDE DEF places
<1>11. box \in Boxes /\ \A i \in places : Bounds(box, mesh[i])
  BY <1>3, <1>10, BoxIs
<1>12. planes # {} => /\ plane[1] \in Axes /\ left \in SUBSET places
                      /\ left # {} /\ left # places
  <2>1. ASSUME planes # {}
        PROVE  /\ plane[1] \in Axes /\ left \in SUBSET places
               /\ left # {} /\ left # places
    <3>1. plane \in Planes(mesh, places)
      BY <1>3, <1>10, <2>1, SahSplitIs
    <3>. QED
      BY <1>3, <1>10, <3>1, PlaneSplits
  <2>. QED
    BY <2>1
<1>. HIDE DEF box, planes, plane, left, leaf
<1>13. ASSUME ~leaf
       PROVE  mid \in 1 .. c.n - 1 /\ c.depth < MaxDepth
  <2>1. c.n > 1 /\ c.depth < MaxDepth
    BY <1>2, <1>13, BvhAssumption DEF leaf
  <2>2. CASE planes = {}
    <3>1. c.n \div 2 \in 1 .. c.n - 1
      BY <1>2, <2>1
    <3>. QED
      BY <2>1, <2>2, <3>1
  <2>3. CASE planes # {}
    <3>1. /\ IsFiniteSet(left) /\ Cardinality(left) \in Nat /\ Cardinality(places) \in Nat
          /\ Cardinality(left) <= Cardinality(places)
          /\ Cardinality(left) # Cardinality(places)
      BY <1>10, <1>12, <2>3, FS_Subset, FS_CardinalityType
    <3>2. Cardinality(left) # 0
      BY <1>12, <2>3, <3>1, FS_EmptySet
    <3>. QED
      BY <1>2, <1>10, <2>1, <2>3, <3>1, <3>2
  <2>. QED
    BY <2>2, <2>3
<1>14. /\ spliced \in Perms(N)
       /\ \A i \in (1 .. N) \ RunOf(c) : spliced[i] = refs[i]
       /\ \A i \in RunOf(c) : \E j \in RunOf(c) : spliced[i] = refs[j]
  <2> DEFINE sorted == Partition(run, left)
  <2>1. /\ sorted \in Seq(1 .. N) /\ Len(sorted) = c.n
        /\ \E q \in Perms(c.n) : \A k \in 1 .. c.n : sorted[k] = run[q[k]]
    <3>. HIDE DEF left
    <3>1. LET n == Len(run)
          IN  /\ sorted \in Seq(1 .. N) /\ Len(sorted) = n
              /\ \E q \in Perms(n) : \A k \in 1 .. n : sorted[k] = run[q[k]]
              /\ \E m \in 0 .. n : \A k \in 1 .. n : sorted[k] \in left <=> k <= m
      BY <1>9, PartitionIs
    <3>. QED
      BY <1>9, <3>1
  <2>2. PICK q \in Perms(c.n) : \A k \in 1 .. c.n : sorted[k] = run[q[k]]
    BY <2>1
  <2>3. \A k \in 1 .. c.n : sorted[k] = refs[c.start + q[k] - 1]
    BY <1>9, <2>2 DEF Perms
  <2>. HIDE DEF sorted
  <2>4. spliced = SubSeq(refs, 1, c.start - 1) \o sorted \o SubSeq(refs, c.start + c.n, Len(refs))
    BY DEF sorted
  <2>. HIDE DEF spliced
  <2>5. /\ spliced \in Perms(N)
        /\ \A i \in (1 .. N) \ (c.start .. c.start + c.n - 1) : spliced[i] = refs[i]
        /\ \A i \in c.start .. c.start + c.n - 1 :
              \E j \in c.start .. c.start + c.n - 1 : spliced[i] = refs[j]
    <3>1. c.start \in Nat \ {0} /\ c.n \in Nat \ {0} /\ sorted \in Seq(1 .. N) /\ Len(sorted) = c.n
      BY <1>2, <2>1
    <3>2. IsSplice(N, refs, c.start, c.n, q, sorted, spliced)
      BY <1>3, <1>5, <1>8, <2>2, <2>3, <2>4, <3>1 DEF IsSplice
    <3>. QED
      BY <3>2, Spliced
  <2>. QED
    BY <2>5 DEF RunOf
<1>. HIDE DEF spliced
<1>15. /\ refs' \in Perms(N)
       /\ \A i \in (1 .. N) \ RunOf(c) : refs'[i] = refs[i]
       /\ \A i \in RunOf(c) : \E j \in RunOf(c) : refs'[i] = refs[j]
  <2>1. refs' = refs \/ refs' = spliced
    BY <1>1
  <2>. QED
    BY <1>8, <1>14, <2>1
<1>16. /\ known \in Seq(Nodes) /\ Len(known) = Len(nodes)
       /\ \A k \in DOMAIN nodes :
           /\ known[k].box = nodes[k].box /\ known[k].count = nodes[k].count
           /\ known[k].axis = nodes[k].axis
           /\ known[k].index = IF k = c.parent THEN at ELSE nodes[k].index
  <2>1. CASE c.parent = 0
    <3>1. \A k \in DOMAIN nodes : k # 0
      BY <1>7
    <3>. QED
      BY <1>7, <2>1, <3>1
  <2>2. CASE c.parent # 0
    <3> DEFINE p == c.parent
               n == [nodes[p] EXCEPT !.index = at]
    <3>1. p \in DOMAIN nodes /\ known = [nodes EXCEPT ![p] = n]
      BY <1>6, <2>2
    <3>2. nodes[p] \in Nodes /\ at \in Nat
      BY <1>7, <3>1
    <3>3. /\ n \in Nodes /\ n.box = nodes[p].box /\ n.count = nodes[p].count
          /\ n.axis = nodes[p].axis /\ n.index = at
      <4>. HIDE DEF at
      <4>. QED
        BY <3>2 DEF Nodes
    <3>. HIDE DEF n, known, at
    <3>4. known \in Seq(Nodes) /\ Len(known) = Len(nodes)
          /\ \A k \in DOMAIN nodes : known[k] = IF k = p THEN n ELSE nodes[k]
      BY <1>7, <3>1, <3>3
    <3>. QED
      BY <3>3, <3>4
  <2>. QED
    BY <2>1, <2>2
<1>. HIDE DEF known
<1>17. asLeaf \in Nodes /\ inner \in Nodes
  <2>1. (IF planes = {} THEN 1 ELSE plane[1]) \in 0 .. 2
    BY <1>12 DEF Axes
  <2>. QED
    BY <1>2, <1>11, <2>1 DEF Nodes
<1>18. \A n \in Nodes : nodes' = Append(known, n) =>
          /\ nodes' \in Seq(Nodes) /\ Len(nodes') = at /\ nodes'[at] = n
          /\ \A k \in DOMAIN nodes : nodes'[k] = known[k]
  BY <1>7, <1>16
<1>19. /\ nodes' = Append(known, IF leaf THEN asLeaf ELSE inner)
       /\ (IF leaf THEN asLeaf ELSE inner) \in Nodes
  BY <1>1, <1>17
<1>20. /\ nodes' \in Seq(Nodes) /\ Len(nodes') = at
       /\ nodes'[at] = IF leaf THEN asLeaf ELSE inner
       /\ \A k \in DOMAIN nodes : nodes'[k] = known[k]
  <2>. HIDE DEF at, asLeaf, inner
  <2>. QED
    BY <1>18, <1>19
<1>21. nodes'[at].box = box
  BY <1>20
<1>22. \A i \in RunOf(c) : Bounds(nodes'[at].box, mesh[refs[i]])
  BY <1>10, <1>11, <1>21
<1>23. \A k \in DOMAIN nodes :
           /\ nodes'[k].box = nodes[k].box /\ nodes'[k].count = nodes[k].count
           /\ nodes'[k].axis = nodes[k].axis
           /\ nodes'[k].index = IF k = c.parent THEN at ELSE nodes[k].index
  BY <1>16, <1>20
<1>24. CASE leaf
  <2>1. nodes'[at].count = c.n /\ nodes'[at].index = c.start /\ calls' = Front(calls)
    BY <1>1, <1>20, <1>24
  <2>. QED
    BY <1>1, <1>3, <1>15, <1>20, <1>22, <1>23, <2>1 DEF Grows, c, N
<1>25. CASE ~leaf
  <2>1. nodes'[at].count = 0 /\ nodes'[at].index = 0 /\ nodes'[at].axis \in Axes
    <3>1. nodes'[at] = inner /\ (IF planes = {} THEN 1 ELSE plane[1]) \in Axes
      BY <1>12, <1>20, <1>25 DEF Axes
    <3>. QED
      BY <3>1
  <2>2. /\ mid \in 1 .. c.n - 1 /\ c.depth < MaxDepth
        /\ calls' = Front(calls) \o <<Call(c.start + mid, c.n - mid, c.depth + 1, at),
                                      Call(c.start, mid, c.depth + 1, 0)>>
    BY <1>1, <1>13, <1>25
  <2>. HIDE DEF mid
  <2>. QED
    BY <1>1, <1>3, <1>15, <1>20, <1>22, <1>23, <2>1, <2>2 DEF Grows, c, N
<1>. QED
  BY <1>24, <1>25

-----------------------------------------------------------------------------
(* The tree grows. *)

\* A run is split in two.
LEMMA Halves ==
    ASSUME NEW c, NEW l, NEW r, c.start \in Nat, c.n \in Nat, l.n \in 1 .. c.n - 1,
           l.start = c.start, r.start = c.start + l.n, r.n = c.n - l.n
    PROVE  RunOf(c) = RunOf(l) \cup RunOf(r) /\ RunOf(l) \cap RunOf(r) = {}
<1>1. ASSUME NEW s \in Nat, NEW n \in Nat, NEW q \in 1 .. n - 1
      PROVE  /\ s .. s + n - 1 = (s .. s + q - 1) \cup (s + q .. s + q + (n - q) - 1)
             /\ (s .. s + q - 1) \cap (s + q .. s + q + (n - q) - 1) = {}
  OBVIOUS
<1>2. PICK s \in Nat, n \in Nat : s = c.start /\ n = c.n
  OBVIOUS
<1>3. PICK q \in 1 .. n - 1 : q = l.n
  BY <1>2
<1>4. /\ RunOf(c) = s .. s + n - 1 /\ RunOf(l) = s .. s + q - 1
      /\ RunOf(r) = s + q .. s + q + (n - q) - 1
  BY <1>2, <1>3 DEF RunOf
<1>. QED
  BY <1>1, <1>4

\* The calls that remain when the last is under way, and its own.
LEMMA CallsLeft ==
    ASSUME BvhAssumption, BvhType, Grows
    PROVE  LET L == Len(calls)
               c == Last(calls)
           IN  /\ L \in Nat \ {0} /\ DOMAIN calls = 1 .. L /\ c = calls[L] /\ c \in Calls
               /\ calls' \in Seq(Calls)
               /\ \A i \in 1 .. L - 1 : i \in DOMAIN calls' /\ calls'[i] = calls[i]
               /\ \/ /\ nodes'[Len(nodes) + 1].count = c.n
                     /\ nodes'[Len(nodes) + 1].index = c.start
                     /\ DOMAIN calls' = 1 .. L - 1
                  \/ \E mid \in 1 .. c.n - 1 :
                       /\ nodes'[Len(nodes) + 1].count = 0 /\ nodes'[Len(nodes) + 1].index = 0
                       /\ nodes'[Len(nodes) + 1].axis \in Axes /\ c.depth < MaxDepth
                       /\ DOMAIN calls' = 1 .. L + 1 /\ calls' # <<>>
                       /\ calls'[L] = Call(c.start + mid, c.n - mid, c.depth + 1, Len(nodes) + 1)
                       /\ calls'[L + 1] = Call(c.start, mid, c.depth + 1, 0)
                       /\ Last(calls') = Call(c.start, mid, c.depth + 1, 0)
<1> DEFINE L == Len(calls)
           c == Last(calls)
           at == Len(nodes) + 1
           front == Front(calls)
<1>1. calls \in Seq(Calls) /\ calls # <<>>
  BY DEF BvhType, Grows
<1>2. L \in Nat \ {0} /\ DOMAIN calls = 1 .. L
  BY <1>1, EmptySeq, LenProperties
<1>3. c = calls[L]
  BY DEF Last
<1>4. c \in Calls
  <2>1. L \in 1 .. L
    BY <1>2
  <2>. QED
    BY <1>1, <1>3, <2>1, ElementOfSeq
<1>5. /\ front \in Seq(Calls) /\ Len(front) = L - 1 /\ DOMAIN front = 1 .. L - 1
      /\ \A i \in 1 .. L - 1 : front[i] = calls[i]
  <2>1. \A i \in 1 .. L - 1 : calls[i] \in Calls
    <3>1. \A i \in 1 .. L - 1 : i \in 1 .. L
      BY <1>2
    <3>. QED
      BY <1>1, <3>1, ElementOfSeq
  <2>2. 1 \in Int /\ L - 1 \in Int
    BY <1>2
  <2>3. front = SubSeq(calls, 1, L - 1)
    BY DEF Front
  <2>. HIDE DEF L
  <2>4. /\ front \in Seq(Calls) /\ Len(front) = IF 1 <= L - 1 THEN L - 1 - 1 + 1 ELSE 0
        /\ \A i \in 1 .. L - 1 - 1 + 1 : front[i] = calls[1 + i - 1]
    BY <2>1, <2>2, <2>3, SubSeqProperties
  <2>. HIDE DEF front
  <2>5. Len(front) = L - 1 /\ \A i \in 1 .. L - 1 : front[i] = calls[i]
    BY <1>2, <2>4
  <2>. QED
    BY <2>4, <2>5, LenProperties
<1>6. CASE /\ nodes'[at].count = c.n /\ nodes'[at].index = c.start
           /\ calls' = front
  BY <1>2, <1>3, <1>4, <1>5, <1>6
<1>7. ASSUME NEW mid \in 1 .. c.n - 1, nodes'[at].count = 0, nodes'[at].index = 0,
             nodes'[at].axis \in Axes, c.depth < MaxDepth,
             calls' = front \o <<Call(c.start + mid, c.n - mid, c.depth + 1, at),
                                 Call(c.start, mid, c.depth + 1, 0)>>
      PROVE  /\ calls' \in Seq(Calls) /\ DOMAIN calls' = 1 .. L + 1
             /\ \A i \in 1 .. L - 1 : i \in DOMAIN calls' /\ calls'[i] = calls[i]
             /\ calls' # <<>>
             /\ calls'[L] = Call(c.start + mid, c.n - mid, c.depth + 1, at)
             /\ calls'[L + 1] = Call(c.start, mid, c.depth + 1, 0)
             /\ Last(calls') = Call(c.start, mid, c.depth + 1, 0)
  <2> DEFINE right == Call(c.start + mid, c.n - mid, c.depth + 1, at)
             left == Call(c.start, mid, c.depth + 1, 0)
             two == <<right, left>>
  <2>1. right \in Calls /\ left \in Calls
    <3>2. /\ c.start \in Nat \ {0} /\ c.n \in Nat \ {0} /\ c.depth \in 0 .. MaxDepth
      BY <1>4 DEF Calls
    <3>5. c.depth < MaxDepth
      BY <1>7
    <3>6. MaxDepth \in Nat
      BY BvhAssumption DEF BvhAssumption
    <3>. HIDE DEF c, at
    <3>1. c.start + mid \in Nat \ {0} /\ c.n - mid \in Nat \ {0} /\ mid \in Nat \ {0}
      BY <3>2
    <3>3. c.depth + 1 \in 0 .. MaxDepth
      BY <3>2, <3>5, <3>6
    <3>4. at \in Nat
      <4>. USE DEF at
      <4>1. nodes \in Seq(Nodes)
        BY DEF BvhType
      <4>. QED
        BY <4>1, LenProperties
    <3>. QED
      BY <3>1, <3>2, <3>3, <3>4 DEF Calls, Call
  <2>. HIDE DEF right, left
  <2>2. two \in Seq(Calls) /\ Len(two) = 2 /\ two[1] = right /\ two[2] = left
    BY <2>1
  <2>3. calls' = front \o two
    BY <1>7 DEF right, left
  <2>. HIDE DEF two, front, c
  <2>4. /\ front \o two \in Seq(Calls) /\ Len(front \o two) = Len(front) + Len(two)
        /\ \A i \in 1 .. Len(front) : (front \o two)[i] = front[i]
        /\ \A i \in Len(front) + 1 .. Len(front) + Len(two) : (front \o two)[i] = two[i - Len(front)]
    <3>1. front \in Seq(Calls) /\ two \in Seq(Calls)
      BY <1>5, <2>2
    <3>. QED
      BY <3>1, JoinedIs
  <2>. HIDE DEF L
  <2>5. /\ calls' \in Seq(Calls) /\ Len(calls') = L + 1
        /\ \A i \in 1 .. L - 1 : calls'[i] = calls[i]
        /\ \A i \in L .. L + 1 : calls'[i] = two[i - (L - 1)]
    <3>1. L - 1 + 2 = L + 1 /\ L - 1 + 1 = L
      BY <1>2
    <3>. QED
      BY <1>5, <2>2, <2>3, <2>4, <3>1
  <2>6. calls'[L] = right /\ calls'[L + 1] = left
    <3>1. L \in L .. L + 1 /\ L + 1 \in L .. L + 1 /\ L - (L - 1) = 1 /\ L + 1 - (L - 1) = 2
      BY <1>2
    <3>. QED
      BY <2>2, <2>5, <3>1
  <2>7. DOMAIN calls' = 1 .. L + 1 /\ \A i \in 1 .. L - 1 : i \in 1 .. L + 1
    BY <1>2, <2>5, LenProperties
  <2>8. calls' # <<>>
    BY <1>2, <2>5
  <2>. QED
    BY <2>5, <2>6, <2>7, <2>8 DEF Last, right, left
<1>8. \/ /\ nodes'[at].count = c.n /\ nodes'[at].index = c.start
         /\ calls' = front
      \/ \E mid \in 1 .. c.n - 1 :
              /\ nodes'[at].count = 0 /\ nodes'[at].index = 0 /\ nodes'[at].axis \in Axes
              /\ c.depth < MaxDepth
              /\ calls' = front \o <<Call(c.start + mid, c.n - mid, c.depth + 1, at),
                                     Call(c.start, mid, c.depth + 1, 0)>>
  BY DEF Grows
<1>9. CASE \E mid \in 1 .. c.n - 1 :
              /\ nodes'[at].count = 0 /\ nodes'[at].index = 0 /\ nodes'[at].axis \in Axes
              /\ c.depth < MaxDepth
              /\ calls' = front \o <<Call(c.start + mid, c.n - mid, c.depth + 1, at),
                                     Call(c.start, mid, c.depth + 1, 0)>>
  <2>1. PICK mid \in 1 .. c.n - 1 :
              /\ nodes'[at].count = 0 /\ nodes'[at].index = 0 /\ nodes'[at].axis \in Axes
              /\ c.depth < MaxDepth
              /\ calls' = front \o <<Call(c.start + mid, c.n - mid, c.depth + 1, at),
                                     Call(c.start, mid, c.depth + 1, 0)>>
    BY <1>9
  <2>. HIDE DEF c, front
  <2>2. /\ calls' \in Seq(Calls) /\ DOMAIN calls' = 1 .. L + 1
        /\ \A i \in 1 .. L - 1 : i \in DOMAIN calls' /\ calls'[i] = calls[i]
        /\ calls' # <<>>
        /\ calls'[L] = Call(c.start + mid, c.n - mid, c.depth + 1, at)
        /\ calls'[L + 1] = Call(c.start, mid, c.depth + 1, 0)
        /\ Last(calls') = Call(c.start, mid, c.depth + 1, 0)
    BY <1>7, <2>1
  <2>. HIDE DEF L, at
  <2>3. \E m \in 1 .. c.n - 1 :
                       /\ nodes'[at].count = 0 /\ nodes'[at].index = 0
                       /\ nodes'[at].axis \in Axes /\ c.depth < MaxDepth
                       /\ DOMAIN calls' = 1 .. L + 1 /\ calls' # <<>>
                       /\ calls'[L] = Call(c.start + m, c.n - m, c.depth + 1, at)
                       /\ calls'[L + 1] = Call(c.start, m, c.depth + 1, 0)
                       /\ Last(calls') = Call(c.start, m, c.depth + 1, 0)
    BY <2>1, <2>2
  <2>. QED
    BY <1>2, <1>3, <1>4, <2>2, <2>3 DEF c, L, at
<1>. QED
  BY <1>6, <1>8, <1>9

LEMMA GrownStep ==
    ASSUME BvhAssumption, BvhType, NEW made, Grown(made), Fitted(made, refs), Grows,
           refs \in Perms(Len(mesh))
    PROVE  \E more, r : r = refs' /\ Grown(more)' /\ Fitted(more, r)'
<1>. SUFFICES ASSUME NEW L, NEW c, NEW at, NEW r,
                     L = Len(calls), c = Last(calls), at = Len(nodes) + 1, r = refs'
              PROVE  \E more : Grown(more)' /\ Fitted(more, r)'
  OBVIOUS
<1> DEFINE Splits(mid) == /\ nodes'[at].count = 0 /\ nodes'[at].index = 0
                          /\ nodes'[at].axis \in Axes /\ c.depth < MaxDepth
                          /\ DOMAIN calls' = 1 .. L + 1 /\ calls' # <<>>
                          /\ calls'[L] = Call(c.start + mid, c.n - mid, c.depth + 1, at)
                          /\ calls'[L + 1] = Call(c.start, mid, c.depth + 1, 0)
                          /\ Last(calls') = Call(c.start, mid, c.depth + 1, 0)
           Leaf == /\ nodes'[at].count = c.n /\ nodes'[at].index = c.start
                   /\ DOMAIN calls' = 1 .. L - 1
<1>1. /\ L \in Nat \ {0} /\ DOMAIN calls = 1 .. L /\ c = calls[L] /\ c \in Calls
      /\ \A i \in 1 .. L - 1 : i \in DOMAIN calls' /\ calls'[i] = calls[i]
      /\ Leaf \/ \E mid \in 1 .. c.n - 1 : Splits(mid)
  BY CallsLeft
<1>2. PICK mid \in Nat : Leaf \/ (mid \in 1 .. c.n - 1 /\ Splits(mid))
  <2>1. \A mid \in 1 .. c.n - 1 : mid \in Nat
    OBVIOUS
  <2>. HIDE DEF Leaf, Splits
  <2>. QED
    BY <1>1, <2>1
<1>. PICK new : new = [start |-> c.start, n |-> c.n, depth |-> c.depth, mid |-> mid]
  OBVIOUS
<1>. PICK more : more = [k \in 1 .. at |-> IF k = at THEN new ELSE made[k]]
  OBVIOUS
<1>3. /\ at \in Nat \ {0} /\ DOMAIN nodes = 1 .. at - 1 /\ DOMAIN nodes' = 1 .. at
      /\ Len(nodes) = at - 1 /\ Len(nodes') = at /\ nodes' # <<>>
  <2>1. nodes \in Seq(Nodes) /\ nodes' \in Seq(Nodes) /\ Len(nodes') = at
    BY DEF BvhType, Grows
  <2>. QED
    BY <2>1, LenProperties
<1>4. /\ c.start \in Nat \ {0} /\ c.n \in Nat \ {0} /\ c.depth \in 0 .. MaxDepth /\ c.parent \in Nat
  BY <1>1 DEF Calls
<1>5. new \in Makings
  BY <1>4 DEF Makings
<1>6. /\ made \in [1 .. at - 1 -> Makings]
      /\ \A k \in 1 .. at - 1 : NodeMade(made, k)
      /\ CallsMade(made) /\ RootMade(made)
  BY <1>3 DEF Grown
<1>7. /\ more \in [1 .. at -> Makings] /\ more[at] = new
      /\ \A k \in 1 .. at - 1 : more[k] = made[k]
  BY <1>3, <1>5, <1>6
<1>8. /\ \A k \in 1 .. at - 1 :
           /\ nodes'[k].box = nodes[k].box /\ nodes'[k].count = nodes[k].count
           /\ nodes'[k].axis = nodes[k].axis
           /\ nodes'[k].index = IF k = c.parent THEN at ELSE nodes[k].index
      /\ \A i \in DOMAIN mesh \ RunOf(c) : refs'[i] = refs[i]
      /\ \A i \in RunOf(c) : \E j \in RunOf(c) : refs'[i] = refs[j]
      /\ \A i \in RunOf(c) : Bounds(nodes'[at].box, mesh[refs[i]])
      /\ mesh' = mesh
  BY <1>3 DEF Grows
<1>9. /\ \A i \in 1 .. L :
           /\ calls[i].start + calls[i].n - 1 <= Len(mesh)
           /\ calls[i].parent # 0 => /\ calls[i].parent \in 1 .. at - 1
                                     /\ nodes[calls[i].parent].count = 0
                                     /\ RightIsFor(made, calls[i].parent, calls[i])
           /\ \A k \in 1 .. at - 1 : \/ RunOf(calls[i]) \subseteq RunOf(made[k])
                                     \/ RunOf(calls[i]) \cap RunOf(made[k]) = {}
      /\ \A i, j \in 1 .. L : i # j => RunOf(calls[i]) \cap RunOf(calls[j]) = {}
  BY <1>1, <1>3, <1>6 DEF CallsMade
<1>10. /\ new.start = c.start /\ new.n = c.n /\ new.depth = c.depth /\ new.mid = mid
       /\ RunOf(new) = RunOf(c)
  BY DEF RunOf
<1>11. Leaf \/ (mid \in 1 .. c.n - 1 /\ Splits(mid))
  BY <1>2
<1>12. L \in 1 .. L /\ \A i \in 1 .. L - 1 : i \in 1 .. L /\ i # L
  <2>1. L \in Nat \ {0}
    BY <1>1
  <2>. QED
    BY <2>1
<1>13. LET d == calls[L]
       IN  /\ d.start + d.n - 1 <= Len(mesh)
           /\ d.parent # 0 => /\ d.parent \in 1 .. at - 1 /\ nodes[d.parent].count = 0
                              /\ RightIsFor(made, d.parent, d)
  BY <1>9, <1>12
<1>. HIDE DEF Splits, Leaf
<1>14. ASSUME NEW k \in 1 .. at - 1 PROVE NodeMade(more, k)'
  <2> DEFINE m == made[k]
  <2>1. /\ m.start + m.n - 1 <= Len(mesh)
        /\ nodes[k].count > 0 => nodes[k].index = m.start /\ nodes[k].count = m.n
        /\ nodes[k].count = 0 =>
            /\ m.mid \in 1 .. m.n - 1 /\ m.depth < MaxDepth /\ nodes[k].axis \in Axes
            /\ LeftMade(made, k) /\ RightMade(made, k)
    BY <1>6 DEF NodeMade
  <2>2. more[k] = m /\ nodes'[k].count = nodes[k].count /\ nodes'[k].axis = nodes[k].axis
    BY <1>7, <1>8
  <2>3. nodes[k].count > 0 => nodes'[k].index = m.start /\ nodes'[k].count = m.n
    <3>1. SUFFICES ASSUME nodes[k].count > 0 PROVE k # c.parent
      BY <1>8, <2>1, <2>2, <3>1
    <3>2. c.parent = k => nodes[k].count = 0
      BY <1>1, <1>3, <1>13
    <3>. QED
      BY <3>1, <3>2
  <2>4. ASSUME nodes[k].count = 0 PROVE LeftMade(more, k)'
    <3>1. k < at /\ k + 1 \in 1 .. at
      BY <1>3
    <3>2. IsFor(more[k + 1], m.start, m.mid, m.depth + 1)
      <4>1. CASE k < at - 1
        <5>1. k + 1 \in 1 .. at - 1
          BY <1>3, <4>1
        <5>2. IsFor(made[k + 1], m.start, m.mid, m.depth + 1)
          BY <1>3, <2>1, <2>4, <4>1 DEF LeftMade
        <5>. QED
          BY <1>7, <5>1, <5>2
      <4>2. CASE k = at - 1
        <5>1. k + 1 = at /\ ~(k < Len(nodes))
          BY <1>3, <4>2
        <5>2. c = Call(m.start, m.mid, m.depth + 1, 0)
          BY <2>1, <2>4, <5>1 DEF LeftMade
        <5>3. c.start = m.start /\ c.n = m.mid /\ c.depth = m.depth + 1
          BY <5>2 DEF Call
        <5>. QED
          BY <1>7, <1>10, <5>1, <5>3 DEF IsFor
      <4>. QED
        <5>1. k < at - 1 \/ k = at - 1
          <6>1. at \in Nat
            BY <1>3
          <6>2. \A x \in Nat : \A y \in 1 .. x - 1 : y < x - 1 \/ y = x - 1
            OBVIOUS
          <6>. QED
            BY <6>1, <6>2
        <5>. QED
          BY <4>1, <4>2, <5>1
    <3>. QED
      BY <1>3, <2>2, <3>1, <3>2 DEF LeftMade
  <2>5. ASSUME nodes[k].count = 0 PROVE RightMade(more, k)'
    <3>1. CASE k = c.parent
      <4>1. k # at - 1
        <5>1. ASSUME k = at - 1 PROVE FALSE
          <6>1. ~(k < Len(nodes))
            BY <1>3, <5>1
          <6>2. c = Call(m.start, m.mid, m.depth + 1, 0)
            BY <2>1, <2>5, <6>1 DEF LeftMade
          <6>3. c.parent = 0
            BY <6>2 DEF Call
          <6>. QED
            BY <1>3, <3>1, <6>3
        <5>. QED
          BY <5>1
      <4>2. nodes'[k].index = at /\ at \in k + 2 .. at /\ at \in 1 .. at
        BY <1>3, <1>8, <3>1, <4>1
      <4>3. RightIsFor(made, k, c)
        BY <1>1, <1>3, <1>13, <3>1
      <4>4. RightIsFor(more, k, more[at])
        BY <1>7, <1>10, <4>3 DEF RightIsFor, IsFor
      <4>. QED
        BY <1>3, <4>2, <4>4 DEF RightMade, RightIsFor
    <3>2. CASE k # c.parent
      <4>1. nodes'[k].index = nodes[k].index
        BY <1>8, <3>2
      <4>2. CASE nodes[k].index \in k + 2 .. Len(nodes) /\ RightIsFor(made, k, made[nodes[k].index])
        <5>1. nodes[k].index \in k + 2 .. at /\ nodes[k].index \in 1 .. at - 1
          BY <1>3, <4>2
        <5>2. RightIsFor(more, k, more[nodes[k].index])
          BY <1>7, <4>2, <5>1 DEF RightIsFor
        <5>. QED
          BY <1>3, <4>1, <5>1, <5>2 DEF RightMade, RightIsFor
      <4>3. CASE nodes[k].index = 0 /\ \E i \in DOMAIN calls : calls[i].parent = k
        <5>1. PICK i \in 1 .. L : calls[i].parent = k
          BY <1>1, <4>3
        <5>2. i \in 1 .. L - 1
          BY <1>1, <3>2, <5>1
        <5>3. i \in DOMAIN calls' /\ calls'[i].parent = k
          BY <1>1, <5>1, <5>2
        <5>. QED
          BY <4>1, <4>3, <5>3 DEF RightMade
      <4>. QED
        BY <2>1, <2>5, <4>2, <4>3 DEF RightMade
    <3>. QED
      BY <3>1, <3>2
  <2>. HIDE DEF m
  <2>. QED
    BY <1>8, <2>1, <2>2, <2>3, <2>4, <2>5 DEF NodeMade
<1>15. NodeMade(more, at)'
  <2>1. new.start + new.n - 1 <= Len(mesh)
    BY <1>1, <1>10, <1>13
  <2>2. CASE Leaf
    <3>1. nodes'[at].count = c.n /\ nodes'[at].index = c.start
      BY <2>2 DEF Leaf
    <3>2. ~(nodes'[at].count = 0)
      BY <1>4, <3>1
    <3>. QED
      BY <1>7, <1>8, <1>10, <2>1, <3>1, <3>2 DEF NodeMade
  <2>3. CASE mid \in 1 .. c.n - 1 /\ Splits(mid)
    <3>1. /\ nodes'[at].count = 0 /\ nodes'[at].index = 0
          /\ nodes'[at].axis \in Axes /\ c.depth < MaxDepth
          /\ DOMAIN calls' = 1 .. L + 1 /\ calls' # <<>>
          /\ calls'[L] = Call(c.start + mid, c.n - mid, c.depth + 1, at)
          /\ Last(calls') = Call(c.start, mid, c.depth + 1, 0)
      BY <2>3 DEF Splits
    <3>2. LeftMade(more, at)'
      BY <1>3, <1>7, <1>10, <3>1 DEF LeftMade
    <3>3. RightMade(more, at)'
      <4>1. L \in DOMAIN calls' /\ calls'[L].parent = at
        BY <1>1, <3>1 DEF Call
      <4>. QED
        BY <3>1, <4>1 DEF RightMade
    <3>. QED
      BY <1>7, <1>8, <1>10, <2>1, <2>3, <3>1, <3>2, <3>3 DEF NodeMade
  <2>. QED
    BY <1>11, <2>2, <2>3
<1>16. ASSUME NEW i \in 1 .. L - 1
       PROVE  /\ calls'[i].start + calls'[i].n - 1 <= Len(mesh)
              /\ calls'[i].parent # 0 => /\ calls'[i].parent \in 1 .. at
                                         /\ nodes'[calls'[i].parent].count = 0
                                         /\ RightIsFor(more, calls'[i].parent, calls'[i])
              /\ \A k \in 1 .. at : \/ RunOf(calls'[i]) \subseteq RunOf(more[k])
                                    \/ RunOf(calls'[i]) \cap RunOf(more[k]) = {}
  <2> DEFINE d == calls[i]
  <2>1. calls'[i] = d /\ i \in 1 .. L /\ i # L
    BY <1>1, <1>12
  <2>2. /\ d.start + d.n - 1 <= Len(mesh)
        /\ d.parent # 0 => d.parent \in 1 .. at - 1 /\ nodes[d.parent].count = 0
                           /\ RightIsFor(made, d.parent, d)
        /\ \A k \in 1 .. at - 1 : \/ RunOf(d) \subseteq RunOf(made[k])
                                  \/ RunOf(d) \cap RunOf(made[k]) = {}
    BY <1>9, <2>1
  <2>3. RunOf(d) \cap RunOf(c) = {}
    BY <1>1, <1>9, <1>12, <2>1
  <2>. HIDE DEF d
  <2>4. d.parent # 0 => /\ d.parent \in 1 .. at /\ nodes'[d.parent].count = 0
                        /\ RightIsFor(more, d.parent, d)
    BY <1>3, <1>7, <1>8, <2>2 DEF RightIsFor
  <2>5. \A k \in 1 .. at : \/ RunOf(d) \subseteq RunOf(more[k])
                           \/ RunOf(d) \cap RunOf(more[k]) = {}
    <3>1. \A k \in 1 .. at : k = at \/ k \in 1 .. at - 1
      BY <1>3
    <3>. QED
      BY <1>7, <1>10, <2>2, <2>3, <3>1
  <2>. QED
    BY <2>1, <2>2, <2>4, <2>5
<1>17. \A i, j \in 1 .. L - 1 : i # j => RunOf(calls'[i]) \cap RunOf(calls'[j]) = {}
  BY <1>1, <1>9, <1>12
<1>18. CallsMade(more)'
  <2>1. CASE Leaf
    <3>1. DOMAIN calls' = 1 .. L - 1
      BY <2>1 DEF Leaf
    <3>2. \A i \in DOMAIN calls' :
            /\ calls'[i].start + calls'[i].n - 1 <= Len(mesh')
            /\ calls'[i].parent # 0 => /\ calls'[i].parent \in DOMAIN nodes'
                                       /\ nodes'[calls'[i].parent].count = 0
                                       /\ RightIsFor(more, calls'[i].parent, calls'[i])
            /\ \A k \in DOMAIN nodes' : \/ RunOf(calls'[i]) \subseteq RunOf(more[k])
                                        \/ RunOf(calls'[i]) \cap RunOf(more[k]) = {}
      BY <1>3, <1>8, <1>16, <3>1
    <3>3. \A i, j \in DOMAIN calls' : i # j => RunOf(calls'[i]) \cap RunOf(calls'[j]) = {}
      BY <1>17, <3>1
    <3>. QED
      BY <3>2, <3>3 DEF CallsMade, RightIsFor
  <2>2. CASE mid \in 1 .. c.n - 1 /\ Splits(mid)
    <3> DEFINE right == calls'[L]
               left == calls'[L + 1]
    <3>1. /\ nodes'[at].count = 0 /\ DOMAIN calls' = 1 .. L + 1
          /\ right = Call(c.start + mid, c.n - mid, c.depth + 1, at)
          /\ left = Call(c.start, mid, c.depth + 1, 0)
      BY <2>2 DEF Splits
    <3>. HIDE DEF right, left
    <3>2. /\ right.start = c.start + mid /\ right.n = c.n - mid /\ right.depth = c.depth + 1
          /\ right.parent = at
          /\ left.start = c.start /\ left.n = mid /\ left.parent = 0
      BY <3>1 DEF Call
    <3>3. /\ RunOf(right) \subseteq RunOf(c) /\ RunOf(left) \subseteq RunOf(c)
          /\ RunOf(right) \cap RunOf(left) = {}
      <4>1. PICK u, v : u = left /\ v = right
        OBVIOUS
      <4>2. /\ c.start \in Nat /\ c.n \in Nat /\ u.n \in 1 .. c.n - 1
            /\ u.start = c.start /\ v.start = c.start + u.n /\ v.n = c.n - u.n
        BY <1>4, <2>2, <3>2, <4>1
      <4>3. RunOf(c) = RunOf(u) \cup RunOf(v) /\ RunOf(u) \cap RunOf(v) = {}
        BY <4>2, Halves
      <4>. QED
        BY <4>1, <4>3
    <3>4. /\ right.start + right.n - 1 <= Len(mesh) /\ left.start + left.n - 1 <= Len(mesh)
      <4>1. /\ c.start + c.n - 1 <= Len(mesh) /\ Len(mesh) \in Nat
        <5>1. mesh \in Seq(Triangles)
          BY BvhAssumption DEF BvhType, BvhAssumption
        <5>. QED
          BY <1>1, <1>13, <5>1, LenProperties
      <4>2. /\ c.start \in Nat /\ c.n \in Nat /\ mid \in 1 .. c.n - 1
        BY <1>4, <2>2
      <4>3. \A s, n, m, l \in Nat : /\ s + n - 1 <= l /\ m \in 1 .. n - 1
               => s + m + (n - m) - 1 <= l /\ s + m - 1 <= l
        OBVIOUS
      <4>4. c.start + mid + (c.n - mid) - 1 <= Len(mesh) /\ c.start + mid - 1 <= Len(mesh)
        BY <4>1, <4>2, <4>3
      <4>. QED
        BY <3>2, <4>4
    <3>5. RightIsFor(more, at, right)
      BY <1>7, <1>10, <3>2 DEF RightIsFor, IsFor
    <3>6. \A k \in 1 .. at : /\ \/ RunOf(right) \subseteq RunOf(more[k])
                                \/ RunOf(right) \cap RunOf(more[k]) = {}
                             /\ \/ RunOf(left) \subseteq RunOf(more[k])
                                \/ RunOf(left) \cap RunOf(more[k]) = {}
      <4>1. \A k \in 1 .. at : k = at \/ k \in 1 .. at - 1
        BY <1>3
      <4>2. \A k \in 1 .. at - 1 : \/ RunOf(c) \subseteq RunOf(made[k])
                                   \/ RunOf(c) \cap RunOf(made[k]) = {}
        BY <1>1, <1>9, <1>12
      <4>. QED
        BY <1>7, <1>10, <3>3, <4>1, <4>2
    <3>7. \A i \in 1 .. L - 1 : /\ RunOf(calls'[i]) \cap RunOf(right) = {}
                                /\ RunOf(calls'[i]) \cap RunOf(left) = {}
      <4>1. \A i \in 1 .. L - 1 : RunOf(calls'[i]) \cap RunOf(c) = {}
        BY <1>1, <1>9, <1>12
      <4>. QED
        BY <3>3, <4>1
    <3>8. \A i \in 1 .. L + 1 : i \in 1 .. L - 1 \/ i = L \/ i = L + 1
      BY <1>1
    <3>9. at \in 1 .. at /\ at # 0
      BY <1>3
    <3>10. \A i \in 1 .. L + 1 :
              /\ calls'[i].start + calls'[i].n - 1 <= Len(mesh)
              /\ calls'[i].parent # 0 => /\ calls'[i].parent \in 1 .. at
                                         /\ nodes'[calls'[i].parent].count = 0
                                         /\ RightIsFor(more, calls'[i].parent, calls'[i])
              /\ \A k \in 1 .. at : \/ RunOf(calls'[i]) \subseteq RunOf(more[k])
                                    \/ RunOf(calls'[i]) \cap RunOf(more[k]) = {}
      <4>1. /\ right.parent \in 1 .. at /\ nodes'[right.parent].count = 0
            /\ RightIsFor(more, right.parent, right) /\ left.parent = 0
        BY <3>1, <3>2, <3>5, <3>9
      <4>2. calls'[L] = right /\ calls'[L + 1] = left
        BY DEF right, left
      <4>. QED
        <5>1. SUFFICES ASSUME NEW i \in 1 .. L + 1
                       PROVE  /\ calls'[i].start + calls'[i].n - 1 <= Len(mesh)
                              /\ calls'[i].parent # 0 =>
                                    /\ calls'[i].parent \in 1 .. at
                                    /\ nodes'[calls'[i].parent].count = 0
                                    /\ RightIsFor(more, calls'[i].parent, calls'[i])
                              /\ \A k \in 1 .. at : \/ RunOf(calls'[i]) \subseteq RunOf(more[k])
                                                    \/ RunOf(calls'[i]) \cap RunOf(more[k]) = {}
          OBVIOUS
        <5>2. CASE i \in 1 .. L - 1
          BY <1>16, <5>2
        <5>3. CASE i = L
          BY <3>4, <3>6, <4>1, <4>2, <5>3
        <5>4. CASE i = L + 1
          BY <3>4, <3>6, <4>1, <4>2, <5>4
        <5>. QED
          BY <3>8, <5>2, <5>3, <5>4
    <3>11. \A i, j \in 1 .. L + 1 : i # j => RunOf(calls'[i]) \cap RunOf(calls'[j]) = {}
      <4>1. calls'[L] = right /\ calls'[L + 1] = left
        BY DEF right, left
      <4>2. \A i, j \in 1 .. L + 1 :
               \/ i \in 1 .. L - 1 /\ j \in 1 .. L - 1
               \/ i \in 1 .. L - 1 /\ (j = L \/ j = L + 1)
               \/ j \in 1 .. L - 1 /\ (i = L \/ i = L + 1)
               \/ i = j \/ (i = L /\ j = L + 1) \/ (i = L + 1 /\ j = L)
        BY <3>8
      <4>. QED
        BY <1>17, <3>3, <3>7, <4>1, <4>2
    <3>12. ASSUME NEW i \in DOMAIN calls'
           PROVE  /\ calls'[i].start + calls'[i].n - 1 <= Len(mesh')
                  /\ calls'[i].parent # 0 => /\ calls'[i].parent \in DOMAIN nodes'
                                             /\ nodes'[calls'[i].parent].count = 0
                                             /\ RightIsFor(more, calls'[i].parent, calls'[i])
                  /\ \A k \in DOMAIN nodes' : \/ RunOf(calls'[i]) \subseteq RunOf(more[k])
                                              \/ RunOf(calls'[i]) \cap RunOf(more[k]) = {}
      <4>1. i \in 1 .. L + 1
        BY <3>1
      <4>2. DOMAIN nodes' = 1 .. at /\ mesh' = mesh
        BY <1>3, <1>8
      <4>. QED
        BY <3>10, <4>1, <4>2
    <3>13. \A i, j \in DOMAIN calls' : i # j => RunOf(calls'[i]) \cap RunOf(calls'[j]) = {}
      BY <3>1, <3>11
    <3>. QED
      BY <3>12, <3>13 DEF CallsMade, RightIsFor
  <2>. QED
    BY <1>11, <2>1, <2>2
<1>19. RootMade(more)'
  <2>1. SUFFICES ASSUME mesh # <<>> PROVE IsFor(more[1], 1, Len(mesh), 0)
    BY <1>3, <1>8, <2>1 DEF RootMade
  <2>2. CASE nodes = <<>>
    <3>1. calls = <<Call(1, Len(mesh), 0, 0)>> /\ at = 1
      <4>1. calls = <<Call(1, Len(mesh), 0, 0)>>
        BY <1>6, <2>1, <2>2 DEF RootMade
      <4>2. Len(nodes) = 0
        BY <2>2
      <4>. QED
        BY <1>3, <4>1, <4>2
    <3>2. c = Call(1, Len(mesh), 0, 0)
      BY <3>1 DEF Last
    <3>. QED
      BY <1>7, <1>10, <3>1, <3>2 DEF IsFor, Call
  <2>3. CASE nodes # <<>>
    <3>1. IsFor(made[1], 1, Len(mesh), 0)
      BY <1>6, <2>1, <2>3 DEF RootMade
    <3>2. 1 \in 1 .. at - 1
      <4>1. nodes \in Seq(Nodes)
        BY DEF BvhType
      <4>. QED
        BY <1>3, <2>3, <4>1, EmptySeq
    <3>. QED
      BY <1>7, <3>1, <3>2
  <2>. QED
    BY <2>2, <2>3
<1>20. Grown(more)'
  <2>1. \A k \in 1 .. at : k = at \/ k \in 1 .. at - 1
    BY <1>3
  <2>2. \A k \in 1 .. at : NodeMade(more, k)'
    BY <1>14, <1>15, <2>1
  <2>. QED
    BY <1>3, <1>7, <1>18, <1>19, <2>2 DEF Grown
<1>21. Fitted(more, r)'
  <2>1. ASSUME NEW k \in 1 .. at - 1, NEW i \in RunOf(made[k])
        PROVE  Bounds(nodes[k].box, mesh[refs'[i]])
    <3>1. \A j \in RunOf(made[k]) : Bounds(nodes[k].box, mesh[refs[j]])
      BY <1>3 DEF Fitted
    <3>2. CASE i \in RunOf(c)
      <4>1. PICK j \in RunOf(c) : refs'[i] = refs[j]
        BY <1>8, <3>2
      <4>2. RunOf(c) \subseteq RunOf(made[k])
        BY <1>1, <1>9, <1>12, <3>2
      <4>. QED
        BY <3>1, <4>1, <4>2
    <3>3. CASE i \notin RunOf(c)
      <4>1. i \in DOMAIN mesh
        <5>1. mesh \in Seq(Triangles)
          BY BvhAssumption DEF BvhType, BvhAssumption
        <5>2. made[k] \in Makings /\ made[k].start + made[k].n - 1 <= Len(mesh)
          BY <1>6 DEF NodeMade
        <5>3. Len(mesh) \in Nat /\ DOMAIN mesh = 1 .. Len(mesh)
          BY <5>1, LenProperties
        <5>4. \A s, n \in Nat \ {0}, l \in Nat : s + n - 1 <= l => s .. s + n - 1 \subseteq 1 .. l
          OBVIOUS
        <5>5. made[k].start \in Nat \ {0} /\ made[k].n \in Nat \ {0}
          BY <5>2 DEF Makings
        <5>6. RunOf(made[k]) \subseteq 1 .. Len(mesh)
          BY <5>2, <5>3, <5>4, <5>5 DEF RunOf
        <5>. QED
          BY <5>3, <5>6
      <4>2. refs'[i] = refs[i]
        BY <1>8, <3>3, <4>1
      <4>. QED
        BY <3>1, <4>2
    <3>. QED
      BY <3>2, <3>3
  <2>2. ASSUME NEW i \in RunOf(c) PROVE Bounds(nodes'[at].box, mesh[refs'[i]])
    BY <1>8
  <2>3. \A k \in 1 .. at : k = at \/ k \in 1 .. at - 1
    BY <1>3
  <2>4. ASSUME NEW k \in 1 .. at, NEW i \in RunOf(more[k])
        PROVE  Bounds(nodes'[k].box, mesh'[r[i]])
    BY <1>7, <1>8, <1>10, <2>1, <2>2, <2>3
  <2>. QED
    BY <1>3, <2>4 DEF Fitted, Bounds
<1>. QED
  BY <1>20, <1>21

-----------------------------------------------------------------------------
(* The triangles are put in the order of the leaves. *)

\* What there is to place.
LEMMA MeshIs ==
    ASSUME BvhAssumption, BvhType
    PROVE  /\ Len(mesh) \in Nat /\ DOMAIN mesh = 1 .. Len(mesh) /\ DOMAIN tris = 1 .. Len(mesh)
           /\ mesh \in [1 .. Len(mesh) -> Triangles] /\ mesh \in Seq(Triangles)
           /\ tris \in [1 .. Len(mesh) -> Triangles] /\ Len(tris) = Len(mesh)
           /\ refs \in [1 .. Len(mesh) -> 0 .. Len(mesh)]
           /\ DOMAIN refs = 1 .. Len(mesh) /\ Len(refs) = Len(mesh)
<1>1. mesh \in Seq(Triangles)
  BY DEF BvhAssumption, BvhType
<1>2. tris \in Seq(Triangles) /\ Len(tris) = Len(mesh)
  BY DEF BvhType
<1>3. Len(mesh) \in Nat /\ DOMAIN mesh = 1 .. Len(mesh) /\ mesh \in [1 .. Len(mesh) -> Triangles]
  BY <1>1, LenProperties
<1>4. DOMAIN tris = 1 .. Len(mesh) /\ tris \in [1 .. Len(mesh) -> Triangles]
  BY <1>2, LenProperties
<1>5. refs \in [1 .. Len(mesh) -> 0 .. Len(mesh)]
  BY <1>3 DEF BvhType
<1>6. DOMAIN refs = 1 .. Len(mesh) /\ Len(refs) = Len(mesh)
  BY <1>3, <1>5, ASeqOf
<1>. QED
  BY <1>1, <1>2, <1>3, <1>4, <1>5, <1>6

\* A cycle begins where a triangle is not in its place.
LEMMA StartCyclePlaces ==
    ASSUME BvhAssumption, BvhType, NEW p \in Perms(Len(mesh)), Placing(p), StartCycle
    PROVE  Placing(p)' /\ BvhType'
<1> DEFINE N == Len(mesh)
<1>1. /\ N \in Nat /\ DOMAIN mesh = 1 .. N /\ refs \in [1 .. N -> 0 .. N] /\ Len(refs) = N
      /\ tris \in [1 .. N -> Triangles]
  BY MeshIs
<1>2. /\ \A i \in 1 .. N : /\ refs[i] = Placed => tris[i] = mesh[p[i]]
                           /\ refs[i] # Placed => refs[i] = p[i] /\ tris[i] = mesh[i]
                           /\ i < first => refs[i] = Placed
      /\ hole = 0 => \A i \in 1 .. N : refs[i] # Placed => refs[p[i]] # Placed
  BY <1>1 DEF Placing
<1>3. /\ first \in Nat \ {0} /\ hole = 0 /\ first <= N
      /\ UNCHANGED <<mesh, tris, refs>>
      /\ \/ refs[first] = Placed /\ first' = first + 1 /\ UNCHANGED <<hole, saved>>
         \/ refs[first] # Placed /\ hole' = first /\ saved' = tris[first] /\ UNCHANGED first
  BY <1>1 DEF StartCycle, split, BvhType
<1>. HIDE DEF N
<1>4. first \in 1 .. N
  BY <1>1, <1>3
<1>5. BvhType'
  <2>1. first' \in Nat \ {0} /\ hole' \in 0 .. N
    BY <1>1, <1>3, <1>4
  <2>2. UNCHANGED <<mesh, nodes, calls, ray, node, stack, best, hit, tris, refs, walk>>
    BY DEF StartCycle, split, cast
  <2>. QED
    BY <2>1, <2>2 DEF BvhType, N
<1>6. CASE refs[first] = Placed
  <2>1. /\ first' = first + 1 /\ UNCHANGED <<hole, saved>>
    BY <1>3, <1>6
  <2>2. \A i \in 1 .. N : i < first' => refs[i] = Placed
    <3>1. \A i \in 1 .. N : i < first + 1 => i < first \/ i = first
      BY <1>3
    <3>. QED
      BY <1>2, <1>6, <2>1, <3>1
  <2>. QED
    BY <1>1, <1>2, <1>3, <1>5, <2>1, <2>2 DEF Placing, N
<1>7. CASE refs[first] # Placed
  <2>1. hole' = first /\ saved' = mesh[first] /\ first' = first /\ hole' # 0
    BY <1>2, <1>3, <1>4, <1>7
  <2>2. \A i \in 1 .. N : refs[i] # Placed => p[i] = first \/ refs[p[i]] # Placed
    BY <1>2, <1>3
  <2>. QED
    BY <1>1, <1>2, <1>3, <1>5, <1>7, <2>1, <2>2 DEF Placing, N
<1>. QED
  BY <1>6, <1>7

\* The hole is filled with the triangle that belongs there, and whose place is
\* the hole now has not been moved.
LEMMA FollowCyclePlaces ==
    ASSUME BvhAssumption, BvhType, NEW p \in Perms(Len(mesh)), Placing(p), FollowCycle
    PROVE  Placing(p)' /\ BvhType'
<1> DEFINE N == Len(mesh)
<1>1. /\ N \in Nat /\ DOMAIN mesh = 1 .. N /\ refs \in [1 .. N -> 0 .. N]
      /\ tris \in [1 .. N -> Triangles] /\ mesh \in [1 .. N -> Triangles]
  BY MeshIs
<1>2. \A i \in 1 .. N : /\ refs[i] = Placed => tris[i] = mesh[p[i]]
                        /\ refs[i] # Placed => refs[i] = p[i] /\ tris[i] = mesh[i]
                        /\ i < first => refs[i] = Placed
  BY <1>1 DEF Placing
<1>3. /\ hole # 0 /\ UNCHANGED <<mesh, saved>>
      /\ refs' = [refs EXCEPT ![hole] = Placed]
      /\ \/ /\ refs[hole] = first /\ tris' = [tris EXCEPT ![hole] = saved]
            /\ hole' = 0 /\ first' = first + 1
         \/ /\ refs[hole] # first /\ tris' = [tris EXCEPT ![hole] = tris[refs[hole]]]
            /\ hole' = refs[hole] /\ first' = first
  BY DEF FollowCycle, split
<1>4. /\ first <= N /\ saved = mesh[first] /\ refs[hole] # Placed
      /\ \A i \in 1 .. N : refs[i] # Placed => p[i] = first \/ refs[p[i]] # Placed
      /\ hole # first => refs[first] = Placed
      /\ hole # first => \A i \in 1 .. N : refs[i] # Placed => p[i] # hole
  BY <1>1, <1>3 DEF Placing
<1>5. hole \in 1 .. N /\ first \in Nat \ {0}
  BY <1>1, <1>3 DEF BvhType
<1>6. first \in 1 .. N
  BY <1>1, <1>4, <1>5
<1>7. p \in [1 .. N -> 1 .. N] /\ \A i, j \in 1 .. N : p[i] = p[j] => i = j
  BY DEF Perms
<1>. HIDE DEF N
<1>8. refs[hole] = p[hole] /\ p[hole] \in 1 .. N
  BY <1>2, <1>4, <1>5, <1>7
<1>9. /\ refs' \in [1 .. N -> 0 .. N] /\ refs'[hole] = Placed
      /\ \A i \in 1 .. N : i # hole => refs'[i] = refs[i]
  BY <1>1, <1>3, <1>5 DEF Placed
<1>10. CASE p[hole] = first
  <2>1. tris' = [tris EXCEPT ![hole] = saved] /\ hole' = 0 /\ first' = first + 1
    BY <1>3, <1>8, <1>10
  <2>2. /\ tris' \in [1 .. N -> Triangles] /\ tris'[hole] = mesh[p[hole]]
        /\ \A i \in 1 .. N : i # hole => tris'[i] = tris[i]
    BY <1>1, <1>4, <1>5, <1>6, <1>10, <2>1
  <2>3. refs'[first] = Placed
    BY <1>4, <1>6, <1>9
  <2>4. \A i \in 1 .. N : /\ refs'[i] = Placed => tris'[i] = mesh[p[i]]
                          /\ refs'[i] # Placed => refs'[i] = p[i] /\ tris'[i] = mesh[i]
    BY <1>2, <1>9, <2>2
  <2>5. \A i \in 1 .. N : i < first' => refs'[i] = Placed
    <3>1. \A i \in 1 .. N : i < first + 1 => i < first \/ i = first
      BY <1>5
    <3>. QED
      BY <1>2, <1>9, <2>1, <2>3, <3>1
  <2>6. ASSUME NEW i \in 1 .. N, refs'[i] # Placed PROVE refs'[p[i]] # Placed
    <3>1. i # hole /\ refs[i] # Placed
      BY <1>9, <2>6
    <3>2. p[i] # first /\ p[i] \in 1 .. N
      BY <1>5, <1>7, <1>10, <3>1
    <3>3. refs[p[i]] # Placed /\ p[i] # hole
      BY <1>4, <3>1, <3>2
    <3>. QED
      BY <1>9, <3>2, <3>3
  <2>7. first' \in Nat \ {0} /\ hole' \in 0 .. N
    BY <1>1, <1>5, <2>1
  <2>8. BvhType'
    <3>1. UNCHANGED <<mesh, nodes, calls, ray, node, stack, best, hit, walk>>
      BY DEF FollowCycle, split, cast
    <3>2. tris' \in Seq(Triangles) /\ Len(tris') = N
      BY <1>1, <2>2, ASeqOf
    <3>. QED
      BY <1>1, <1>9, <2>7, <3>1, <3>2 DEF BvhType, N
  <2>. QED
    BY <1>1, <1>3, <2>1, <2>4, <2>5, <2>6, <2>8 DEF Placing, N
<1>11. CASE p[hole] # first
  <2> DEFINE v == p[hole]
  <2>1. tris' = [tris EXCEPT ![hole] = tris[v]] /\ hole' = v /\ first' = first
    BY <1>3, <1>8, <1>11
  <2>2. v \in 1 .. N /\ v # hole /\ refs[v] # Placed
    BY <1>4, <1>5, <1>8, <1>11
  <2>. HIDE DEF v
  <2>3. tris[v] = mesh[v]
    BY <1>2, <2>2
  <2>4. /\ tris' \in [1 .. N -> Triangles] /\ tris'[hole] = mesh[v]
        /\ \A i \in 1 .. N : i # hole => tris'[i] = tris[i]
    BY <1>1, <1>5, <2>1, <2>2, <2>3
  <2>5. \A i \in 1 .. N : /\ refs'[i] = Placed => tris'[i] = mesh[p[i]]
                          /\ refs'[i] # Placed => refs'[i] = p[i] /\ tris'[i] = mesh[i]
                          /\ i < first => refs'[i] = Placed
    BY <1>2, <1>9, <2>4 DEF v
  <2>6. refs'[first] = Placed
    BY <1>4, <1>6, <1>9
  <2>7. refs'[v] # Placed
    BY <1>9, <2>2
  <2>8. ASSUME NEW i \in 1 .. N, refs'[i] # Placed
        PROVE  (p[i] = first \/ refs'[p[i]] # Placed) /\ p[i] # v
    <3>1. i # hole /\ refs[i] # Placed /\ p[i] \in 1 .. N
      BY <1>7, <1>9, <2>8
    <3>2. p[i] # v
      BY <1>5, <1>7, <3>1 DEF v
    <3>3. p[i] # first => refs[p[i]] # Placed /\ p[i] # hole
      BY <1>4, <3>1
    <3>. QED
      BY <1>9, <3>1, <3>2, <3>3
  <2>9. hole' \in 0 .. N /\ hole' # 0
    BY <1>1, <2>1, <2>2
  <2>10. BvhType'
    <3>1. UNCHANGED <<mesh, nodes, calls, ray, node, stack, best, hit, walk>>
      BY DEF FollowCycle, split, cast
    <3>2. tris' \in Seq(Triangles) /\ Len(tris') = N
      BY <1>1, <2>4, ASeqOf
    <3>3. first' \in Nat \ {0}
      BY <1>5, <2>1
    <3>. QED
      BY <1>1, <1>9, <2>9, <3>1, <3>2, <3>3 DEF BvhType, N
  <2>. QED
    BY <1>1, <1>3, <1>4, <2>1, <2>5, <2>6, <2>7, <2>8, <2>9, <2>10 DEF Placing, N
<1>. QED
  BY <1>10, <1>11

\* When every cycle has been followed, every triangle is in its place.
LEMMA EndBuildPlaced ==
    ASSUME BvhAssumption, BvhType, NEW p \in Perms(Len(mesh)), Placing(p), EndBuild
    PROVE  \A i \in DOMAIN mesh : tris[i] = mesh[p[i]]
<1>1. DOMAIN mesh = 1 .. Len(mesh) /\ Len(refs) = Len(mesh) /\ Len(mesh) \in Nat
  BY MeshIs
<1>2. first > Len(mesh) /\ first \in Nat
  BY <1>1 DEF EndBuild, BvhType
<1>3. \A i \in 1 .. Len(mesh) : i < first
  BY <1>1, <1>2
<1>. QED
  BY <1>1, <1>3 DEF Placing

-----------------------------------------------------------------------------
(* The invariant, as long as the tree is built. *)

\* Nothing is built yet, and the root is called for.
LEMMA TreeStarts ==
    ASSUME BvhAssumption, BvhInit
    PROVE  /\ BvhType /\ walk = "split" /\ stack = <<>>
           /\ \E p \in Perms(Len(mesh)) : \E made : TreeInv(made, p)
<1> DEFINE N == Len(mesh)
           none == [k \in {} |-> 0]
           root == Call(1, N, 0, 0)
<1>1. mesh \in Seq(Triangles) /\ mesh \in Meshes
  BY DEF BvhAssumption, BvhInit
<1>2. N \in Nat /\ DOMAIN mesh = 1 .. N /\ mesh \in [1 .. N -> Triangles]
  BY <1>1, LenProperties
<1>3. mesh # <<>> => N # 0
  BY <1>1, EmptySeq
<1>4. refs = [i \in 1 .. N |-> i]
  BY <1>2 DEF BvhInit
<1>. HIDE DEF N
<1>5. refs \in Perms(N)
  <2>1. refs \in [1 .. N -> 1 .. N] /\ \A i \in 1 .. N : refs[i] = i
    BY <1>4
  <2>. QED
    BY <2>1 DEF Perms
<1>6. /\ mesh # <<>> => root \in Calls
      /\ calls \in Seq(Calls)
      /\ \A i \in DOMAIN calls : calls[i] = root /\ i = 1 /\ mesh # <<>>
      /\ mesh # <<>> => calls = <<root>>
      /\ mesh = <<>> => calls = <<>>
  <2>1. calls = IF mesh = <<>> THEN <<>> ELSE <<root>>
    BY DEF BvhInit, N
  <2>2. mesh # <<>> => root \in Calls
    <3>1. 0 \in 0 .. MaxDepth
      BY DEF BvhAssumption
    <3>. QED
      BY <1>2, <1>3, <3>1 DEF Calls, Call
  <2>. HIDE DEF root
  <2>. QED
    BY <2>1, <2>2
<1>7. nodes = <<>> /\ DOMAIN nodes = {}
  BY DEF BvhInit
<1>8. BvhType
  <2>1. nodes \in Seq(Nodes) /\ stack \in Seq(Nat)
    BY DEF BvhInit
  <2>2. refs \in [DOMAIN mesh -> 0 .. N]
    BY <1>2, <1>4
  <2>3. /\ first \in Nat \ {0} /\ hole \in 0 .. N /\ ray \in Rays \cup {NoRay}
        /\ walk \in {"split", "place", "ready", "walking", "done"}
        /\ node \in Nat /\ hit \in 0 .. N
    BY <1>2 DEF BvhInit
  <2>4. best \in Int
    BY DEF BvhAssumption, BvhInit
  <2>5. tris \in Seq(Triangles) /\ Len(tris) = N
    BY <1>1 DEF BvhInit, N
  <2>. QED
    BY <1>1, <1>6, <2>1, <2>2, <2>3, <2>4, <2>5 DEF BvhType, N
<1>9. Grown(none)
  <2>1. none \in [DOMAIN nodes -> Makings]
    BY <1>7
  <2>2. CallsMade(none)
    <3>1. ASSUME NEW i \in DOMAIN calls
          PROVE  calls[i].start + calls[i].n - 1 <= N /\ calls[i].parent = 0
      BY <1>2, <1>6 DEF Call
    <3>2. \A i, j \in DOMAIN calls : i = j
      BY <1>6
    <3>. QED
      BY <1>7, <3>1, <3>2 DEF CallsMade, N
  <2>3. RootMade(none)
    BY <1>6, <1>7 DEF RootMade, N
  <2>. QED
    BY <1>7, <2>1, <2>2, <2>3 DEF Grown
<1>10. Fitted(none, refs)
  BY <1>7 DEF Fitted
<1>11. TreeInv(none, refs)
  BY <1>9, <1>10 DEF TreeInv, BvhInit
<1>. QED
  BY <1>5, <1>8, <1>11 DEF N, BvhInit

\* A node more, in which its call's run is as it was.
LEMMA BuildNodeInv ==
    ASSUME BvhAssumption, BvhType, NEW p \in Perms(Len(mesh)), NEW made, TreeInv(made, p), BuildNode
    PROVE  /\ BvhType' /\ walk' = "split"
           /\ UNCHANGED <<mesh, stack>>
           /\ \E q \in Perms(Len(mesh)) : \E more : TreeInv(more, q)'
<1>1. walk = "split" /\ calls # <<>>
  BY DEF BuildNode
<1>2. /\ refs = p /\ tris = mesh /\ first = 1 /\ hole = 0 /\ node = 1 /\ stack = <<>> /\ hit = 0
      /\ Grown(made) /\ Fitted(made, refs) /\ CallsMade(made)
  BY <1>1 DEF TreeInv, Grown
<1>3. Len(calls) \in DOMAIN calls /\ Last(calls) = calls[Len(calls)]
  <2>1. calls \in Seq(Calls)
    BY DEF BvhType
  <2>2. Len(calls) \in Nat \ {0} /\ DOMAIN calls = 1 .. Len(calls)
    BY <1>1, <2>1, EmptySeq, LenProperties
  <2>. QED
    BY <2>2 DEF Last
<1>4. /\ Last(calls).start + Last(calls).n - 1 <= Len(mesh)
      /\ Last(calls).parent # 0 => Last(calls).parent \in DOMAIN nodes
  BY <1>2, <1>3 DEF CallsMade
<1>5. Grows
  BY <1>2, <1>4, BuildNodeGrows
<1>6. PICK more, r : r = refs' /\ Grown(more)' /\ Fitted(more, r)'
  BY <1>2, <1>5, GrownStep
<1>7. /\ UNCHANGED <<mesh, tris, first, hole, saved, ray, walk, node, stack, best, hit>>
      /\ nodes' \in Seq(Nodes) /\ refs' \in Perms(Len(mesh))
  BY <1>5 DEF Grows
<1>8. calls' \in Seq(Calls)
  BY <1>5, CallsLeft
<1>9. refs' \in [DOMAIN mesh -> 0 .. Len(mesh)]
  <2>1. DOMAIN mesh = 1 .. Len(mesh) /\ Len(mesh) \in Nat
    BY MeshIs
  <2>2. refs' \in [1 .. Len(mesh) -> 1 .. Len(mesh)]
    BY <1>7 DEF Perms
  <2>. QED
    BY <2>1, <2>2
<1>10. BvhType'
  BY <1>7, <1>8, <1>9 DEF BvhType
<1>11. TreeInv(more, r)'
  BY <1>1, <1>2, <1>6, <1>7 DEF TreeInv
<1>. QED
  BY <1>1, <1>6, <1>7, <1>10, <1>11

\* The nodes stay as they were made when nothing but the triangles moves.
LEMMA MadeStays ==
    ASSUME NEW made, NEW p, Grown(made), Fitted(made, p), UNCHANGED split
    PROVE  Grown(made)' /\ Fitted(made, p)'
<1>1. UNCHANGED <<mesh, nodes, calls>>
  BY DEF split
<1>. QED
  BY <1>1 DEF Grown, NodeMade, LeftMade, RightMade, RightIsFor, CallsMade, RootMade, Fitted, Bounds

\* The tree is whole, and the triangles are put where it expects them.
LEMMA PlacingInv ==
    ASSUME BvhAssumption, BvhType, NEW p \in Perms(Len(mesh)), NEW made, TreeInv(made, p),
           EndSplit \/ StartCycle \/ FollowCycle \/ EndBuild
    PROVE  /\ BvhType' /\ walk' \in {"place", "ready"}
           /\ UNCHANGED <<mesh, stack>> /\ TreeInv(made, p)'
<1>1. UNCHANGED split /\ UNCHANGED cast
  BY DEF EndSplit, StartCycle, FollowCycle, EndBuild
<1>2. Grown(made) /\ Fitted(made, p)
  BY DEF TreeInv
<1>3. Grown(made)' /\ Fitted(made, p)'
  BY <1>1, <1>2, MadeStays
<1>4. UNCHANGED <<mesh, nodes, calls, ray, node, stack, best, hit>>
  BY <1>1 DEF split, cast
<1>5. walk \in {"split", "place"}
  BY DEF EndSplit, StartCycle, FollowCycle, EndBuild
<1>6. node = 1 /\ stack = <<>> /\ hit = 0
  BY <1>5 DEF TreeInv
<1>7. CASE EndSplit
  <2>1. walk = "split" /\ calls = <<>> /\ walk' = "place" /\ UNCHANGED <<tris, refs, first, hole, saved>>
    BY <1>7 DEF EndSplit
  <2>2. refs = p /\ tris = mesh /\ first = 1 /\ hole = 0
    BY <2>1 DEF TreeInv
  <2>3. Placing(p)'
    <3>1. DOMAIN mesh = 1 .. Len(mesh) /\ Len(mesh) \in Nat
      BY MeshIs
    <3>2. p \in [1 .. Len(mesh) -> 1 .. Len(mesh)]
      BY DEF Perms
    <3>3. \A i \in 1 .. Len(mesh) : p[i] \in 1 .. Len(mesh) /\ p[i] # 0 /\ ~(i < 1)
      BY <3>1, <3>2
    <3>. QED
      BY <1>4, <2>1, <2>2, <3>1, <3>3 DEF Placing, Placed
  <2>4. BvhType'
    BY <1>4, <2>1 DEF BvhType
  <2>. QED
    BY <1>3, <1>4, <1>6, <2>1, <2>3, <2>4 DEF TreeInv
<1>8. CASE StartCycle \/ FollowCycle
  <2>1. walk = "place" /\ walk' = "place"
    BY <1>8 DEF StartCycle, FollowCycle
  <2>2. Placing(p) /\ calls = <<>>
    BY <2>1 DEF TreeInv
  <2>3. Placing(p)' /\ BvhType'
    BY <1>8, <2>2, StartCyclePlaces, FollowCyclePlaces
  <2>. QED
    BY <1>3, <1>4, <1>6, <2>1, <2>2, <2>3 DEF TreeInv
<1>9. CASE EndBuild
  <2>1. walk = "place" /\ walk' = "ready" /\ UNCHANGED <<tris, refs, first, hole, saved>>
    BY <1>9 DEF EndBuild
  <2>2. Placing(p) /\ calls = <<>>
    BY <2>1 DEF TreeInv
  <2>3. \A i \in DOMAIN mesh : tris[i] = mesh[p[i]]
    BY <1>9, <2>2, EndBuildPlaced
  <2>4. BvhType'
    BY <1>4, <2>1 DEF BvhType
  <2>. QED
    BY <1>3, <1>4, <1>6, <2>1, <2>2, <2>3, <2>4 DEF TreeInv
<1>. QED
  BY <1>7, <1>8, <1>9

-----------------------------------------------------------------------------
(* A ray. *)

\* A ray goes one unit at a time along an axis or a diagonal.
LEMMA RayIs ==
    ASSUME BvhAssumption, NEW r \in Rays
    PROVE  /\ \A a \in Axes : r.from[a] \in Int /\ (r.dir[a] = -1 \/ r.dir[a] = 0 \/ r.dir[a] = 1)
           /\ r.any \in BOOLEAN /\ r.low \in Nat /\ r.high \in Nat /\ r.high <= Never /\ Never \in Nat
<1>1. r \in [from : Corners, dir : {-1, 0, 1} \X {-1, 0, 1}, any : BOOLEAN,
             low : Nat, high : 0 .. Never]
  BY DEF BvhAssumption
<1>2. r.from \in Corners /\ r.dir \in {-1, 0, 1} \X {-1, 0, 1} /\ r.any \in BOOLEAN
  BY <1>1
<1>3. r.low \in Nat /\ r.high \in 0 .. Never /\ Never \in Nat
  BY <1>1 DEF BvhAssumption
<1>4. r.from[1] \in Int /\ r.from[2] \in Int
  BY <1>2 DEF Corners
<1>5. r.dir[1] \in {-1, 0, 1} /\ r.dir[2] \in {-1, 0, 1}
  BY <1>2
<1>. QED
  BY <1>2, <1>3, <1>4, <1>5 DEF Axes

\* A ray crosses a wall at one distance at most, and there it is within the wall.
LEMMA CrossingIs ==
    ASSUME BvhAssumption, NEW r \in Rays, NEW t \in Triangles, NEW d \in Crossings(r, t)
    PROVE  /\ d \in Int
           /\ \A a \in Axes : /\ Lowest(t, a) <= r.from[a] + d * r.dir[a]
                              /\ r.from[a] + d * r.dir[a] <= Highest(t, a)
           /\ \A e \in Crossings(r, t) : e = d
<1>1. \A a \in Axes : r.from[a] \in Int /\ (r.dir[a] = -1 \/ r.dir[a] = 0 \/ r.dir[a] = 1)
  BY RayIs
<1>2. \A a \in Axes : Lowest(t, a) \in Int /\ Highest(t, a) \in Int
  BY Spans
<1>3. ASSUME NEW e \in Crossings(r, t)
      PROVE  /\ e \in Int
             /\ \E a \in Axes : Lowest(t, a) = Highest(t, a) /\ r.dir[a] # 0
             /\ \A a \in Axes : /\ Lowest(t, a) <= r.from[a] + e * r.dir[a]
                                /\ r.from[a] + e * r.dir[a] <= Highest(t, a)
  <2>1. PICK a \in Axes : /\ Lowest(t, a) = Highest(t, a) /\ r.dir[a] # 0
                          /\ e = (Lowest(t, a) - r.from[a]) * r.dir[a]
    BY DEF Crossings
  <2>2. \A b \in Axes : /\ Lowest(t, b) <= r.from[b] + e * r.dir[b]
                        /\ r.from[b] + e * r.dir[b] <= Highest(t, b)
    BY DEF Crossings
  <2>3. e \in Int
    <3>1. Lowest(t, a) \in Int /\ r.from[a] \in Int /\ r.dir[a] \in Int
      BY <1>1, <1>2
    <3>. QED
      BY <2>1, <3>1
  <2>. QED
    BY <2>1, <2>2, <2>3
<1>4. ASSUME NEW e \in Crossings(r, t) PROVE e = d
  <2>1. PICK a \in Axes : Lowest(t, a) = Highest(t, a) /\ r.dir[a] # 0
    BY <1>3
  <2> DEFINE l == Lowest(t, a)
             f == r.from[a]
             g == r.dir[a]
  <2>2. /\ l <= f + d * g /\ f + d * g <= l /\ l <= f + e * g /\ f + e * g <= l
        /\ d \in Int /\ e \in Int
    BY <1>3, <2>1
  <2>3. l \in Int /\ f \in Int /\ (g = -1 \/ g = 1)
    BY <1>1, <1>2, <2>1
  <2>. HIDE DEF l, f, g
  <2>4. CASE g = 1
    BY <2>2, <2>3, <2>4
  <2>5. CASE g = -1
    BY <2>2, <2>3, <2>5
  <2>. QED
    BY <2>3, <2>4, <2>5
<1>. QED
  BY <1>3, <1>4

\* The ray meets every box around a triangle that it crosses on its way.
LEMMA SlabHitIs ==
    ASSUME BvhAssumption, NEW r \in Rays, NEW t \in Triangles, NEW d \in Crossings(r, t),
           NEW box \in Boxes, Bounds(box, t),
           NEW t0 \in Nat, NEW t1 \in Int, t1 <= Never, t0 < d, d < t1
    PROVE  SlabHit(r, box, t0, t1)
<1>1. \A a \in Axes : /\ Lowest(t, a) <= r.from[a] + d * r.dir[a]
                      /\ r.from[a] + d * r.dir[a] <= Highest(t, a)
  BY CrossingIs
<1>2. d \in Int
  BY CrossingIs
<1>3. Never \in Nat
  BY RayIs
<1>4. ASSUME NEW a \in Axes
      PROVE  Enters(r, box, a) \in Int /\ Leaves(r, box, a) \in Int
             /\ Enters(r, box, a) <= d /\ d <= Leaves(r, box, a)
  <2> DEFINE f == r.from[a]
             g == r.dir[a]
             lo == box.lo[a]
             hi == box.hi[a]
             l == Lowest(t, a)
             h == Highest(t, a)
  <2>1. f \in Int /\ (g = -1 \/ g = 0 \/ g = 1)
    BY RayIs
  <2>2. l \in Int /\ h \in Int
    BY Spans
  <2>3. lo \in Int /\ hi \in Int
    BY DEF Boxes
  <2>4. lo <= l /\ h <= hi
    BY DEF Bounds
  <2>5. l <= f + d * g /\ f + d * g <= h
    BY <1>1
  <2>6. /\ Enters(r, box, a) = IF g = 0 THEN IF f < lo THEN Never ELSE -Never
                               ELSE IF g > 0 THEN lo - f ELSE f - hi
        /\ Leaves(r, box, a) = IF g = 0 THEN IF f > hi THEN -Never ELSE Never
                               ELSE IF g > 0 THEN hi - f ELSE f - lo
    BY DEF Enters, Leaves
  <2>. HIDE DEF f, g, lo, hi, l, h
  <2>7. CASE g = 0
    BY <1>2, <1>3, <2>1, <2>2, <2>3, <2>4, <2>5, <2>6, <2>7
  <2>8. CASE g = 1
    BY <1>2, <2>1, <2>2, <2>3, <2>4, <2>5, <2>6, <2>8
  <2>9. CASE g = -1
    BY <1>2, <2>1, <2>2, <2>3, <2>4, <2>5, <2>6, <2>9
  <2>. QED
    BY <2>1, <2>7, <2>8, <2>9
<1>5. ASSUME NEW a \in Axes, NEW b \in Axes
      PROVE  /\ Enters(r, box, a) <= Leaves(r, box, b)
             /\ t0 <= Leaves(r, box, b) /\ Enters(r, box, a) <= t1
  <2>1. /\ Enters(r, box, a) \in Int /\ Enters(r, box, a) <= d
        /\ Leaves(r, box, b) \in Int /\ d <= Leaves(r, box, b)
    BY <1>4
  <2>. QED
    BY <1>2, <2>1
<1>. QED
  BY <1>5 DEF SlabHit

(* An inner node, and its two children. *)
Inner(made, k) ==
  /\ k + 1 \in DOMAIN nodes /\ nodes[k].index \in DOMAIN nodes
  /\ nodes[k].index \in k + 2 .. Len(nodes) /\ nodes[k].axis \in Axes
  /\ made[k].depth < MaxDepth /\ made[k + 1].depth = made[k].depth + 1
  /\ made[nodes[k].index].depth = made[k].depth + 1
  /\ RunOf(made[k]) = RunOf(made[k + 1]) \cup RunOf(made[nodes[k].index])
  /\ RunOf(made[k + 1]) \cap RunOf(made[nodes[k].index]) = {}

\* A node's run is a leaf's triangles, or those of its two children, which come
\* after it and are one deeper.
LEMMA NodeIs ==
    ASSUME BvhAssumption, BvhType, NEW made, Grown(made), calls = <<>>, NEW k \in DOMAIN nodes
    PROVE  /\ RunOf(made[k]) \subseteq DOMAIN mesh /\ made[k].depth \in 0 .. MaxDepth
           /\ nodes[k].count > 0 =>
                nodes[k].index .. nodes[k].index + nodes[k].count - 1 = RunOf(made[k])
           /\ nodes[k].count = 0 => Inner(made, k)
<1> DEFINE m == made[k]
<1>1. DOMAIN mesh = 1 .. Len(mesh) /\ Len(mesh) \in Nat
  BY MeshIs
<1>2. nodes \in Seq(Nodes) /\ DOMAIN nodes = 1 .. Len(nodes) /\ Len(nodes) \in Nat
  <2>1. nodes \in Seq(Nodes)
    BY DEF BvhType
  <2>. QED
    BY <2>1, LenProperties
<1>3. made \in [DOMAIN nodes -> Makings] /\ NodeMade(made, k)
  BY DEF Grown
<1>4. /\ m.start \in Nat \ {0} /\ m.n \in Nat \ {0} /\ m.depth \in 0 .. MaxDepth /\ m.mid \in Nat
  BY <1>3 DEF Makings
<1>5. /\ m.start + m.n - 1 <= Len(mesh)
      /\ nodes[k].count > 0 => nodes[k].index = m.start /\ nodes[k].count = m.n
      /\ nodes[k].count = 0 =>
            /\ m.mid \in 1 .. m.n - 1 /\ m.depth < MaxDepth /\ nodes[k].axis \in Axes
            /\ LeftMade(made, k) /\ RightMade(made, k)
  BY <1>3 DEF NodeMade
<1>6. /\ RunOf(m) \subseteq DOMAIN mesh /\ m.depth \in 0 .. MaxDepth
      /\ nodes[k].count > 0 => nodes[k].index .. nodes[k].index + nodes[k].count - 1 = RunOf(m)
  BY <1>1, <1>4, <1>5 DEF RunOf
<1>7. ASSUME nodes[k].count = 0
      PROVE  Inner(made, k)
  <2> DEFINE at == nodes[k].index
             l == made[k + 1]
             r == made[at]
  <2>1. /\ m.mid \in 1 .. m.n - 1 /\ m.depth < MaxDepth /\ nodes[k].axis \in Axes
        /\ LeftMade(made, k) /\ RightMade(made, k)
    BY <1>5, <1>7
  <2>2. k < Len(nodes) /\ IsFor(l, m.start, m.mid, m.depth + 1)
    BY <2>1 DEF LeftMade
  <2>3. at \in k + 2 .. Len(nodes) /\ RightIsFor(made, k, r)
    BY <2>1 DEF RightMade
  <2>. HIDE DEF m, at, l, r
  <2>4. l.start = m.start /\ l.n = m.mid /\ l.depth = m.depth + 1
    BY <2>2 DEF IsFor
  <2>5. r.start = m.start + m.mid /\ r.n = m.n - m.mid /\ r.depth = m.depth + 1
    BY <2>3 DEF RightIsFor, IsFor, m
  <2>6. k + 1 \in DOMAIN nodes /\ at \in DOMAIN nodes
    BY <1>2, <2>2, <2>3
  <2>7. RunOf(m) = RunOf(l) \cup RunOf(r) /\ RunOf(l) \cap RunOf(r) = {}
    <3>1. /\ m.start \in Nat /\ m.n \in Nat /\ l.n \in 1 .. m.n - 1
          /\ l.start = m.start /\ r.start = m.start + l.n /\ r.n = m.n - l.n
      BY <1>4, <2>1, <2>4, <2>5
    <3>. QED
      BY <3>1, Halves
  <2>. QED
    BY <2>1, <2>3, <2>4, <2>5, <2>6, <2>7 DEF Inner, m, at, l, r
<1>. QED
  BY <1>6, <1>7

-----------------------------------------------------------------------------
(* The walk of a ray. *)

(* What a ray is answered. *)
Answer(b, h) ==
  LET met == {i \in DOMAIN mesh : \E d \in Crossings(ray, mesh[i]) : ray.low < d /\ d < ray.high}
  IN  IF met = {} THEN h = 0
      ELSE /\ h \in DOMAIN tris
           /\ b \in Crossings(ray, tris[h]) /\ ray.low < b /\ b < ray.high
           /\ ~ray.any => \A i \in met : \A d \in Crossings(ray, mesh[i]) :
                             ray.low < d => b <= d

(* The triangles are in the order of the leaves. *)
InLeaves(p) == \A i \in DOMAIN mesh : tris[i] = mesh[p[i]]

\* What is true of the triangles in the order of the leaves is true of the mesh.
LEMMA AnswerIs ==
    ASSUME BvhAssumption, BvhType, ray \in Rays, NEW p \in Perms(Len(mesh)), InLeaves(p),
           NEW b, NEW h,
           \/ h = 0 /\ \A i \in DOMAIN mesh : \A d \in Crossings(ray, tris[i]) :
                          ~(ray.low < d /\ d < ray.high)
           \/ /\ h \in DOMAIN tris /\ b \in Crossings(ray, tris[h]) /\ ray.low < b /\ b < ray.high
              /\ ~ray.any => \A i \in DOMAIN mesh : \A d \in Crossings(ray, tris[i]) :
                                ray.low < d => b <= d
    PROVE  Answer(b, h)
<1> DEFINE met == {i \in DOMAIN mesh :
                     \E d \in Crossings(ray, mesh[i]) : ray.low < d /\ d < ray.high}
<1>1. DOMAIN mesh = 1 .. Len(mesh) /\ DOMAIN tris = 1 .. Len(mesh)
  BY MeshIs
<1>2. \A i \in DOMAIN mesh : \E j \in DOMAIN mesh : tris[j] = mesh[i]
  <2>1. \A i \in 1 .. Len(mesh) : \E j \in 1 .. Len(mesh) : p[j] = i
    BY DEF Perms
  <2>2. \A j \in 1 .. Len(mesh) : tris[j] = mesh[p[j]]
    BY <1>1 DEF InLeaves
  <2>3. ASSUME NEW i \in DOMAIN mesh
        PROVE  \E j \in DOMAIN mesh : tris[j] = mesh[i]
    <3>1. PICK j \in 1 .. Len(mesh) : p[j] = i
      BY <1>1, <2>1
    <3>2. tris[j] = mesh[i]
      BY <2>2, <3>1
    <3>. QED
      BY <1>1, <3>1, <3>2
  <2>. QED
    BY <2>3
<1>3. \A i \in DOMAIN mesh : p[i] \in DOMAIN mesh
  BY <1>1 DEF Perms
<1>4. CASE h = 0 /\ \A i \in DOMAIN mesh : \A d \in Crossings(ray, tris[i]) :
                       ~(ray.low < d /\ d < ray.high)
  <2>1. met = {}
    BY <1>2, <1>4
  <2>. QED
    BY <1>4, <2>1 DEF Answer
<1>5. CASE /\ h \in DOMAIN tris /\ b \in Crossings(ray, tris[h]) /\ ray.low < b /\ b < ray.high
           /\ ~ray.any => \A i \in DOMAIN mesh : \A d \in Crossings(ray, tris[i]) :
                             ray.low < d => b <= d
  <2>1. p[h] \in met
    BY <1>1, <1>3, <1>5 DEF InLeaves
  <2>2. ~ray.any => \A i \in met : \A d \in Crossings(ray, mesh[i]) : ray.low < d => b <= d
    BY <1>2, <1>5
  <2>. HIDE DEF met
  <2>3. met # {}
    BY <2>1
  <2>. QED
    BY <1>5, <2>2, <2>3 DEF Answer, met
<1>. QED
  BY <1>4, <1>5

\* What a walking ray's invariant says.
LEMMA WalkIs ==
    ASSUME BvhAssumption, BvhType, NEW p, NEW made, TreeInv(made, p), walk = "walking"
    PROVE  /\ Grown(made) /\ Fitted(made, p) /\ calls = <<>> /\ InLeaves(p) /\ Walking(made)
           /\ ray \in Rays /\ node \in DOMAIN nodes
           /\ \A s \in DOMAIN stack : stack[s] \in DOMAIN nodes
           /\ stack \in Seq(Nat) /\ Len(stack) \in Nat /\ DOMAIN stack = 1 .. Len(stack)
           /\ nodes \in Seq(Nodes) /\ Len(nodes) \in Nat /\ DOMAIN nodes = 1 .. Len(nodes)
           /\ Within \in Int /\ Within <= ray.high /\ Within <= Never
<1>1. /\ Grown(made) /\ Fitted(made, p) /\ calls = <<>> /\ InLeaves(p) /\ Walking(made)
  BY DEF TreeInv, InLeaves
<1>2. /\ ray \in Rays /\ node \in DOMAIN nodes /\ Found(best, hit)
      /\ \A s \in DOMAIN stack : stack[s] \in DOMAIN nodes
  BY <1>1 DEF Walking
<1>3. stack \in Seq(Nat) /\ nodes \in Seq(Nodes) /\ best \in Int
  BY DEF BvhType
<1>4. /\ Len(stack) \in Nat /\ DOMAIN stack = 1 .. Len(stack)
      /\ Len(nodes) \in Nat /\ DOMAIN nodes = 1 .. Len(nodes)
  BY <1>3, LenProperties
<1>5. ray.high \in Nat /\ ray.high <= Never /\ Never \in Nat
  BY <1>2, RayIs
<1>6. best <= ray.high
  BY <1>2, <1>3, <1>5 DEF Found
<1>7. Within \in Int /\ Within <= ray.high /\ Within <= Never
  BY <1>3, <1>5, <1>6 DEF Within
<1>. QED
  BY <1>1, <1>2, <1>3, <1>4, <1>7

\* What lets a walk go on, or end, when the ray meets nothing more in its node.
Onward(made, b, h) ==
  /\ b \in Int /\ h \in 0 .. Len(mesh) /\ best' = b /\ hit' = h /\ Found(b, h)
  /\ MeetsOnly(OnStack(made), IF ray.any THEN ray.high ELSE b)

LEMMA PopInv ==
    ASSUME BvhAssumption, BvhType, NEW p \in Perms(Len(mesh)), NEW made, TreeInv(made, p),
           walk = "walking", UNCHANGED <<built, ray>>, Pop,
           NEW b, NEW h, Onward(made, b, h)
    PROVE  /\ BvhType' /\ TreeInv(made, p)'
           /\ walk' \in {"walking", "done"} /\ Len(stack') <= Len(stack)
           /\ walk' = "done" => Answer(b, h)
<1>1. /\ Grown(made) /\ Fitted(made, p) /\ calls = <<>> /\ InLeaves(p) /\ Walking(made)
      /\ ray \in Rays /\ \A s \in DOMAIN stack : stack[s] \in DOMAIN nodes
      /\ stack \in Seq(Nat) /\ Len(stack) \in Nat /\ DOMAIN stack = 1 .. Len(stack)
  BY WalkIs
<1>2. UNCHANGED <<mesh, tris, nodes, refs, calls, first, hole, saved, ray>>
  BY DEF built, split
<1>3. /\ b \in Int /\ h \in 0 .. Len(mesh) /\ best' = b /\ hit' = h /\ Found(b, h)
      /\ MeetsOnly(OnStack(made), IF ray.any THEN ray.high ELSE b)
  BY DEF Onward
<1>4. Grown(made)' /\ Fitted(made, p)'
  BY <1>1, <1>2, MadeStays DEF split
<1>5. CASE stack = <<>>
  <2>1. walk' = "done" /\ node' = node /\ stack' = stack
    BY <1>5 DEF Pop
  <2>2. BvhType'
    BY <1>2, <1>3, <2>1 DEF BvhType
  <2>3. TreeInv(made, p)'
    BY <1>1, <1>2, <1>4, <2>1 DEF TreeInv, InLeaves
  <2>4. \A i \in DOMAIN mesh : \A d \in Crossings(ray, tris[i]) :
           ~(ray.low < d /\ d < IF ray.any THEN ray.high ELSE b)
    <3>1. OnStack(made) = {}
      BY <1>1, <1>5 DEF OnStack
    <3>. QED
      BY <1>3, <3>1 DEF MeetsOnly
  <2>5. Answer(b, h)
    <3>1. CASE h = 0
      <4>1. b = ray.high
        BY <1>3, <3>1 DEF Found
      <4>2. \A i \in DOMAIN mesh : \A d \in Crossings(ray, tris[i]) :
               ~(ray.low < d /\ d < ray.high)
        BY <2>4, <4>1
      <4>. QED
        BY <1>1, <3>1, <4>2, AnswerIs
    <3>2. CASE h # 0
      <4>1. /\ ~ray.any /\ h \in DOMAIN tris
            /\ b \in Crossings(ray, tris[h]) /\ ray.low < b /\ b < ray.high
        BY <1>3, <3>2 DEF Found
      <4>2. ASSUME NEW i \in DOMAIN mesh, NEW d \in Crossings(ray, tris[i]), ray.low < d
            PROVE  b <= d
        <5>1. ~(d < b)
          BY <2>4, <4>1, <4>2
        <5>2. tris[i] \in Triangles
          BY MeshIs
        <5>3. d \in Int
          BY <1>1, <5>2, CrossingIs
        <5>. QED
          BY <1>3, <5>1, <5>3
      <4>. QED
        BY <1>1, <4>1, <4>2, AnswerIs
    <3>. QED
      BY <3>1, <3>2
  <2>. QED
    BY <1>1, <2>1, <2>2, <2>3, <2>5
<1>6. CASE stack # <<>>
  <2> DEFINE L == Len(stack)
  <2>1. node' = Last(stack) /\ stack' = Front(stack) /\ walk' = "walking"
    BY <1>6 DEF Pop
  <2>2. L \in Nat \ {0} /\ L \in 1 .. L /\ Last(stack) = stack[L]
    BY <1>1, <1>6, EmptySeq DEF Last
  <2>3. \A s \in 1 .. L - 1 : stack[s] \in Nat /\ s \in 1 .. L
    <3>1. \A s \in 1 .. L - 1 : s \in 1 .. L
      BY <2>2
    <3>. QED
      BY <1>1, <3>1, ElementOfSeq
  <2>. HIDE DEF L
  <2>4. /\ stack' \in Seq(Nat) /\ Len(stack') = L - 1 /\ DOMAIN stack' = 1 .. L - 1
        /\ \A s \in 1 .. L - 1 : stack'[s] = stack[s]
    <3>1. 1 \in Int /\ L - 1 \in Int
      BY <2>2
    <3>2. stack' = SubSeq(stack, 1, L - 1)
      BY <2>1 DEF Front, L
    <3>3. /\ stack' \in Seq(Nat) /\ Len(stack') = IF 1 <= L - 1 THEN L - 1 - 1 + 1 ELSE 0
          /\ \A s \in 1 .. L - 1 - 1 + 1 : stack'[s] = stack[1 + s - 1]
      BY <2>3, <3>1, <3>2, SubSeqProperties
    <3>4. Len(stack') = L - 1 /\ \A s \in 1 .. L - 1 : stack'[s] = stack[s]
      BY <2>2, <3>3
    <3>. QED
      BY <3>3, <3>4, LenProperties
  <2>5. DOMAIN stack = 1 .. L
    BY <1>1 DEF L
  <2>6. node' = stack[L] /\ node' \in DOMAIN nodes /\ node' \in Nat
    BY <1>1, <2>1, <2>2, <2>5, ElementOfSeq DEF L
  <2>7. /\ mesh # <<>>
        /\ \A s \in 1 .. L : stack[s] \in DOMAIN nodes /\ made[stack[s]].depth >= s
    BY <1>1, <2>5 DEF Walking
  <2>8. OnStack(made) = RunOf(made[node']) \cup UNION {RunOf(made[stack'[s]]) : s \in 1 .. L - 1}
    <3>1. OnStack(made) = UNION {RunOf(made[stack[s]]) : s \in 1 .. L}
      BY <2>5 DEF OnStack
    <3>2. \A s \in 1 .. L : s = L \/ s \in 1 .. L - 1
      BY <2>2
    <3> DEFINE R(s) == RunOf(made[stack[s]])
    <3>3. \A s \in 1 .. L - 1 : RunOf(made[stack'[s]]) = R(s) /\ s \in 1 .. L
      BY <2>3, <2>4
    <3>4. RunOf(made[node']) = R(L) /\ L \in 1 .. L
      BY <2>2, <2>5, <2>6
    <3>. HIDE DEF R
    <3>5. UNION {RunOf(made[stack'[s]]) : s \in 1 .. L - 1} = UNION {R(s) : s \in 1 .. L - 1}
      BY <3>3
    <3>6. UNION {R(s) : s \in 1 .. L} = R(L) \cup UNION {R(s) : s \in 1 .. L - 1}
      BY <3>2, <3>3, <3>4
    <3>. QED
      BY <3>1, <3>4, <3>5, <3>6 DEF R
  <2>9. Walking(made)'
    <3>1. made[node'].depth >= L - 1
      <4>1. made[node'].depth >= L
        BY <2>2, <2>6, <2>7
      <4>2. made[node'].depth \in Int
        <5>1. made[node'].depth \in 0 .. MaxDepth
          BY <1>1, <2>6, NodeIs
        <5>. QED
          BY <5>1
      <4>. QED
        BY <2>2, <4>1, <4>2
    <3>2. \A s \in 1 .. L - 1 : stack'[s] \in DOMAIN nodes /\ made[stack'[s]].depth >= s
      BY <2>3, <2>4, <2>7
    <3>3. MeetsOnly(RunOf(made[node]) \cup OnStack(made), Within)'
      <4>1. /\ Within' = IF ray.any THEN ray.high ELSE b
            /\ OnStack(made) = RunOf(made[node'])
                                 \cup UNION {RunOf(made[stack'[s]]) : s \in DOMAIN stack'}
        BY <1>2, <1>3, <2>4, <2>8 DEF Within
      <4>. QED
        BY <1>2, <1>3, <4>1 DEF MeetsOnly, OnStack, RunOf
    <3>4. Found(best, hit)'
      BY <1>2, <1>3 DEF Found
    <3>. QED
      BY <1>1, <1>2, <2>4, <2>6, <2>7, <3>1, <3>2, <3>3, <3>4 DEF Walking
  <2>10. BvhType'
    BY <1>2, <1>3, <2>1, <2>4, <2>6 DEF BvhType
  <2>11. TreeInv(made, p)'
    BY <1>1, <1>2, <1>4, <2>1, <2>9 DEF TreeInv, InLeaves
  <2>12. Len(stack') <= Len(stack)
    BY <2>2, <2>4 DEF L
  <2>. QED
    BY <2>1, <2>10, <2>11, <2>12
<1>. QED
  BY <1>5, <1>6

\* What the answer is is told by the triangles and the ray.
LEMMA AnswerStays ==
    ASSUME UNCHANGED <<mesh, tris, ray>>, NEW b, NEW h, best' = b, hit' = h,
           walk' = "done" => Answer(b, h)
    PROVE  RayMeetsTheNearest'
<1>1. CASE walk' = "done"
  BY <1>1 DEF RayMeetsTheNearest, Answer
<1>2. CASE walk' # "done"
  BY <1>2 DEF RayMeetsTheNearest
<1>. QED
  BY <1>1, <1>2

\* The root's run is every triangle.
LEMMA RootIs ==
    ASSUME BvhAssumption, BvhType, NEW made, Grown(made), calls = <<>>, mesh # <<>>
    PROVE  1 \in DOMAIN nodes /\ RunOf(made[1]) = DOMAIN mesh /\ made[1].depth = 0
<1>1. nodes # <<>> /\ IsFor(made[1], 1, Len(mesh), 0)
  <2>1. ASSUME nodes = <<>> PROVE FALSE
    <3>1. calls = <<Call(1, Len(mesh), 0, 0)>>
      BY <2>1 DEF Grown, RootMade
    <3>. QED
      BY <3>1
  <2>. QED
    BY <2>1 DEF Grown, RootMade
<1>2. 1 \in DOMAIN nodes
  <2>1. nodes \in Seq(Nodes)
    BY DEF BvhType
  <2>2. Len(nodes) \in Nat \ {0} /\ DOMAIN nodes = 1 .. Len(nodes)
    BY <1>1, <2>1, EmptySeq, LenProperties
  <2>. QED
    BY <2>2
<1>3. RunOf(made[1]) = DOMAIN mesh /\ made[1].depth = 0
  <2>1. made[1].start = 1 /\ made[1].n = Len(mesh) /\ made[1].depth = 0
    BY <1>1 DEF IsFor
  <2>2. DOMAIN mesh = 1 .. Len(mesh) /\ Len(mesh) \in Nat
    BY MeshIs
  <2>3. 1 .. 1 + Len(mesh) - 1 = 1 .. Len(mesh)
    BY <2>2
  <2>. QED
    BY <2>1, <2>2, <2>3 DEF RunOf
<1>. QED
  BY <1>2, <1>3

\* A ray begins at the root, which is every triangle's.
LEMMA CastInv ==
    ASSUME BvhAssumption, BvhType, NEW p \in Perms(Len(mesh)), NEW made, TreeInv(made, p), Cast
    PROVE  BvhType' /\ TreeInv(made, p)' /\ Len(stack') = 0 /\ RayMeetsTheNearest'
<1>1. /\ walk = "ready" /\ ray' \in Rays /\ best' = ray'.high
      /\ walk' = IF tris = <<>> THEN "done" ELSE "walking"
      /\ UNCHANGED <<mesh, nodes, calls, tris, refs, first, hole, saved, node, stack, hit>>
  BY DEF Cast, built, split
<1>2. /\ Grown(made) /\ Fitted(made, p) /\ calls = <<>> /\ InLeaves(p)
      /\ node = 1 /\ stack = <<>> /\ hit = 0
  BY <1>1 DEF TreeInv, InLeaves
<1>3. /\ DOMAIN mesh = 1 .. Len(mesh) /\ Len(mesh) \in Nat /\ mesh \in Seq(Triangles)
      /\ tris \in Seq(Triangles) /\ Len(tris) = Len(mesh)
  BY MeshIs DEF BvhType
<1>4. tris = <<>> <=> mesh = <<>>
  BY <1>3, EmptySeq
<1>5. Grown(made)' /\ Fitted(made, p)'
  BY <1>1, <1>2, MadeStays DEF split
<1>6. BvhType'
  <2>1. best' \in Int
    BY <1>1, RayIs
  <2>. QED
    BY <1>1, <2>1 DEF BvhType
<1>7. ASSUME mesh # <<>> PROVE Walking(made)'
  <2>1. 1 \in DOMAIN nodes /\ RunOf(made[1]) = DOMAIN mesh /\ made[1].depth = 0
    BY <1>2, <1>7, RootIs
  <2>4. Len(stack) = 0 /\ DOMAIN stack = {}
    BY <1>2
  <2>5. MeetsOnly(RunOf(made[node]) \cup OnStack(made), Within)'
    <3>1. DOMAIN mesh \subseteq RunOf(made[node'])
      BY <1>1, <1>2, <2>1
    <3>. QED
      BY <1>1, <3>1 DEF MeetsOnly, RunOf
  <2>6. Found(best, hit)'
    BY <1>1, <1>2 DEF Found
  <2>. QED
    BY <1>1, <1>2, <1>7, <2>1, <2>4, <2>5, <2>6 DEF Walking
<1>8. TreeInv(made, p)'
  <2>1. walk' = "walking" => Walking(made)'
    BY <1>1, <1>4, <1>7
  <2>. QED
    BY <1>1, <1>2, <1>5, <2>1 DEF TreeInv, InLeaves
<1>9. RayMeetsTheNearest'
  <2>1. SUFFICES ASSUME walk' = "done" PROVE RayMeetsTheNearest'
    BY DEF RayMeetsTheNearest
  <2>2. DOMAIN mesh = {}
    BY <1>1, <1>4, <2>1
  <2>. QED
    BY <1>1, <1>2, <2>2 DEF RayMeetsTheNearest
<1>. QED
  BY <1>1, <1>2, <1>6, <1>8, <1>9

\* A box that the ray misses, and a leaf none of whose triangles it meets, are
\* passed.
LEMMA PassInv ==
    ASSUME BvhAssumption, BvhType, NEW p \in Perms(Len(mesh)), NEW made, TreeInv(made, p),
           walk = "walking", UNCHANGED <<built, ray, best, hit>>, Pop,
           MeetsOnly(DOMAIN mesh \ RunOf(made[node]), Within)
    PROVE  /\ BvhType' /\ TreeInv(made, p)'
           /\ Len(stack') <= Len(stack) /\ RayMeetsTheNearest'
<1>1. Walking(made)
  BY WalkIs
<1>2. best \in Int /\ hit \in 0 .. Len(mesh) /\ Found(best, hit)
  BY <1>1 DEF BvhType, Walking
<1>3. MeetsOnly(OnStack(made), Within)
  <2>1. MeetsOnly(RunOf(made[node]) \cup OnStack(made), Within)
    BY <1>1 DEF Walking
  <2>. QED
    BY <2>1 DEF MeetsOnly
<1>4. PICK b, h : b = best /\ h = hit
  OBVIOUS
<1>5. Onward(made, b, h)
  BY <1>2, <1>3, <1>4 DEF Onward, Within
<1>6. /\ BvhType' /\ TreeInv(made, p)'
      /\ Len(stack') <= Len(stack) /\ (walk' = "done" => Answer(b, h))
  BY <1>5, PopInv
<1>7. RayMeetsTheNearest'
  BY <1>4, <1>6, AnswerStays DEF built, split
<1>. QED
  BY <1>6, <1>7

\* Nothing in a box that the ray misses is met nearer than the best.
LEMMA MissInv ==
    ASSUME BvhAssumption, BvhType, NEW p \in Perms(Len(mesh)), NEW made, TreeInv(made, p), Miss
    PROVE  /\ BvhType' /\ TreeInv(made, p)'
           /\ Len(stack') <= Len(stack) /\ RayMeetsTheNearest'
<1>1. walk = "walking" /\ ~SlabHit(ray, nodes[node].box, ray.low, Within)
  BY DEF Miss, Met
<1>2. /\ Grown(made) /\ Fitted(made, p) /\ calls = <<>> /\ InLeaves(p)
      /\ ray \in Rays /\ node \in DOMAIN nodes /\ nodes \in Seq(Nodes)
      /\ Within \in Int /\ Within <= Never
  BY <1>1, WalkIs
<1>3. nodes[node].box \in Boxes /\ ray.low \in Nat
  <2>1. nodes[node] \in Nodes
    BY <1>2, ElementOfSeq, LenProperties
  <2>. QED
    BY <1>2, <2>1, RayIs DEF Nodes
<1>4. ASSUME NEW i \in DOMAIN mesh, NEW d \in Crossings(ray, tris[i]), ray.low < d, d < Within
      PROVE  i \in DOMAIN mesh \ RunOf(made[node])
  <2>1. SUFFICES ASSUME i \in RunOf(made[node]) PROVE FALSE
    BY <2>1
  <2>2. Bounds(nodes[node].box, tris[i])
    BY <1>2, <2>1 DEF Fitted, InLeaves
  <2>3. tris[i] \in Triangles
    BY MeshIs
  <2> DEFINE w == Within
             t == tris[i]
             box == nodes[node].box
             low == ray.low
  <2>4. /\ w \in Int /\ w <= Never /\ low \in Nat /\ box \in Boxes /\ Bounds(box, t)
        /\ t \in Triangles /\ d \in Crossings(ray, t) /\ low < d /\ d < w
    BY <1>2, <1>3, <1>4, <2>2, <2>3
  <2>. HIDE DEF w, t, box, low
  <2>5. SlabHit(ray, box, low, w)
    BY <1>2, <2>4, SlabHitIs
  <2>. QED
    BY <1>1, <2>5 DEF w, box, low
<1>5. MeetsOnly(DOMAIN mesh \ RunOf(made[node]), Within)
  BY <1>4 DEF MeetsOnly
<1>6. Pop /\ UNCHANGED <<built, ray, best, hit>>
  BY DEF Miss
<1>. QED
  BY <1>1, <1>5, <1>6, PassInv

\* A node's two children are where it was: the nearer one next, the other one on
\* the stack.
LEMMA VisitInnerInv ==
    ASSUME BvhAssumption, BvhType, NEW p \in Perms(Len(mesh)), NEW made, TreeInv(made, p),
           VisitInner
    PROVE  /\ BvhType' /\ TreeInv(made, p)'
           /\ Len(stack') <= MaxDepth /\ RayMeetsTheNearest'
<1>1. /\ walk = "walking" /\ nodes[node].count = 0
      /\ node' = Children(node)[1] /\ stack' = Append(stack, Children(node)[2])
      /\ UNCHANGED <<mesh, nodes, calls, tris, refs, first, hole, saved, ray, walk, best, hit>>
  BY DEF VisitInner, Met, built, split
<1>2. /\ Grown(made) /\ Fitted(made, p) /\ calls = <<>> /\ InLeaves(p) /\ Walking(made)
      /\ ray \in Rays /\ node \in DOMAIN nodes
      /\ \A s \in DOMAIN stack : stack[s] \in DOMAIN nodes
      /\ stack \in Seq(Nat) /\ Len(stack) \in Nat /\ DOMAIN stack = 1 .. Len(stack)
      /\ DOMAIN nodes = 1 .. Len(nodes) /\ Len(nodes) \in Nat
  BY <1>1, WalkIs
<1> DEFINE at == nodes[node].index
           L == Len(stack)
<1>3. /\ node + 1 \in DOMAIN nodes /\ at \in DOMAIN nodes
      /\ made[node].depth < MaxDepth /\ made[node].depth \in 0 .. MaxDepth
      /\ made[node + 1].depth = made[node].depth + 1 /\ made[at].depth = made[node].depth + 1
      /\ RunOf(made[node]) = RunOf(made[node + 1]) \cup RunOf(made[at])
  <2>1. Grown(made) /\ calls = <<>> /\ node \in DOMAIN nodes /\ nodes[node].count = 0
    BY <1>1, <1>2
  <2>. HIDE DEF at
  <2>2. Inner(made, node) /\ made[node].depth \in 0 .. MaxDepth
    BY <2>1, NodeIs
  <2>. QED
    BY <2>2 DEF Inner, at
<1>. HIDE DEF at, L
<1>4. PICK k, l : /\ node' = k /\ stack' = Append(stack, l)
                  /\ {k, l} = {node + 1, at}
  <2>1. Children(node) = <<at, node + 1>> \/ Children(node) = <<node + 1, at>>
    BY DEF Children, at
  <2>. QED
    BY <1>1, <2>1
<1>5. /\ k \in DOMAIN nodes /\ l \in DOMAIN nodes /\ k \in Nat /\ l \in Nat
      /\ made[k].depth = made[node].depth + 1 /\ made[l].depth = made[node].depth + 1
      /\ RunOf(made[node]) = RunOf(made[k]) \cup RunOf(made[l])
  <2>1. (k = at /\ l = node + 1) \/ (k = node + 1 /\ l = at)
    BY <1>4
  <2>2. \A x \in DOMAIN nodes : x \in Nat
    BY <1>2
  <2>. QED
    BY <1>3, <2>1, <2>2
<1>6. /\ stack' \in Seq(Nat) /\ Len(stack') = L + 1 /\ DOMAIN stack' = 1 .. L + 1
      /\ \A s \in 1 .. L : stack'[s] = stack[s]
      /\ stack'[L + 1] = l
  <2>1. stack' \in Seq(Nat)
    BY <1>2, <1>4, <1>5
  <2>2. Len(stack') = L + 1 /\ (\A s \in 1 .. L : stack'[s] = stack[s]) /\ stack'[L + 1] = l
    BY <1>2, <1>4, <1>5, AppendProperties DEF L
  <2>. QED
    BY <2>1, <2>2, LenProperties
<1>7. L \in Nat /\ DOMAIN stack = 1 .. L /\ \A s \in 1 .. L + 1 : s \in 1 .. L \/ s = L + 1
  BY <1>2 DEF L
<1>8. /\ made[node].depth >= L /\ \A s \in 1 .. L : made[stack[s]].depth >= s
      /\ MeetsOnly(RunOf(made[node]) \cup OnStack(made), Within) /\ Found(best, hit)
      /\ mesh # <<>>
  BY <1>2, <1>7 DEF Walking, L
<1>9. made[node].depth \in Nat /\ MaxDepth \in Nat
  BY <1>3 DEF BvhAssumption
<1>10. Len(stack') <= MaxDepth
  BY <1>3, <1>6, <1>7, <1>8, <1>9
<1>11. Walking(made)'
  <2>1. made[k].depth >= L + 1 /\ made[l].depth >= L + 1
    BY <1>5, <1>7, <1>8, <1>9
  <2>2. \A s \in 1 .. L + 1 : stack'[s] \in DOMAIN nodes /\ made[stack'[s]].depth >= s
    BY <1>2, <1>5, <1>6, <1>7, <1>8, <2>1
  <2>3. RunOf(made[node]) \cup OnStack(made)
          \subseteq RunOf(made[k]) \cup UNION {RunOf(made[stack'[s]]) : s \in 1 .. L + 1}
    <3>1. RunOf(made[l]) \subseteq UNION {RunOf(made[stack'[s]]) : s \in 1 .. L + 1}
      <4>1. L + 1 \in 1 .. L + 1
        BY <1>7
      <4>. QED
        BY <1>6, <4>1
    <3>2. OnStack(made) \subseteq UNION {RunOf(made[stack'[s]]) : s \in 1 .. L + 1}
      <4>1. \A s \in 1 .. L : s \in 1 .. L + 1 /\ RunOf(made[stack'[s]]) = RunOf(made[stack[s]])
        BY <1>6, <1>7
      <4>. QED
        BY <1>7, <4>1 DEF OnStack
    <3>. QED
      BY <1>5, <3>1, <3>2
  <2>4. MeetsOnly(RunOf(made[node]) \cup OnStack(made), Within)'
    <3>1. Within' = Within
      BY <1>1 DEF Within
    <3>. QED
      BY <1>1, <1>4, <1>6, <1>8, <2>3, <3>1 DEF MeetsOnly, OnStack, RunOf
  <2>5. Found(best, hit)'
    BY <1>1, <1>8 DEF Found
  <2>. QED
    BY <1>1, <1>2, <1>4, <1>5, <1>6, <1>8, <2>1, <2>2, <2>4, <2>5 DEF Walking
<1>12. BvhType'
  BY <1>1, <1>4, <1>5, <1>6 DEF BvhType
<1>13. Grown(made)' /\ Fitted(made, p)'
  BY <1>1, <1>2, MadeStays DEF split
<1>14. TreeInv(made, p)'
  BY <1>1, <1>2, <1>11, <1>13 DEF TreeInv, InLeaves
<1>15. RayMeetsTheNearest'
  BY <1>1 DEF RayMeetsTheNearest
<1>. QED
  BY <1>10, <1>12, <1>14, <1>15

\* The nearest of a leaf's candidates: the first in the order of the distances,
\* and of the triangles where these are the same.
LEMMA NearestIs ==
    ASSUME NEW near, IsFiniteSet(near), near # {}, NEW f, \A i \in near : i \in Nat /\ f[i] \in Int
    PROVE  LET nearest == CHOOSE i \in near : \A k \in near : f[i] < f[k] \/ (f[i] = f[k] /\ i <= k)
           IN  nearest \in near /\ \A k \in near : f[nearest] <= f[k]
<1> DEFINE Before(i, k) == f[i] < f[k] \/ (f[i] = f[k] /\ i < k)
           Least(i) == \A k \in near : f[i] < f[k] \/ (f[i] = f[k] /\ i <= k)
           R == {x \in near \X near : Before(x[1], x[2])}
<1>1. \A i, k \in near : <<i, k>> \in R <=> Before(i, k)
  OBVIOUS
<1>2. \A i \in near : i \in Nat /\ f[i] \in Int
  OBVIOUS
<1>. HIDE DEF R
<1>3. TotalOrder(near, R)
  <2>1. \A i \in near : ~Before(i, i)
    BY <1>2
  <2>2. \A i, j, k \in near : Before(i, j) /\ Before(j, k) => Before(i, k)
    BY <1>2
  <2>3. \A i, j \in near : i # j => Before(i, j) \/ Before(j, i)
    BY <1>2
  <2>. HIDE DEF Before
  <2>. QED
    BY <1>1, <2>1, <2>2, <2>3 DEF TotalOrder
<1>4. PICK i \in near : \A k \in near \ {i} : <<i, k>> \in R
  <2>1. IsFiniteSet(near) /\ near # {}
    OBVIOUS
  <2>. HIDE DEF Before, Least
  <2>2. \E i \in near : \A k \in near \ {i} : <<i, k>> \in R
    BY <1>3, <2>1, FirstOf
  <2>. QED
    BY <2>2
<1>5. Least(i)
  <2>1. ASSUME NEW k \in near PROVE f[i] < f[k] \/ (f[i] = f[k] /\ i <= k)
    <3>1. CASE k = i
      BY <1>2, <3>1
    <3>2. CASE k # i
      <4>1. Before(i, k)
        BY <1>1, <1>4, <3>2
      <4>. QED
        BY <1>2, <4>1
    <3>. QED
      BY <3>1, <3>2
  <2>. QED
    BY <2>1
<1> DEFINE least == CHOOSE j \in near : Least(j)
<1>6. least \in near /\ Least(least)
  <2>. HIDE DEF Least
  <2>. QED
    BY <1>5
<1>7. \A k \in near : f[least] <= f[k]
  <2>. HIDE DEF least
  <2>. QED
    BY <1>2, <1>6
<1>. QED
  BY <1>6, <1>7

\* What a leaf's visit finds is the nearest of what the ray may still meet.
LEMMA VisitLeafInv ==
    ASSUME BvhAssumption, BvhType, NEW p \in Perms(Len(mesh)), NEW made, TreeInv(made, p),
           VisitLeaf
    PROVE  /\ BvhType' /\ TreeInv(made, p)'
           /\ Len(stack') <= Len(stack) /\ RayMeetsTheNearest'
<1> DEFINE near == Candidates(node)
           dist(i) == CHOOSE d \in Crossings(ray, tris[i]) : TRUE
           nearest == CHOOSE i \in near : \A k \in near :
                        dist(i) < dist(k) \/ (dist(i) = dist(k) /\ i <= k)
           found == IF ray.any THEN Min(near) ELSE nearest
<1>1. /\ walk = "walking" /\ nodes[node].count > 0
      /\ UNCHANGED <<mesh, nodes, calls, tris, refs, first, hole, saved, ray>>
      /\ UNCHANGED <<built, ray>>
      /\ IF near = {} THEN Pop /\ UNCHANGED <<best, hit>>
         ELSE /\ best' = dist(found) /\ hit' = found
              /\ IF ray.any THEN walk' = "done" /\ UNCHANGED <<node, stack>> ELSE Pop
  BY DEF VisitLeaf, Met, built, split
<1>2. /\ Grown(made) /\ Fitted(made, p) /\ calls = <<>> /\ InLeaves(p) /\ Walking(made)
      /\ ray \in Rays /\ node \in DOMAIN nodes
      /\ Len(stack) \in Nat
      /\ Within \in Int /\ Within <= ray.high
  BY <1>1, WalkIs
<1>3. /\ RunOf(made[node]) \subseteq DOMAIN mesh
      /\ nodes[node].index .. nodes[node].index + nodes[node].count - 1 = RunOf(made[node])
  <2>1. Grown(made) /\ calls = <<>> /\ node \in DOMAIN nodes /\ nodes[node].count > 0
    BY <1>1, <1>2
  <2>. QED
    BY <2>1, NodeIs
<1>4. /\ near = {i \in RunOf(made[node]) :
                   \E d \in Crossings(ray, tris[i]) : ray.low < d /\ d < Within}
      /\ near \subseteq DOMAIN mesh
  BY <1>3 DEF Candidates
<1>5. MeetsOnly(RunOf(made[node]) \cup OnStack(made), Within) /\ Found(best, hit) /\ mesh # <<>>
  BY <1>2 DEF Walking
<1>. HIDE DEF near
<1>6. CASE near = {}
  <2>1. Pop /\ UNCHANGED <<built, ray, best, hit>>
    BY <1>1, <1>6
  <2>2. MeetsOnly(DOMAIN mesh \ RunOf(made[node]), Within)
    BY <1>4, <1>6 DEF MeetsOnly
  <2>. QED
    BY <1>1, <2>1, <2>2, PassInv
<1>7. CASE near # {}
  <2>1. DOMAIN mesh = 1 .. Len(mesh) /\ Len(mesh) \in Nat /\ DOMAIN tris = 1 .. Len(mesh)
    BY MeshIs
  <2>2. IsFiniteSet(near) /\ near \subseteq Nat
    <3>1. IsFiniteSet(1 .. Len(mesh)) /\ near \subseteq 1 .. Len(mesh)
      BY <1>4, <2>1, OneTo
    <3>. QED
      <4>1. IsFiniteSet(near)
        BY <3>1, FS_Subset
      <4>2. 1 .. Len(mesh) \subseteq Nat
        BY <2>1
      <4>. QED
        BY <3>1, <4>1, <4>2
  <2>3. ASSUME NEW i \in DOMAIN mesh, NEW d \in Crossings(ray, tris[i])
        PROVE  d \in Int /\ dist(i) = d
    <3>1. tris[i] \in Triangles
      BY MeshIs
    <3>2. d \in Int /\ \A e \in Crossings(ray, tris[i]) : e = d
      BY <1>2, <3>1, CrossingIs
    <3>. QED
      BY <3>2
  <2>. HIDE DEF dist
  <2>4. ASSUME NEW i \in near
        PROVE  /\ dist(i) \in Int /\ dist(i) \in Crossings(ray, tris[i])
               /\ ray.low < dist(i) /\ dist(i) < Within
    <3>1. PICK d \in Crossings(ray, tris[i]) : ray.low < d /\ d < Within
      BY <1>4
    <3>2. i \in DOMAIN mesh
      BY <1>4
    <3>3. d \in Int /\ dist(i) = d
      BY <2>3, <3>2
    <3>. QED
      BY <3>1, <3>3
  <2>5. found \in near /\ (~ray.any => \A k \in near : dist(found) <= dist(k))
    <3>1. CASE ray.any
      <4> DEFINE same == [i \in near |-> i]
      <4>1. same \in [near -> Int] /\ {same[x] : x \in near} = near
        <5>1. \A i \in near : i \in Int
          BY <2>2
        <5>2. \A i \in near : same[i] = i
          OBVIOUS
        <5>3. same \in [near -> Int]
          BY <5>1
        <5>. HIDE DEF same
        <5>. QED
          BY <5>2, <5>3
      <4>. HIDE DEF same
      <4>2. \E x \in near : Min({same[y] : y \in near}) = same[x]
        BY <1>7, <2>2, <4>1, Extremes
      <4>3. Min(near) \in near
        <5>1. \A x \in near : same[x] = x
          BY DEF same
        <5>. QED
          BY <4>1, <4>2, <5>1
      <4>. QED
        BY <3>1, <4>3
    <3>2. CASE ~ray.any
      <4> DEFINE f == [i \in near |-> dist(i)]
                 least == CHOOSE i \in near : \A k \in near :
                            f[i] < f[k] \/ (f[i] = f[k] /\ i <= k)
      <4>1. f \in [near -> Int] /\ \A i \in near : f[i] = dist(i)
        BY <2>4
      <4>. HIDE DEF f
      <4>2. least \in near /\ \A k \in near : f[least] <= f[k]
        BY <1>7, <2>2, <4>1, NearestIs
      <4>3. least = nearest
        BY <4>1
      <4>. HIDE DEF least, nearest
      <4>4. nearest \in near /\ \A k \in near : dist(nearest) <= dist(k)
        BY <4>1, <4>2, <4>3
      <4>. QED
        BY <3>2, <4>4
    <3>. QED
      BY <3>1, <3>2
  <2>. HIDE DEF found
  <2>6. PICK b, h : b = dist(found) /\ h = found
    OBVIOUS
  <2>7. /\ best' = b /\ hit' = h
        /\ IF ray.any THEN walk' = "done" /\ UNCHANGED <<node, stack>> ELSE Pop
    BY <1>1, <1>7, <2>6
  <2>8. /\ h \in near /\ b = dist(h) /\ b \in Int /\ b \in Crossings(ray, tris[h])
        /\ ray.low < b /\ b < Within
        /\ ~ray.any => \A k \in near : b <= dist(k)
    BY <2>4, <2>5, <2>6
  <2>9. ray.high \in Nat /\ best \in Int /\ ray.low \in Nat
    BY <1>2, RayIs DEF BvhType
  <2>10. b < ray.high
    BY <1>2, <2>8, <2>9
  <2>11. h \in DOMAIN mesh /\ h \in DOMAIN tris /\ h # 0 /\ h \in 0 .. Len(mesh)
    BY <1>4, <2>1, <2>8
  <2>12. CASE ray.any
    <3>1. walk' = "done" /\ node' = node /\ stack' = stack
      BY <2>7, <2>12
    <3>2. Answer(b, h)
      BY <1>2, <2>8, <2>10, <2>11, <2>12, AnswerIs
    <3>3. BvhType'
      BY <1>1, <2>7, <2>8, <2>11, <3>1 DEF BvhType
    <3>4. Grown(made)' /\ Fitted(made, p)'
      BY <1>1, <1>2, MadeStays DEF split
    <3>5. TreeInv(made, p)'
      BY <1>1, <1>2, <3>1, <3>4 DEF TreeInv, InLeaves
    <3>6. RayMeetsTheNearest'
      BY <1>1, <2>7, <3>2, AnswerStays
    <3>. QED
      BY <1>2, <3>1, <3>3, <3>5, <3>6
  <2>13. CASE ~ray.any
    <3>1. Pop
      BY <2>7, <2>13
    <3>2. Within = best
      BY <2>13 DEF Within
    <3>3. ASSUME NEW i \in DOMAIN mesh, NEW d \in Crossings(ray, tris[i]), ray.low < d, d < b
          PROVE  i \in OnStack(made)
      <4>1. d \in Int /\ dist(i) = d
        BY <2>3
      <4>2. d < Within
        BY <1>2, <2>8, <3>3, <4>1
      <4>3. i \notin near
        BY <2>8, <2>13, <3>3, <4>1
      <4>4. i \notin RunOf(made[node])
        BY <1>4, <3>3, <4>2, <4>3
      <4>. QED
        BY <1>5, <3>3, <4>2, <4>4 DEF MeetsOnly
    <3>4. MeetsOnly(OnStack(made), IF ray.any THEN ray.high ELSE b)
      BY <2>13, <3>3 DEF MeetsOnly
    <3>5. Found(b, h)
      BY <2>8, <2>10, <2>11, <2>13 DEF Found
    <3>6. Onward(made, b, h)
      BY <2>7, <2>8, <2>11, <3>4, <3>5 DEF Onward
    <3>7. /\ BvhType' /\ TreeInv(made, p)'
          /\ Len(stack') <= Len(stack) /\ (walk' = "done" => Answer(b, h))
      BY <1>1, <3>1, <3>6, PopInv
    <3>8. RayMeetsTheNearest'
      BY <1>1, <2>7, <3>7, AnswerStays
    <3>. QED
      BY <3>7, <3>8
  <2>. QED
    BY <2>12, <2>13
<1>. QED
  BY <1>6, <1>7

-----------------------------------------------------------------------------
(* The tree that is built. *)

\* What is under a node is its run: from the last node down, a leaf's triangles
\* or what is under two nodes that come after it.
LEMMA UnderIs ==
    ASSUME BvhAssumption, BvhType, NEW made, Grown(made), calls = <<>>
    PROVE  \A k \in DOMAIN nodes : Under(nodes)[k] = RunOf(made[k])
<1> DEFINE L == Len(nodes)
           leaf(n) == nodes[n].index .. nodes[n].index + nodes[n].count - 1
           Is(f) == f = [n \in DOMAIN nodes |->
                           IF nodes[n].count > 0 THEN leaf(n) ELSE f[n + 1] \cup f[nodes[n].index]]
           runs == [k \in DOMAIN nodes |-> RunOf(made[k])]
           under == CHOOSE f : Is(f)
           Good(f) == {m \in 0 .. L : \A k \in DOMAIN nodes : k > L - m => f[k] = RunOf(made[k])}
<1>1. L \in Nat /\ DOMAIN nodes = 1 .. L /\ nodes \in Seq(Nodes)
  <2>1. nodes \in Seq(Nodes)
    BY DEF BvhType
  <2>. QED
    BY <2>1, LenProperties
<1>2. ASSUME NEW k \in DOMAIN nodes
      PROVE  /\ nodes[k].count > 0 => leaf(k) = RunOf(made[k])
             /\ nodes[k].count > 0 \/ nodes[k].count = 0
             /\ nodes[k].count = 0 =>
                  /\ k + 1 \in DOMAIN nodes /\ nodes[k].index \in DOMAIN nodes
                  /\ k + 1 > k /\ nodes[k].index > k
                  /\ RunOf(made[k]) = RunOf(made[k + 1]) \cup RunOf(made[nodes[k].index])
  <2>1. nodes[k].count > 0 => leaf(k) = RunOf(made[k])
    BY NodeIs
  <2>2. nodes[k].count = 0 => Inner(made, k)
    BY NodeIs
  <2>3. nodes[k].count \in Nat
    <3>1. nodes[k] \in Nodes
      BY <1>1, ElementOfSeq
    <3>. QED
      BY <3>1 DEF Nodes
  <2>4. Inner(made, k) => /\ k + 1 \in DOMAIN nodes /\ nodes[k].index \in DOMAIN nodes
                          /\ k + 1 > k /\ nodes[k].index > k
                          /\ RunOf(made[k]) = RunOf(made[k + 1]) \cup RunOf(made[nodes[k].index])
    BY <1>1 DEF Inner
  <2>5. nodes[k].count > 0 \/ nodes[k].count = 0
    BY <2>3
  <2>. HIDE DEF leaf
  <2>. QED
    BY <2>1, <2>2, <2>4, <2>5
<1>. HIDE DEF leaf, L
<1>3. Is(runs)
  <2>1. ASSUME NEW n \in DOMAIN nodes
        PROVE  runs[n] = IF nodes[n].count > 0 THEN leaf(n) ELSE runs[n + 1] \cup runs[nodes[n].index]
    BY <1>2
  <2>2. runs = [n \in DOMAIN nodes |-> runs[n]]
    OBVIOUS
  <2>. HIDE DEF runs
  <2>. QED
    BY <2>1, <2>2
<1>4. Is(under)
  <2>1. \E f : Is(f)
    BY <1>3
  <2>. HIDE DEF Is
  <2>. QED
    BY <2>1
<1>5. Under(nodes) = under
  BY DEF Under, leaf
<1>. HIDE DEF under
<1>6. 0 .. L \subseteq Good(under)
  <2>1. 0 \in Good(under)
    BY <1>1
  <2>2. ASSUME NEW m \in 1 .. L, m - 1 \in Good(under) PROVE m \in Good(under)
    <3>1. ASSUME NEW k \in DOMAIN nodes, k > L - m PROVE under[k] = RunOf(made[k])
      <4>1. \A i \in DOMAIN nodes : i > L - m + 1 => under[i] = RunOf(made[i])
        <5>1. L - (m - 1) = L - m + 1
          BY <1>1
        <5>. QED
          BY <2>2, <5>1
      <4>2. \A i \in DOMAIN nodes : i > k => i > L - m + 1
        BY <1>1, <3>1
      <4>3. under[k] = IF nodes[k].count > 0 THEN leaf(k) ELSE under[k + 1] \cup under[nodes[k].index]
        BY <1>4
      <4>4. CASE nodes[k].count > 0
        BY <1>2, <4>3, <4>4
      <4>5. CASE nodes[k].count = 0
        <5>1. ~(nodes[k].count > 0)
          BY <4>5
        <5>2. /\ under[k + 1] = RunOf(made[k + 1])
              /\ under[nodes[k].index] = RunOf(made[nodes[k].index])
          BY <1>2, <4>1, <4>2, <4>5
        <5>. QED
          BY <1>2, <4>3, <4>5, <5>1, <5>2
      <4>. QED
        BY <1>2, <4>4, <4>5
    <3>2. m \in 0 .. L
      BY <1>1
    <3>. QED
      BY <3>1, <3>2
  <2>. HIDE DEF Good
  <2>. QED
    BY <1>1, <2>1, <2>2, UpTo
<1>7. L \in Good(under)
  <2>. HIDE DEF Good
  <2>1. L \in 0 .. L
    BY <1>1
  <2>. QED
    BY <1>6, <2>1
<1>8. \A k \in DOMAIN nodes : k > L - L
  BY <1>1
<1>. QED
  BY <1>5, <1>7, <1>8

\* Each triangle is as often in the order of the leaves as in the mesh.
LEMMA AsOften ==
    ASSUME BvhAssumption, BvhType, NEW p \in Perms(Len(mesh)), InLeaves(p), NEW t
    PROVE  Cardinality({i \in DOMAIN tris : tris[i] = t}) = Cardinality({i \in DOMAIN mesh : mesh[i] = t})
<1> DEFINE N == Len(mesh)
           A == {i \in DOMAIN tris : tris[i] = t}
           B == {i \in DOMAIN mesh : mesh[i] = t}
           f == [i \in A |-> p[i]]
<1>1. N \in Nat /\ DOMAIN mesh = 1 .. N /\ DOMAIN tris = 1 .. N
  BY MeshIs
<1>2. /\ p \in [1 .. N -> 1 .. N] /\ \A i, j \in 1 .. N : p[i] = p[j] => i = j
      /\ \A v \in 1 .. N : \E i \in 1 .. N : p[i] = v
  BY DEF Perms
<1>3. \A i \in 1 .. N : tris[i] = mesh[p[i]]
  BY <1>1 DEF InLeaves
<1>. HIDE DEF N
<1>4. /\ f \in [A -> B] /\ \A i, j \in A : f[i] = f[j] => i = j
      /\ \A v \in B : \E i \in A : f[i] = v
  <2>1. \A i \in A : p[i] \in B
    BY <1>1, <1>2, <1>3
  <2>2. \A i, j \in A : p[i] = p[j] => i = j
    BY <1>1, <1>2
  <2>3. \A v \in B : \E i \in A : p[i] = v
    <3>1. ASSUME NEW v \in B PROVE \E i \in A : p[i] = v
      <4>1. v \in 1 .. N /\ mesh[v] = t
        BY <1>1
      <4>2. PICK i \in 1 .. N : p[i] = v
        BY <1>2, <4>1
      <4>3. i \in A
        BY <1>1, <1>3, <4>1, <4>2
      <4>. QED
        BY <4>2, <4>3
    <3>. QED
      BY <3>1
  <2>. HIDE DEF A, B
  <2>. QED
    BY <2>1, <2>2, <2>3
<1>5. IsFiniteSet(A)
  <2>1. IsFiniteSet(1 .. N) /\ A \subseteq 1 .. N
    BY <1>1, OneTo
  <2>. QED
    BY <2>1, FS_Subset
<1>. HIDE DEF A, B, f
<1>6. f \in Bijection(A, B)
  BY <1>4 DEF Bijection, Injection, Surjection, IsInjective
<1>7. Cardinality(B) = Cardinality(A)
  BY <1>5, <1>6, FS_Bijection DEF ExistsBijection
<1>. QED
  BY <1>7 DEF A, B

\* The tree is whole when it is ready.
LEMMA WholeIs ==
    ASSUME BvhAssumption, BvhType, NEW p \in Perms(Len(mesh)), NEW made, TreeInv(made, p),
           walk = "ready"
    PROVE  Whole
<1> DEFINE under == Under(nodes)
<1>1. Grown(made) /\ Fitted(made, p) /\ calls = <<>> /\ InLeaves(p)
  BY DEF TreeInv, InLeaves
<1>2. \A k \in DOMAIN nodes : under[k] = RunOf(made[k])
  BY <1>1, UnderIs
<1>3. DOMAIN tris = DOMAIN mesh
  BY MeshIs
<1>. HIDE DEF under
<1>4. SUFFICES ASSUME mesh # <<>>
      PROVE  /\ under[1] = DOMAIN mesh
             /\ \A i \in DOMAIN mesh : Cardinality({j \in DOMAIN tris : tris[j] = mesh[i]})
                                         = Cardinality({j \in DOMAIN mesh : mesh[j] = mesh[i]})
             /\ \A n \in DOMAIN nodes : nodes[n].count = 0 =>
                    /\ nodes[n].index \in n + 2 .. Len(nodes) /\ nodes[n].axis \in Axes
                    /\ under[n + 1] \cap under[nodes[n].index] = {}
             /\ \A n \in DOMAIN nodes : \A i \in under[n] : \A a \in Axes :
                    /\ nodes[n].box.lo[a] <= Lowest(tris[i], a)
                    /\ Highest(tris[i], a) <= nodes[n].box.hi[a]
  BY <1>3 DEF Whole, under
<1>5. under[1] = DOMAIN mesh
  BY <1>1, <1>2, <1>4, RootIs
<1>6. \A i \in DOMAIN mesh : Cardinality({j \in DOMAIN tris : tris[j] = mesh[i]})
                               = Cardinality({j \in DOMAIN mesh : mesh[j] = mesh[i]})
  BY <1>1, AsOften
<1>7. ASSUME NEW n \in DOMAIN nodes, nodes[n].count = 0
      PROVE  /\ nodes[n].index \in n + 2 .. Len(nodes) /\ nodes[n].axis \in Axes
             /\ under[n + 1] \cap under[nodes[n].index] = {}
  <2>1. Inner(made, n)
    BY <1>1, <1>7, NodeIs
  <2>. QED
    BY <1>2, <2>1 DEF Inner
<1>8. ASSUME NEW n \in DOMAIN nodes, NEW i \in under[n], NEW a \in Axes
      PROVE  /\ nodes[n].box.lo[a] <= Lowest(tris[i], a)
             /\ Highest(tris[i], a) <= nodes[n].box.hi[a]
  <2>1. i \in RunOf(made[n])
    BY <1>2
  <2>2. i \in DOMAIN mesh
    BY <1>1, <2>1, NodeIs
  <2>3. Bounds(nodes[n].box, mesh[p[i]])
    BY <1>1, <2>1 DEF Fitted
  <2>4. tris[i] = mesh[p[i]]
    BY <1>1, <2>2 DEF InLeaves
  <2>. QED
    BY <2>3, <2>4 DEF Bounds
<1>. QED
  BY <1>5, <1>6, <1>7, <1>8

-----------------------------------------------------------------------------
(* The inductive invariant: what made the tree, how its triangles are moved, *)
(* and what a ray on its way has not come to.                                *)
BvhInv ==
  /\ BvhType
  /\ \E p \in Perms(Len(mesh)) : \E made : TreeInv(made, p)
  /\ StackFits
  /\ RayMeetsTheNearest

\* It holds of a mesh whose tree is not begun,
LEMMA BvhStart ==
    ASSUME BvhAssumption, BvhInit
    PROVE  BvhInv
<1>1. /\ BvhType /\ walk = "split" /\ stack = <<>>
      /\ \E p \in Perms(Len(mesh)) : \E made : TreeInv(made, p)
  BY TreeStarts
<1>2. StackFits
  <2>1. Len(stack) = 0
    BY <1>1
  <2>. QED
    BY <2>1 DEF StackFits, BvhAssumption
<1>3. RayMeetsTheNearest
  BY <1>1 DEF RayMeetsTheNearest
<1>. QED
  BY <1>1, <1>2, <1>3 DEF BvhInv

\* and every step of the build and of a ray keeps it.
LEMMA BvhStep ==
    ASSUME BvhAssumption, BvhInv, [BvhNext]_bvhVars
    PROVE  BvhInv'
<1>1. BvhType /\ StackFits /\ RayMeetsTheNearest
  BY DEF BvhInv
<1>2. PICK p \in Perms(Len(mesh)) : \E made : TreeInv(made, p)
  BY DEF BvhInv
<1>3. PICK made : TreeInv(made, p)
  BY <1>2
<1>4. Len(stack) \in Nat /\ MaxDepth \in Nat /\ Len(stack) <= MaxDepth
  <2>1. stack \in Seq(Nat)
    BY <1>1 DEF BvhType
  <2>. QED
    BY <1>1, <2>1, LenProperties DEF StackFits, BvhAssumption
<1>5. ASSUME BvhType', TreeInv(made, p)', UNCHANGED mesh, Len(stack') <= MaxDepth,
             RayMeetsTheNearest'
      PROVE  BvhInv'
  <2>1. \E q \in Perms(Len(mesh')) : \E more : TreeInv(more, q)'
    BY <1>5
  <2>. QED
    BY <1>5, <2>1 DEF BvhInv, StackFits
<1>6. CASE BuildNode
  <2>1. /\ BvhType' /\ walk' = "split" /\ UNCHANGED <<mesh, stack>>
        /\ \E q \in Perms(Len(mesh)) : \E more : TreeInv(more, q)'
    BY <1>1, <1>3, <1>6, BuildNodeInv
  <2>2. RayMeetsTheNearest'
    BY <2>1 DEF RayMeetsTheNearest
  <2>. QED
    BY <1>1, <2>1, <2>2 DEF BvhInv, StackFits
<1>7. CASE EndSplit \/ StartCycle \/ FollowCycle \/ EndBuild
  <2>1. /\ BvhType' /\ walk' \in {"place", "ready"}
        /\ UNCHANGED <<mesh, stack>> /\ TreeInv(made, p)'
    BY <1>1, <1>3, <1>7, PlacingInv
  <2>2. RayMeetsTheNearest'
    BY <2>1 DEF RayMeetsTheNearest
  <2>. QED
    BY <1>4, <1>5, <2>1, <2>2
<1>8. CASE Cast
  <2>1. BvhType' /\ TreeInv(made, p)' /\ Len(stack') = 0 /\ RayMeetsTheNearest'
    BY <1>1, <1>3, <1>8, CastInv
  <2>2. UNCHANGED mesh
    BY <1>8 DEF Cast, built, split
  <2>. QED
    BY <1>4, <1>5, <2>1, <2>2
<1>9. CASE VisitInner
  <2>1. BvhType' /\ TreeInv(made, p)' /\ Len(stack') <= MaxDepth /\ RayMeetsTheNearest'
    BY <1>1, <1>3, <1>9, VisitInnerInv
  <2>2. UNCHANGED mesh
    BY <1>9 DEF VisitInner, built, split
  <2>. QED
    BY <1>5, <2>1, <2>2
<1>10. CASE VisitLeaf \/ Miss
  <2>1. BvhType' /\ TreeInv(made, p)' /\ Len(stack') <= Len(stack) /\ RayMeetsTheNearest'
    BY <1>1, <1>3, <1>10, VisitLeafInv, MissInv
  <2>2. UNCHANGED mesh
    BY <1>10 DEF VisitLeaf, Miss, built, split
  <2>3. Len(stack') \in Nat
    <3>1. stack' \in Seq(Nat)
      BY <2>1 DEF BvhType
    <3>. QED
      BY <3>1, LenProperties
  <2>. QED
    BY <1>4, <1>5, <2>1, <2>2, <2>3
<1>11. CASE UNCHANGED bvhVars
  <2>1. UNCHANGED <<mesh, tris, nodes, refs, calls, first, hole, saved, ray, walk, node,
                    stack, best, hit>>
    BY <1>11 DEF bvhVars
  <2>2. BvhType'
    BY <1>1, <2>1 DEF BvhType
  <2>3. Grown(made) /\ Fitted(made, p)
    BY <1>3 DEF TreeInv
  <2>4. Grown(made)' /\ Fitted(made, p)'
    BY <2>1, <2>3, MadeStays DEF split
  <2>5. Placing(p) => Placing(p)'
    BY <2>1 DEF Placing
  <2>6. Walking(made) => Walking(made)'
    <3>1. Within' = Within /\ OnStack(made)' = OnStack(made)
      BY <2>1 DEF Within, OnStack, RunOf
    <3>. QED
      BY <2>1, <3>1 DEF Walking, MeetsOnly, Found, RunOf
  <2>7. TreeInv(made, p)'
    BY <1>3, <2>1, <2>4, <2>5, <2>6 DEF TreeInv
  <2>8. RayMeetsTheNearest'
    BY <1>1, <2>1 DEF RayMeetsTheNearest
  <2>. QED
    BY <1>4, <1>5, <2>1, <2>2, <2>7, <2>8
<1>. QED
  BY <1>6, <1>7, <1>8, <1>9, <1>10, <1>11 DEF BvhNext

\* The tree over a mesh answers every ray as its triangles tried one by one
\* would, never runs over its stack, and holds each triangle in one leaf and
\* in every box above it, however the mesh was split and the ray goes.
THEOREM TreeOfTheMesh == BvhSpec => []TreeIsTheMesh
<1>1. BvhInit => BvhInv
  BY BvhAssumption, BvhStart
<1>2. BvhInv /\ [BvhNext]_bvhVars => BvhInv'
  BY BvhAssumption, BvhStep
<1>3. BvhInv => TreeIsTheMesh
  BY BvhAssumption, WholeIs DEF BvhInv, TreeIsTheMesh
<1>. QED
  BY <1>1, <1>2, <1>3, PTL DEF BvhSpec
=============================================================================
