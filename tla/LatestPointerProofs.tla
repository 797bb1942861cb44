------------------------ MODULE LatestPointerProofs ------------------------
(***************************************************************************)
(* Theorems about LatestPointer, for any number of callers and refreshers   *)
(* and any number of published builds.                                      *)
(***************************************************************************)
EXTENDS LatestPointer, TLAPS

(* inflight is exactly the refresh that has not ended: it is set in the     *)
(* critical section that starts one and cleared in the one that ends it.    *)
InflightIsRefresh == \A r \in Refreshers : r \in Refreshing <=> inflight = r

(* src, resolved and good are set together.                                 *)
SourceState ==
  /\ ~resolved => src = NoSource /\ ~good
  /\ resolved => src \in Sources
  /\ good <=> src \in Builds

WaitsOnChannel == \A c \in Callers : wait[c] # NoRefresh <=> pc[c] = "waiting"

(* A build read by the one refresh under way is at least as new as the      *)
(* adopted one.                                                             *)
ReadsAhead ==
  /\ src \in Builds => src <= head
  /\ \A r \in Refreshers : rpc[r] \in {"manifest", "adopt"} =>
       /\ got[r] \in Builds /\ got[r] <= head
       /\ src \in Builds => src <= got[r]

IInv ==
  /\ TypeOK
  /\ InflightIsRefresh
  /\ SourceState
  /\ WaitsOnChannel
  /\ NobodyWaitsInVain
  /\ ReadsAhead

LEMMA InitIInv == Init => IInv
<1> SUFFICES ASSUME Init PROVE IInv
  OBVIOUS
<1>1. NoSource \notin Builds
  BY SourceAssumption DEF Builds
<1>2. TypeOK
  <2>1. head \in Nat
    BY DEF Init
  <2>2. got \in [Refreshers -> Nat] /\ answer \in [Callers -> Sources \cup {NoSource}]
    BY DEF Init
  <2> QED
    BY <2>1, <2>2 DEF Init, TypeOK
<1>3. InflightIsRefresh /\ SourceState /\ WaitsOnChannel
  BY <1>1, NoRefreshAssumption DEF Init, InflightIsRefresh, Refreshing, SourceState, WaitsOnChannel
<1>4. NobodyWaitsInVain /\ ReadsAhead
  BY <1>1 DEF Init, NobodyWaitsInVain, ReadsAhead
<1> QED
  BY <1>2, <1>3, <1>4 DEF IInv

LEMMA GetStep ==
  ASSUME IInv, NEW c \in Callers,
         GetFresh(c) \/ GetJoin(c) \/ (\E r \in Refreshers : GetStart(c, r)) \/ Wake(c)
  PROVE  IInv'
<1> USE DEF IInv
<1>1. CASE GetFresh(c)
  <2>1. /\ UNCHANGED <<src, resolved, good, fresh, inflight, pc, wait, rpc, got, manifests, head, up>>
        /\ answer' = [answer EXCEPT ![c] = src]
    BY <1>1 DEF GetFresh, pointerVars, refreshVars, hostVars
  <2> QED
    BY <2>1 DEF TypeOK, InflightIsRefresh, Refreshing, SourceState, WaitsOnChannel,
                NobodyWaitsInVain, ReadsAhead
<1>2. CASE GetJoin(c)
  <2>1. /\ UNCHANGED <<src, resolved, good, fresh, inflight, rpc, got, manifests, head, up>>
        /\ inflight # NoRefresh /\ AnswerOrWait(c, inflight)
    BY <1>2 DEF GetJoin, pointerVars, refreshVars, hostVars
  <2>2. TypeOK'
    BY <2>1 DEF TypeOK, AnswerOrWait
  <2>3. InflightIsRefresh' /\ SourceState' /\ ReadsAhead'
    BY <2>1 DEF InflightIsRefresh, Refreshing, SourceState, ReadsAhead
  <2>4. WaitsOnChannel' /\ NobodyWaitsInVain'
    BY <2>1 DEF TypeOK, AnswerOrWait, WaitsOnChannel, NobodyWaitsInVain, InflightIsRefresh, Refreshing
  <2> QED
    BY <2>2, <2>3, <2>4
<1>3. ASSUME NEW r \in Refreshers, GetStart(c, r) PROVE IInv'
  <2>1. /\ UNCHANGED <<src, resolved, good, fresh, got, manifests, head, up>>
        /\ inflight = NoRefresh /\ inflight' = r /\ rpc' = [rpc EXCEPT ![r] = "pointer"]
        /\ rpc[r] = "idle" /\ \A d \in Callers : wait[d] # r
        /\ AnswerOrWait(c, r)
    BY <1>3 DEF GetStart, Free, hostVars
  <2>2. TypeOK'
    BY <2>1 DEF TypeOK, AnswerOrWait
  <2>3. InflightIsRefresh'
    BY <2>1, NoRefreshAssumption DEF InflightIsRefresh, Refreshing, TypeOK
  <2>4. SourceState' /\ ReadsAhead'
    BY <2>1 DEF SourceState, ReadsAhead, TypeOK
  <2>5. WaitsOnChannel'
    BY <2>1, NoRefreshAssumption DEF AnswerOrWait, WaitsOnChannel, TypeOK
  <2>6. NobodyWaitsInVain'
    <3>1. \A d \in Callers : pc[d] = "waiting" => resolved
      BY <2>1, NoRefreshAssumption DEF NobodyWaitsInVain, InflightIsRefresh
    <3> QED
      BY <2>1, <3>1 DEF AnswerOrWait, NobodyWaitsInVain, Refreshing, TypeOK
  <2> QED
    BY <2>2, <2>3, <2>4, <2>5, <2>6
<1>4. CASE Wake(c)
  <2>1. /\ UNCHANGED <<src, resolved, good, fresh, inflight, rpc, got, manifests, head, up>>
        /\ answer' = [answer EXCEPT ![c] = src] /\ pc' = [pc EXCEPT ![c] = "idle"]
        /\ wait' = [wait EXCEPT ![c] = NoRefresh]
    BY <1>4 DEF Wake, pointerVars, refreshVars, hostVars
  <2> QED
    BY <2>1 DEF TypeOK, InflightIsRefresh, Refreshing, SourceState, WaitsOnChannel,
                NobodyWaitsInVain, ReadsAhead
<1> QED
  BY <1>1, <1>2, <1>3, <1>4

LEMMA RefreshStep ==
  ASSUME IInv, NEW r \in Refreshers, Refresh(r)
  PROVE  IInv'
<1> USE DEF IInv
<1>1. CASE ReadPointer(r)
  <2>1. /\ UNCHANGED <<src, resolved, good, fresh, inflight, pc, wait, answer, manifests, head, up>>
        /\ rpc[r] = "pointer"
        /\ \/ /\ head # 0 /\ got' = [got EXCEPT ![r] = head]
              /\ rpc' = [rpc EXCEPT ![r] = "manifest"]
           \/ got' = got /\ rpc' = [rpc EXCEPT ![r] = "failed"]
    BY <1>1 DEF ReadPointer, pointerVars, callerVars, hostVars
  <2>2. TypeOK' /\ SourceState' /\ WaitsOnChannel'
    BY <2>1 DEF TypeOK, SourceState, WaitsOnChannel
  <2>3. Refreshing' = Refreshing
    BY <2>1 DEF Refreshing, TypeOK
  <2>4. InflightIsRefresh' /\ NobodyWaitsInVain'
    BY <2>1, <2>3 DEF InflightIsRefresh, NobodyWaitsInVain
  <2>5. ReadsAhead'
    BY <2>1 DEF ReadsAhead, TypeOK, Builds
  <2> QED
    BY <2>2, <2>4, <2>5
<1>2. CASE ReadManifest(r)
  <2>1. /\ UNCHANGED <<src, resolved, good, fresh, inflight, pc, wait, answer, got, head, up>>
        /\ rpc[r] = "manifest"
        /\ \/ /\ manifests' = manifests \cup {got[r]} /\ rpc' = [rpc EXCEPT ![r] = "adopt"]
           \/ /\ manifests' = manifests /\ rpc' = [rpc EXCEPT ![r] = "failed"]
    BY <1>2 DEF ReadManifest, pointerVars, callerVars, hostVars
  <2>2. TypeOK' /\ SourceState' /\ WaitsOnChannel'
    BY <2>1 DEF TypeOK, SourceState, WaitsOnChannel, ReadsAhead
  <2>3. Refreshing' = Refreshing
    BY <2>1 DEF Refreshing, TypeOK
  <2>4. InflightIsRefresh' /\ NobodyWaitsInVain'
    BY <2>1, <2>3 DEF InflightIsRefresh, NobodyWaitsInVain
  <2>5. ReadsAhead'
    BY <2>1 DEF ReadsAhead, TypeOK
  <2> QED
    BY <2>2, <2>4, <2>5
<1>3. CASE Adopt(r) \/ KeepOrPin(r)
  <2>1. /\ UNCHANGED <<pc, wait, answer, got, manifests, head, up>>
        /\ resolved' = TRUE /\ fresh' = TRUE /\ inflight' = NoRefresh
        /\ rpc' = [rpc EXCEPT ![r] = "close"]
        /\ \/ rpc[r] = "adopt" /\ src' = got[r] /\ good' = TRUE
           \/ rpc[r] = "failed" /\ src' = (IF good THEN src ELSE Pinned) /\ good' = good
    BY <1>3 DEF Adopt, KeepOrPin, Ended, callerVars, hostVars
  <2>2. r \in Refreshing /\ inflight = r /\ Refreshing' = {}
    BY <2>1, NoRefreshAssumption DEF Refreshing, InflightIsRefresh, TypeOK
  <2>3. got[r] \in Nat /\ (rpc[r] = "adopt" => got[r] \in Builds /\ (src \in Builds => src <= got[r]))
    BY DEF ReadsAhead, TypeOK
  <2>4. TypeOK'
    BY <2>1, <2>3 DEF TypeOK, Sources
  <2>5. SourceState'
    BY <2>1, <2>3, SourceAssumption DEF SourceState, Sources, Builds
  <2>6. InflightIsRefresh' /\ NobodyWaitsInVain' /\ WaitsOnChannel'
    BY <2>1, <2>2, NoRefreshAssumption DEF InflightIsRefresh, NobodyWaitsInVain, WaitsOnChannel
  <2>7. ReadsAhead'
    <3>1. \A q \in Refreshers : rpc'[q] \notin {"manifest", "adopt"}
      BY <2>2 DEF Refreshing
    <3>2. src' \in Builds => src' <= head
      BY <2>1, SourceAssumption DEF ReadsAhead, SourceState, Builds
    <3> QED
      BY <2>1, <3>1, <3>2 DEF ReadsAhead
  <2> QED
    BY <2>4, <2>5, <2>6, <2>7
<1>4. CASE Close(r)
  <2>1. /\ UNCHANGED <<src, resolved, good, fresh, inflight, pc, wait, answer, got, manifests, head, up>>
        /\ rpc[r] = "close" /\ rpc' = [rpc EXCEPT ![r] = "idle"]
    BY <1>4 DEF Close, pointerVars, callerVars, hostVars
  <2>2. Refreshing' = Refreshing
    BY <2>1 DEF Refreshing, TypeOK
  <2> QED
    BY <2>1, <2>2 DEF TypeOK, InflightIsRefresh, SourceState, WaitsOnChannel,
                      NobodyWaitsInVain, ReadsAhead
<1> QED
  BY <1>1, <1>2, <1>3, <1>4 DEF Refresh

LEMMA WorldStep ==
  ASSUME IInv, Expire \/ Release \/ HostToggle \/ UNCHANGED vars
  PROVE  IInv'
<1>1. /\ UNCHANGED <<src, resolved, good, inflight, pc, wait, answer, rpc, got, manifests>>
      /\ fresh' \in BOOLEAN
  BY DEF Expire, Release, HostToggle, vars, pointerVars, callerVars, refreshVars, hostVars,
         IInv, TypeOK
<1>2. head' \in Nat /\ head' >= head
  BY DEF Expire, Release, HostToggle, vars, hostVars, IInv, TypeOK
<1>3. up' \in BOOLEAN
  BY ZenonT(20) DEF Expire, Release, HostToggle, vars, hostVars, IInv, TypeOK
<1> QED
  BY <1>1, <1>2, <1>3 DEF IInv, TypeOK, InflightIsRefresh, Refreshing, SourceState, WaitsOnChannel,
              NobodyWaitsInVain, ReadsAhead, Builds

(* The invariant is inductive.                                              *)
THEOREM Inductive == Spec => []IInv
<1>1. IInv /\ [Next]_vars => IInv'
  BY GetStep, RefreshStep, WorldStep DEF Next, Refresh
<1> QED
  BY <1>1, InitIInv, PTL DEF Spec

(* One refresh on the network at a time, and no waiter left behind.         *)
THEOREM RefreshIsCoherent == Spec => []RefreshCoherent
<1>1. IInv => RefreshCoherent
  BY DEF IInv, InflightIsRefresh, OneRefresh, Refreshing, RefreshCoherent
<1> QED
  BY <1>1, Inductive, PTL

(* No answer is ever the zero source.                                       *)
THEOREM AnswersAreSources == Spec => NoEmptyAnswer
<1>1. IInv /\ [Next]_vars =>
        [\A c \in Callers : Returns(c) => answer'[c] # NoSource]_vars
  <2> SUFFICES ASSUME IInv, NEW c \in Callers, Returns(c)
               PROVE  answer'[c] # NoSource
    OBVIOUS
  <2> USE DEF IInv
  <2>1. resolved => src # NoSource
    BY SourceAssumption DEF SourceState, Sources, Builds
  <2>2. CASE GetFresh(c)
    BY <2>1, <2>2 DEF GetFresh, TypeOK
  <2>3. CASE GetJoin(c) \/ \E r \in Refreshers : GetStart(c, r)
    <3>1. pc'[c] = "idle"
      BY DEF Returns
    <3>2. resolved /\ answer' = [answer EXCEPT ![c] = src]
      BY <2>3, <3>1 DEF GetJoin, GetStart, AnswerOrWait, TypeOK
    <3> QED
      BY <2>1, <3>2 DEF TypeOK
  <2>4. CASE Wake(c)
    <3>1. resolved
      BY <2>4 DEF Wake, NobodyWaitsInVain, Refreshing
    <3> QED
      BY <2>1, <2>4, <3>1 DEF Wake, TypeOK
  <2> QED
    BY <2>2, <2>3, <2>4 DEF Returns, Get
<1> QED
  BY <1>1, Inductive, PTL DEF Spec, NoEmptyAnswer

(* Never back to the pinned build, never back to an older one.              *)
THEOREM PointerNeverGoesBack == Spec => NeverGoesBack
<1>1. IInv /\ [Next]_vars => [(src \in Builds) => (src' \in Builds /\ src' >= src)]_vars
  <2> SUFFICES ASSUME IInv, Next, src \in Builds
               PROVE  src' \in Builds /\ src' >= src
    OBVIOUS
  <2> USE DEF IInv
  <2>1. CASE src' = src
    BY <2>1 DEF Builds
  <2>2. CASE src' # src
    <3>1. PICK r \in Refreshers : Adopt(r) \/ KeepOrPin(r)
      BY <2>2 DEF Next, GetFresh, GetJoin, GetStart, Wake, ReadPointer, ReadManifest, Close,
                  Expire, Release, HostToggle, pointerVars
    <3>2. CASE Adopt(r)
      BY <3>2 DEF Adopt, ReadsAhead, Builds
    <3>3. CASE KeepOrPin(r)
      BY <3>3, <2>2 DEF KeepOrPin, SourceState
    <3> QED
      BY <3>1, <3>2, <3>3
  <2> QED
    BY <2>1, <2>2
<1> QED
  BY <1>1, Inductive, PTL DEF Spec, NeverGoesBack

(* Answers are sources and go forward, for any callers and refreshers.      *)
THEOREM EveryAnswerGoesForward == Spec => AnswersGoForward
  BY AnswersAreSources, PointerNeverGoesBack, PTL DEF AnswersGoForward
=============================================================================
