--------------------------- MODULE LatestPointer ---------------------------
(***************************************************************************)
(* The process-wide pointer to the newest published map build              *)
(* (latestPointer of internal/geometry/load.go): requests read it under a   *)
(* mutex, an expired pointer is served stale while one background goroutine *)
(* refreshes it over the network, and only requests that come before the    *)
(* first refresh has finished wait, on that refresh's channel.             *)
(*                                                                         *)
(* A refresh goroutine and the channel it closes have one identity here: a  *)
(* member of Refreshers. The channel is closed once its goroutine is gone.  *)
(* Builds are numbered in the order the publisher releases them.            *)
(***************************************************************************)
EXTENDS Integers

CONSTANTS Callers,     \* request goroutines that resolve the default source
          Refreshers,  \* refresh goroutines, each with its done channel
          NoRefresh,   \* the nil channel
          NoSource,    \* the zero source{}
          Pinned,      \* the build compiled in for when nothing was ever readable
          MaxBuild     \* bound on how many builds are published

Builds == Nat \ {0}

ASSUME NoRefreshAssumption == NoRefresh \notin Refreshers
ASSUME SourceAssumption == NoSource # Pinned /\ NoSource \notin Nat /\ Pinned \notin Nat
ASSUME MaxBuildAssumption == MaxBuild \in Nat

VARIABLES src,        \* l.src: a build, Pinned, or NoSource
          resolved,   \* l.resolved
          good,       \* l.good
          fresh,      \* time.Now().Before(l.expires)
          inflight,   \* l.inflight
          pc,         \* each caller: idle or blocked in get on a channel
          wait,       \* the caller's local `wait`
          answer,     \* what get last returned to the caller
          rpc,        \* where each refresh goroutine is
          got,        \* the build its latest.json named
          manifests,  \* builds whose manifest is cached (never forgotten)
          head,       \* the build latest.json names; 0 before the first
          up          \* whether the host answers

pointerVars == <<src, resolved, good, fresh, inflight>>
callerVars  == <<pc, wait, answer>>
refreshVars == <<rpc, got, manifests>>
hostVars    == <<head, up>>
vars        == <<pointerVars, callerVars, refreshVars, hostVars>>

Sources == Builds \cup {Pinned}

TypeOK ==
  /\ src \in Sources \cup {NoSource}
  /\ resolved \in BOOLEAN
  /\ good \in BOOLEAN
  /\ fresh \in BOOLEAN
  /\ inflight \in Refreshers \cup {NoRefresh}
  /\ pc \in [Callers -> {"idle", "waiting"}]
  /\ wait \in [Callers -> Refreshers \cup {NoRefresh}]
  /\ answer \in [Callers -> Sources \cup {NoSource}]
  /\ rpc \in [Refreshers -> {"idle", "pointer", "manifest", "adopt", "failed", "close"}]
  /\ got \in [Refreshers -> Nat]
  /\ manifests \subseteq Builds
  /\ head \in Nat
  /\ up \in BOOLEAN

Init ==
  /\ src = NoSource /\ resolved = FALSE /\ good = FALSE /\ fresh = FALSE
  /\ inflight = NoRefresh
  /\ pc = [c \in Callers |-> "idle"]
  /\ wait = [c \in Callers |-> NoRefresh]
  /\ answer = [c \in Callers |-> NoSource]
  /\ rpc = [r \in Refreshers |-> "idle"]
  /\ got = [r \in Refreshers |-> 0]
  /\ manifests = {}
  /\ head \in {0, 1} /\ head <= MaxBuild
  /\ up \in BOOLEAN

-----------------------------------------------------------------------------
(* get *)

Free(r) == rpc[r] = "idle" /\ \A c \in Callers : wait[c] # r

(* After the refresh was found or started: a process that has ever resolved *)
(* the pointer answers at once, any other blocks on the channel.            *)
AnswerOrWait(c, r) ==
  \/ /\ resolved
     /\ answer' = [answer EXCEPT ![c] = src]
     /\ UNCHANGED <<pc, wait>>
  \/ /\ ~resolved
     /\ pc' = [pc EXCEPT ![c] = "waiting"]
     /\ wait' = [wait EXCEPT ![c] = r]
     /\ UNCHANGED answer

GetFresh(c) ==
  /\ pc[c] = "idle"
  /\ resolved /\ fresh
  /\ answer' = [answer EXCEPT ![c] = src]
  /\ UNCHANGED <<pointerVars, pc, wait, refreshVars, hostVars>>

GetJoin(c) ==
  /\ pc[c] = "idle"
  /\ ~(resolved /\ fresh)
  /\ inflight # NoRefresh
  /\ AnswerOrWait(c, inflight)
  /\ UNCHANGED <<pointerVars, refreshVars, hostVars>>

(* Wrong (like every definition marked so, a fault a property is tried on): *)
(* a refresh is started although one is in flight.                          *)
GetStartAnyway(c, r) ==
  /\ pc[c] = "idle"
  /\ ~(resolved /\ fresh)
  /\ Free(r)
  /\ inflight' = r
  /\ rpc' = [rpc EXCEPT ![r] = "pointer"]
  /\ AnswerOrWait(c, r)
  /\ UNCHANGED <<src, resolved, good, fresh, got, manifests, hostVars>>

(* Wrong: the pointer is resolved once and never refreshed.                 *)
GetStartOnce(c, r) ==
  /\ pc[c] = "idle"
  /\ ~resolved
  /\ inflight = NoRefresh
  /\ Free(r)
  /\ inflight' = r
  /\ rpc' = [rpc EXCEPT ![r] = "pointer"]
  /\ AnswerOrWait(c, r)
  /\ UNCHANGED <<src, resolved, good, fresh, got, manifests, hostVars>>

GetStart(c, r) ==
  /\ pc[c] = "idle"
  /\ ~(resolved /\ fresh)
  /\ inflight = NoRefresh
  /\ Free(r)
  /\ inflight' = r
  /\ rpc' = [rpc EXCEPT ![r] = "pointer"]
  /\ AnswerOrWait(c, r)
  /\ UNCHANGED <<src, resolved, good, fresh, got, manifests, hostVars>>

(* <-wait returns only once the channel is closed.                          *)
Wake(c) ==
  /\ pc[c] = "waiting"
  /\ rpc[wait[c]] = "idle"
  /\ answer' = [answer EXCEPT ![c] = src]
  /\ pc' = [pc EXCEPT ![c] = "idle"]
  /\ wait' = [wait EXCEPT ![c] = NoRefresh]
  /\ UNCHANGED <<pointerVars, refreshVars, hostVars>>

-----------------------------------------------------------------------------
(* refresh: fetchLatest reads latest.json, then the manifest it names,      *)
(* unless that manifest is cached; no lock is held across either.           *)

ReadPointer(r) ==
  /\ rpc[r] = "pointer"
  /\ \/ /\ up /\ head # 0
        /\ got' = [got EXCEPT ![r] = head]
        /\ rpc' = [rpc EXCEPT ![r] = "manifest"]
     \/ /\ ~(up /\ head # 0)
        /\ rpc' = [rpc EXCEPT ![r] = "failed"]
        /\ UNCHANGED got
  /\ UNCHANGED <<pointerVars, callerVars, manifests, hostVars>>

ReadManifest(r) ==
  /\ rpc[r] = "manifest"
  /\ \/ /\ got[r] \in manifests \/ up
        /\ manifests' = manifests \cup {got[r]}
        /\ rpc' = [rpc EXCEPT ![r] = "adopt"]
     \/ /\ ~(got[r] \in manifests \/ up)
        /\ rpc' = [rpc EXCEPT ![r] = "failed"]
        /\ UNCHANGED manifests
  /\ UNCHANGED <<pointerVars, callerVars, got, hostVars>>

(* The critical section that ends a refresh: expires is set either way.     *)
Ended(r) ==
  /\ resolved' = TRUE
  /\ fresh' = TRUE
  /\ inflight' = NoRefresh
  /\ rpc' = [rpc EXCEPT ![r] = "close"]
  /\ UNCHANGED <<callerVars, got, manifests, hostVars>>

Adopt(r) ==
  /\ rpc[r] = "adopt"
  /\ src' = got[r]
  /\ good' = TRUE
  /\ Ended(r)

(* Wrong: a failure pins the old build whatever was readable before.        *)
AlwaysPin(r) ==
  /\ rpc[r] = "failed"
  /\ src' = Pinned
  /\ UNCHANGED good
  /\ Ended(r)

(* Wrong: a failure leaves whatever was there, the zero source included.    *)
KeepOnly(r) ==
  /\ rpc[r] = "failed"
  /\ UNCHANGED <<src, good>>
  /\ Ended(r)

(* Wrong: the error path returns before the critical section and the close. *)
EarlyReturn(r) ==
  /\ rpc[r] = "failed"
  /\ UNCHANGED vars

KeepOrPin(r) ==
  /\ rpc[r] = "failed"
  /\ src' = IF good THEN src ELSE Pinned
  /\ UNCHANGED good
  /\ Ended(r)

(* close(done), after the mutex was released.                               *)
Close(r) ==
  /\ rpc[r] = "close"
  /\ rpc' = [rpc EXCEPT ![r] = "idle"]
  /\ UNCHANGED <<pointerVars, callerVars, got, manifests, hostVars>>

-----------------------------------------------------------------------------
(* Time and the publisher.                                                  *)

Expire ==
  /\ fresh
  /\ fresh' = FALSE
  /\ UNCHANGED <<src, resolved, good, inflight, callerVars, refreshVars, hostVars>>

Release ==
  /\ head < MaxBuild
  /\ head' = head + 1
  /\ UNCHANGED <<pointerVars, callerVars, refreshVars, up>>

HostToggle ==
  /\ up' = ~up
  /\ UNCHANGED <<pointerVars, callerVars, refreshVars, head>>

Get(c) == GetFresh(c) \/ GetJoin(c) \/ \E r \in Refreshers : GetStart(c, r)

Refresh(r) ==
  ReadPointer(r) \/ ReadManifest(r) \/ Adopt(r) \/ KeepOrPin(r) \/ Close(r)

Next ==
  \/ \E c \in Callers : GetFresh(c)
  \/ \E c \in Callers : GetJoin(c)
  \/ \E c \in Callers, r \in Refreshers : GetStart(c, r)
  \/ \E c \in Callers : Wake(c)
  \/ \E r \in Refreshers : ReadPointer(r)
  \/ \E r \in Refreshers : ReadManifest(r)
  \/ \E r \in Refreshers : Adopt(r)
  \/ \E r \in Refreshers : KeepOrPin(r)
  \/ \E r \in Refreshers : Close(r)
  \/ Expire
  \/ Release
  \/ HostToggle

Spec == Init /\ [][Next]_vars

(* Goroutines are scheduled and every fetch ends by the client timeout.     *)
FairSpec == /\ Spec
            /\ \A c \in Callers : WF_vars(Wake(c))
            /\ \A r \in Refreshers : WF_vars(Refresh(r))

-----------------------------------------------------------------------------
Refreshing == {r \in Refreshers : rpc[r] \in {"pointer", "manifest", "adopt", "failed"}}

(* However many requests find the pointer expired, at most one refresh is   *)
(* on the network at a time, and it is the one requests can join.           *)
OneRefresh == \A r \in Refreshing : inflight = r

(* Nobody is ever answered with the zero source, the one that resolves to   *)
(* no URL at all and so reads as "this map has no geometry".                *)
Returns(c) == pc'[c] = "idle" /\ (Get(c) \/ Wake(c))

NoEmptyAnswer == [][\A c \in Callers : Returns(c) => answer'[c] # NoSource]_vars

(* The pinned build is used only when latest.json has never been readable   *)
(* in this process, and an older build never replaces a newer one: answers  *)
(* of overlapping refreshes cannot be applied out of order.                 *)
NeverGoesBack ==
  [][(src \in Builds) => (src' \in Builds /\ src' >= src)]_vars

(* Every answer is a source, and no later one is of an older build.         *)
AnswersGoForward == NoEmptyAnswer /\ NeverGoesBack

(* A blocked request waits on a channel whose refresh is still to close it  *)
(* or has: no wakeup is lost. Once the pointer is resolved, what it waits   *)
(* for is only that close, never another network round trip.                *)
NobodyWaitsInVain ==
  \A c \in Callers : pc[c] = "waiting" =>
    /\ wait[c] \in Refreshers
    /\ wait[c] \in Refreshing <=> ~resolved

(* One refresh at a time, and none that its waiters have lost.              *)
RefreshCoherent == TypeOK /\ OneRefresh /\ NobodyWaitsInVain

(* Every blocked request is answered.                                       *)
EveryWaitEnds == \A c \in Callers : pc[c] = "waiting" ~> pc[c] = "idle"

(* While time passes and requests keep coming, a host that is back for good *)
(* ends with the process on the newest build, whatever it was pinned to or  *)
(* kept during the outage.                                                  *)
Traffic == WF_vars(Expire) /\ WF_vars(\E c \in Callers : Get(c))

CatchesUp == Traffic /\ <>[](up /\ head = MaxBuild /\ head # 0) => <>[](src = head)
=============================================================================
