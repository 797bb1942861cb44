---------------------------- MODULE DemoDownload ----------------------------
(***************************************************************************)
(* How /parse gets a demo (cmd/server/download.go and fetchAndParse of      *)
(* http.go). A request takes its CDN host's lock, starts the download, and  *)
(* parses the temp file from the front while a goroutine still fills it.    *)
(* The host lock belongs to the download, not to the parse. What the        *)
(* download says decides whether the parse's result stands, and a failed    *)
(* attempt is retried with backoff.                                        *)
(*                                                                         *)
(* A request has one attempt at a time and an attempt has one spool, so the *)
(* spool's state is indexed by the request. Sizes are counted in chunks.    *)
(***************************************************************************)
EXTENDS Integers

CONSTANTS Requests,   \* /parse requests
          Hosts,      \* CDN hosts with a lock
          HostOf,     \* the host of each request's URL; NoHost when it has none
          NoHost,
          Nobody,     \* an unlocked host lock
          Size,       \* chunks of a whole demo
          Attempts    \* demoDownloadAttempts

ASSUME HostAssumption == HostOf \in [Requests -> Hosts \cup {NoHost}] /\ NoHost \notin Hosts
ASSUME NobodyAssumption == Nobody \notin Requests
ASSUME SizeAssumption == Size \in Nat \ {0} /\ Attempts \in Nat \ {0}

VARIABLES pc,         \* where the request goroutine is
          attempt,    \* its loop variable
          parsed,     \* what reading the stream came to
          verdict,    \* what the attempt came to
          holder,     \* who holds each host lock
          dl,         \* where the download goroutine is
          disk,       \* chunks in the temp file
          written,    \* s.written
          failure,    \* s.result.err: none, broken (retryable) or disk (not)
          want,       \* whether the response told its length
          cancelled,  \* the download's context
          off,        \* the reader's offset
          asleep,     \* the reader is in s.grew.Wait()
          file        \* the temp file exists

requestVars == <<pc, attempt, parsed, verdict>>
spoolVars   == <<dl, disk, written, failure, want, cancelled, file>>
readerVars  == <<off, asleep>>
vars        == <<requestVars, holder, spoolVars, readerVars>>

Chunks == 0..Size

TypeOK ==
  /\ pc \in [Requests -> {"idle", "lock", "request", "sniff", "parse", "wait",
                          "close", "closing", "decide", "backoff", "ok", "failed"}]
  /\ attempt \in [Requests -> 0..Attempts]
  /\ parsed \in [Requests -> {"nothing", "unreadable", "result"}]
  /\ verdict \in [Requests -> {"none", "ok", "retryable", "permanent", "panic"}]
  /\ holder \in [Hosts -> Requests \cup {Nobody}]
  /\ dl \in [Requests -> {"none", "reading", "publish", "ended", "released", "done"}]
  /\ disk \in [Requests -> Chunks]
  /\ written \in [Requests -> Chunks]
  /\ failure \in [Requests -> {"none", "broken", "disk"}]
  /\ want \in [Requests -> BOOLEAN]
  /\ cancelled \in [Requests -> BOOLEAN]
  /\ off \in [Requests -> Chunks]
  /\ asleep \in [Requests -> BOOLEAN]
  /\ file \in [Requests -> BOOLEAN]

Init ==
  /\ pc = [r \in Requests |-> "idle"]
  /\ attempt = [r \in Requests |-> 0]
  /\ parsed = [r \in Requests |-> "nothing"]
  /\ verdict = [r \in Requests |-> "none"]
  /\ holder = [h \in Hosts |-> Nobody]
  /\ dl = [r \in Requests |-> "none"]
  /\ disk = [r \in Requests |-> 0]
  /\ written = [r \in Requests |-> 0]
  /\ failure = [r \in Requests |-> "none"]
  /\ want = [r \in Requests |-> FALSE]
  /\ cancelled = [r \in Requests |-> FALSE]
  /\ off = [r \in Requests |-> 0]
  /\ asleep = [r \in Requests |-> FALSE]
  /\ file = [r \in Requests |-> FALSE]

Goto(r, label) == pc' = [pc EXCEPT ![r] = label]

Unlocked(r) == [h \in Hosts |-> IF h = HostOf[r] THEN Nobody ELSE holder[h]]

-----------------------------------------------------------------------------
(* fetchAndParse: the attempts.                                             *)

Begin(r) ==
  /\ pc[r] = "idle"
  /\ attempt' = [attempt EXCEPT ![r] = 1]
  /\ Goto(r, "lock")
  /\ UNCHANGED <<parsed, verdict, holder, spoolVars, readerVars>>

Decide(r) ==
  /\ pc[r] = "decide"
  /\ \/ verdict[r] = "ok" /\ Goto(r, "ok")
     \/ verdict[r] = "retryable" /\ attempt[r] < Attempts /\ Goto(r, "backoff")
     \/ verdict[r] = "retryable" /\ attempt[r] = Attempts /\ Goto(r, "failed")
     \/ verdict[r] \in {"permanent", "panic"} /\ Goto(r, "failed")
  /\ UNCHANGED <<attempt, parsed, verdict, holder, spoolVars, readerVars>>

(* time.Sleep(backoff), and a new spool for the next attempt.               *)
Retry(r) ==
  /\ pc[r] = "backoff"
  /\ attempt' = [attempt EXCEPT ![r] = @ + 1]
  /\ parsed' = [parsed EXCEPT ![r] = "nothing"]
  /\ verdict' = [verdict EXCEPT ![r] = "none"]
  /\ dl' = [dl EXCEPT ![r] = "none"]
  /\ disk' = [disk EXCEPT ![r] = 0]
  /\ written' = [written EXCEPT ![r] = 0]
  /\ failure' = [failure EXCEPT ![r] = "none"]
  /\ cancelled' = [cancelled EXCEPT ![r] = FALSE]
  /\ off' = [off EXCEPT ![r] = 0]
  /\ Goto(r, "lock")
  /\ UNCHANGED <<holder, want, asleep, file>>

-----------------------------------------------------------------------------
(* startDownload                                                            *)

AcquireHost(r) ==
  /\ pc[r] = "lock"
  /\ \A h \in Hosts : h = HostOf[r] => holder[h] = Nobody
  /\ holder' = [h \in Hosts |-> IF h = HostOf[r] THEN r ELSE holder[h]]
  /\ Goto(r, "request")
  /\ UNCHANGED <<attempt, parsed, verdict, spoolVars, readerVars>>

(* Wrong (like every definition marked so, a fault a property is tried on): *)
(* an early return without unlock().                                        *)
NoBodyLocked(r) ==
  /\ pc[r] = "request"
  /\ \E v \in {"retryable", "permanent"} : verdict' = [verdict EXCEPT ![r] = v]
  /\ Goto(r, "decide")
  /\ UNCHANGED <<attempt, parsed, holder, spoolVars, readerVars>>

(* No body: transport failures, 5xx and 429 are retryable; a bad URL, any   *)
(* other 4xx and a temp file that cannot be created are not.                *)
NoBody(r) ==
  /\ pc[r] = "request"
  /\ \E v \in {"retryable", "permanent"} : verdict' = [verdict EXCEPT ![r] = v]
  /\ holder' = Unlocked(r)
  /\ Goto(r, "decide")
  /\ UNCHANGED <<attempt, parsed, spoolVars, readerVars>>

(* Wrong: the lock covers only the request, not the transfer.               *)
BodyStartsUnlocked(r) ==
  /\ pc[r] = "request"
  /\ holder' = Unlocked(r)
  /\ file' = [file EXCEPT ![r] = TRUE]
  /\ dl' = [dl EXCEPT ![r] = "reading"]
  /\ \E known \in BOOLEAN : want' = [want EXCEPT ![r] = known]
  /\ Goto(r, "sniff")
  /\ UNCHANGED <<attempt, parsed, verdict, disk, written, failure, cancelled, readerVars>>

BodyStarts(r) ==
  /\ pc[r] = "request"
  /\ file' = [file EXCEPT ![r] = TRUE]
  /\ dl' = [dl EXCEPT ![r] = "reading"]
  /\ \E known \in BOOLEAN : want' = [want EXCEPT ![r] = known]
  /\ Goto(r, "sniff")
  /\ UNCHANGED <<attempt, parsed, verdict, holder, disk, written, failure, cancelled, readerVars>>

-----------------------------------------------------------------------------
(* The download goroutine: fill, then the ending critical section, then its *)
(* deferred calls.                                                          *)

Receive(r) ==
  /\ dl[r] = "reading"
  /\ disk[r] < Size
  /\ disk' = [disk EXCEPT ![r] = @ + 1]
  /\ dl' = [dl EXCEPT ![r] = "publish"]
  /\ UNCHANGED <<requestVars, holder, written, failure, want, cancelled, file, readerVars>>

Publish(r) ==
  /\ dl[r] = "publish"
  /\ written' = [written EXCEPT ![r] = disk[r]]
  /\ dl' = [dl EXCEPT ![r] = "reading"]
  /\ asleep' = [asleep EXCEPT ![r] = FALSE]
  /\ UNCHANGED <<requestVars, holder, disk, failure, want, cancelled, file, off>>

(* Wrong: no Broadcast when the download ends.                              *)
EndQuietly(r, how) ==
  /\ failure' = [failure EXCEPT ![r] = how]
  /\ dl' = [dl EXCEPT ![r] = "ended"]
  /\ UNCHANGED <<requestVars, holder, disk, written, want, cancelled, file, readerVars>>

End(r, how) ==
  /\ failure' = [failure EXCEPT ![r] = how]
  /\ dl' = [dl EXCEPT ![r] = "ended"]
  /\ asleep' = [asleep EXCEPT ![r] = FALSE]
  /\ UNCHANGED <<requestVars, holder, disk, written, want, cancelled, file, off>>

(* The body ended. The server may have closed early; a response that told   *)
(* its length is then known to be short.                                    *)
Truncated(r) == want[r] /\ written[r] # Size

EndOfBody(r) ==
  /\ dl[r] = "reading"
  /\ \/ Truncated(r) /\ End(r, "broken")
     \/ ~Truncated(r) /\ End(r, "none")

(* The connection broke, the client timed out, or close() cancelled it.     *)
ReadError(r) ==
  /\ dl[r] = "reading"
  /\ End(r, "broken")

WriteError(r) ==
  /\ dl[r] = "reading"
  /\ disk[r] < Size
  /\ End(r, "disk")

(* Wrong: the lock is held until the parse has returned.                    *)
ReleaseAfterParse(r) ==
  /\ dl[r] = "ended"
  /\ pc[r] \notin {"sniff", "parse"}
  /\ dl' = [dl EXCEPT ![r] = "released"]
  /\ holder' = Unlocked(r)
  /\ UNCHANGED <<requestVars, disk, written, failure, want, cancelled, file, readerVars>>

Release(r) ==
  /\ dl[r] = "ended"
  /\ dl' = [dl EXCEPT ![r] = "released"]
  /\ holder' = Unlocked(r)
  /\ UNCHANGED <<requestVars, disk, written, failure, want, cancelled, file, readerVars>>

Done(r) ==
  /\ dl[r] = "released"
  /\ dl' = [dl EXCEPT ![r] = "done"]
  /\ UNCHANGED <<requestVars, holder, disk, written, failure, want, cancelled, file, readerVars>>

-----------------------------------------------------------------------------
(* The parse: spoolReader.Read under sniffDemoStream and parser.Parse.      *)

Ended(r) == dl[r] \in {"ended", "released", "done"}

Reading(r) == pc[r] \in {"sniff", "parse"} /\ ~asleep[r]

ReadWait(r) ==
  /\ Reading(r)
  /\ off[r] >= written[r] /\ ~Ended(r)
  /\ asleep' = [asleep EXCEPT ![r] = TRUE]
  /\ UNCHANGED <<requestVars, holder, spoolVars, off>>

(* The first chunk tells a demo from an error page.                         *)
SniffChunk(r) ==
  /\ pc[r] = "sniff" /\ Reading(r)
  /\ off[r] < written[r]
  /\ off' = [off EXCEPT ![r] = @ + 1]
  /\ \/ Goto(r, "parse") /\ UNCHANGED parsed
     \/ Goto(r, "wait") /\ parsed' = [parsed EXCEPT ![r] = "unreadable"]
  /\ UNCHANGED <<attempt, verdict, holder, spoolVars, asleep>>

SniffEnd(r) ==
  /\ pc[r] = "sniff" /\ Reading(r)
  /\ off[r] >= written[r] /\ Ended(r)
  /\ parsed' = [parsed EXCEPT ![r] = "unreadable"]
  /\ Goto(r, "wait")
  /\ UNCHANGED <<attempt, verdict, holder, spoolVars, readerVars>>

(* Wrong: the reader goes by the size of the file, not by s.written.        *)
ParseChunkOfFile(r) ==
  /\ pc[r] = "parse" /\ Reading(r)
  /\ off[r] < disk[r]
  /\ off' = [off EXCEPT ![r] = @ + 1]
  /\ UNCHANGED <<requestVars, holder, spoolVars, asleep>>

ParseChunk(r) ==
  /\ pc[r] = "parse" /\ Reading(r)
  /\ off[r] < written[r]
  /\ off' = [off EXCEPT ![r] = @ + 1]
  /\ UNCHANGED <<requestVars, holder, spoolVars, asleep>>

(* The end of the stream, a read error, and demo bytes the parser gives up  *)
(* on all end ParseToEnd the same way: Parse returns what it had.           *)
ParseReturns(r) ==
  /\ pc[r] = "parse" /\ Reading(r)
  /\ \/ off[r] >= written[r] /\ Ended(r)
     \/ off[r] < written[r]
  /\ parsed' = [parsed EXCEPT ![r] = "result"]
  /\ Goto(r, "wait")
  /\ UNCHANGED <<attempt, verdict, holder, spoolVars, readerVars>>

(* net/http recovers a handler's panic; the deferred close still runs.      *)
ParsePanics(r) ==
  /\ pc[r] = "parse" /\ Reading(r)
  /\ verdict' = [verdict EXCEPT ![r] = "panic"]
  /\ Goto(r, "close")
  /\ UNCHANGED <<attempt, parsed, holder, spoolVars, readerVars>>

-----------------------------------------------------------------------------
(* fetchAndParseOnce: the download's own outcome decides, then close.       *)

(* Wrong: the parse's word is taken for it; a full disk is retried.         *)
OutcomeOfParse(r) == IF parsed[r] = "unreadable" THEN "permanent" ELSE "ok"

OutcomeRetryAll(r) ==
  IF failure[r] # "none" THEN "retryable"
  ELSE IF parsed[r] = "unreadable" THEN "permanent"
  ELSE "ok"

Outcome(r) ==
  IF failure[r] = "broken" THEN "retryable"
  ELSE IF failure[r] = "disk" \/ parsed[r] = "unreadable" THEN "permanent"
  ELSE "ok"

Settle(r) ==
  /\ pc[r] = "wait"
  /\ dl[r] = "done"
  /\ verdict' = [verdict EXCEPT ![r] = Outcome(r)]
  /\ Goto(r, "close")
  /\ UNCHANGED <<attempt, parsed, holder, spoolVars, readerVars>>

Cancel(r) ==
  /\ pc[r] = "close"
  /\ cancelled' = [cancelled EXCEPT ![r] = TRUE]
  /\ Goto(r, "closing")
  /\ UNCHANGED <<attempt, parsed, verdict, holder, dl, disk, written, failure, want, file, readerVars>>

RemoveFile(r) ==
  /\ pc[r] = "closing"
  /\ dl[r] = "done"
  /\ file' = [file EXCEPT ![r] = FALSE]
  /\ Goto(r, "decide")
  /\ UNCHANGED <<attempt, parsed, verdict, holder, dl, disk, written, failure, want, cancelled, readerVars>>

-----------------------------------------------------------------------------
Download(r) == \/ Receive(r) \/ Publish(r) \/ EndOfBody(r) \/ ReadError(r)
               \/ WriteError(r) \/ Release(r) \/ Done(r)

Parse(r) == \/ ReadWait(r) \/ SniffChunk(r) \/ SniffEnd(r) \/ ParseChunk(r)
            \/ ParseReturns(r) \/ ParsePanics(r)

Handler(r) == \/ Decide(r) \/ Retry(r) \/ NoBody(r) \/ BodyStarts(r)
              \/ Settle(r) \/ Cancel(r) \/ RemoveFile(r)

Next == \E r \in Requests :
  \/ Begin(r) \/ Decide(r) \/ Retry(r)
  \/ AcquireHost(r) \/ NoBody(r) \/ BodyStarts(r)
  \/ Receive(r) \/ Publish(r) \/ EndOfBody(r) \/ ReadError(r) \/ WriteError(r)
  \/ Release(r) \/ Done(r)
  \/ ReadWait(r) \/ SniffChunk(r) \/ SniffEnd(r) \/ ParseChunk(r) \/ ParseReturns(r)
  \/ ParsePanics(r)
  \/ Settle(r) \/ Cancel(r) \/ RemoveFile(r)

Spec == Init /\ [][Next]_vars

(* Transfers are bounded by demoClient's timeout, goroutines are scheduled, *)
(* and a sync.Mutex is starvation-free. Nothing is assumed of the parser.   *)
FairSpec == Spec /\ \A r \in Requests :
              WF_vars(Download(r)) /\ WF_vars(Handler(r)) /\ SF_vars(AcquireHost(r))

-----------------------------------------------------------------------------
OnTheWire(r) == pc[r] = "request" \/ dl[r] \in {"reading", "publish", "ended"}

(* One request or transfer at a time per CDN host: "Valve's replay servers  *)
(* 502 under concurrent load".                                              *)
OnePerHost ==
  \A r, q \in Requests :
    OnTheWire(r) /\ OnTheWire(q) /\ HostOf[r] = HostOf[q] /\ HostOf[r] # NoHost => r = q

(* The parse reads only what is in the file: the reader never passes what   *)
(* was published, and nothing is published before it is written.            *)
ReaderBehindWriter == \A r \in Requests : off[r] <= written[r] /\ written[r] <= disk[r]

(* Between attempts and after the last one a request holds nothing: no host *)
(* lock, no running download, no temp file, whichever way the attempt ended.*)
NothingHeld ==
  \A r \in Requests : pc[r] \in {"idle", "lock", "decide", "backoff", "ok", "failed"} =>
    /\ dl[r] \in {"none", "done"}
    /\ ~file[r]
    /\ \A h \in Hosts : holder[h] # r

(* The spool's counters are what they stand for, and it is gone, with its   *)
(* goroutine and the host's lock, when its attempt is over.                 *)
SpoolCoherent == TypeOK /\ ReaderBehindWriter /\ NothingHeld

(* A result that is answered comes from a download that completed: the      *)
(* whole demo when its length was known, never one that broke off, failed   *)
(* to reach the disk or was of no demo at all.                              *)
ResultIsWhole ==
  \A r \in Requests : pc[r] = "ok" =>
    /\ parsed[r] = "result"
    /\ failure[r] = "none"
    /\ want[r] => written[r] = Size

(* A new attempt is made only after a retryable failure of the one before:  *)
(* an expired demo, an error page or a full disk is never fetched again.    *)
RetriesOnlyBroken ==
  [][\A r \in Requests : attempt'[r] > attempt[r] /\ attempt[r] > 0
       => verdict[r] = "retryable" /\ (dl[r] = "done" => failure[r] = "broken")]_vars

(* The parser's pace never holds a host: every lock is given back although  *)
(* the parse may stall for ever.                                            *)
HostFreed == \A h \in Hosts : \A r \in Requests : holder[h] = r ~> holder[h] # r

(* Unless a parse stalls, every request is answered, and even when one does *)
(* its host is freed: no lock, wait or wakeup is lost.                       *)
ParserRuns == \A r \in Requests : WF_vars(Parse(r))

EveryRequestEnds ==
  /\ HostFreed
  /\ ParserRuns => \A r \in Requests : pc[r] = "lock" ~> pc[r] \in {"ok", "failed"}
=============================================================================
