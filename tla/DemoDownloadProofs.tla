------------------------ MODULE DemoDownloadProofs ------------------------
(***************************************************************************)
(* Theorems about DemoDownload, for any requests, hosts, demo size and      *)
(* number of attempts.                                                      *)
(***************************************************************************)
EXTENDS DemoDownload, TLAPS

Attempting == {"sniff", "parse", "wait", "close", "closing"}

(* Where the handler is and where its download is.                          *)
PhaseInv(r) ==
  /\ pc[r] \in {"idle", "lock", "request"} => dl[r] = "none"
  /\ pc[r] \in Attempting => dl[r] # "none"
  /\ pc[r] \in {"decide", "backoff", "ok", "failed"} => dl[r] \in {"none", "done"}
  /\ file[r] => pc[r] \in Attempting

(* The file, the published length and the way the download ended.           *)
SpoolInv(r) ==
  /\ off[r] <= written[r] /\ written[r] <= disk[r]
  /\ dl[r] # "publish" => written[r] = disk[r]
  /\ dl[r] \in {"none", "reading", "publish"} => failure[r] = "none"
  /\ Ended(r) /\ failure[r] = "none" => ~Truncated(r)

(* A verdict is only reached over a download that is done.                  *)
VerdictInv(r) ==
  /\ pc[r] \in {"idle", "lock", "request", "sniff", "parse", "wait"} => verdict[r] = "none"
  /\ pc[r] = "wait" => parsed[r] # "nothing"
  /\ verdict[r] = "ok" => dl[r] = "done" /\ failure[r] = "none" /\ parsed[r] = "result"
  /\ verdict[r] = "retryable" => dl[r] \in {"none", "done"}
  /\ verdict[r] = "retryable" /\ dl[r] = "done" => failure[r] = "broken"
  /\ pc[r] = "ok" => verdict[r] = "ok"
  /\ pc[r] = "backoff" => verdict[r] = "retryable" /\ attempt[r] < Attempts

(* The host lock is held exactly by the one that is on the wire to it.      *)
LockInv ==
  /\ \A r \in Requests : OnTheWire(r) /\ HostOf[r] \in Hosts => holder[HostOf[r]] = r
  /\ \A r \in Requests : \A h \in Hosts : holder[h] = r => OnTheWire(r) /\ HostOf[r] = h

IInv ==
  /\ TypeOK
  /\ \A r \in Requests : PhaseInv(r) /\ SpoolInv(r) /\ VerdictInv(r)
  /\ LockInv

LEMMA InitIInv == Init => IInv
<1> SUFFICES ASSUME Init PROVE IInv
  OBVIOUS
<1>1. TypeOK
  BY SizeAssumption, NobodyAssumption DEF Init, TypeOK, Chunks
<1>2. ASSUME NEW r \in Requests PROVE PhaseInv(r) /\ SpoolInv(r) /\ VerdictInv(r)
  <2>1. PhaseInv(r) /\ VerdictInv(r)
    BY DEF Init, PhaseInv, VerdictInv, Attempting
  <2>2. SpoolInv(r)
    BY DEF Init, SpoolInv, Ended
  <2> QED
    BY <2>1, <2>2
<1>3. LockInv
  BY NobodyAssumption DEF Init, LockInv, OnTheWire
<1> QED
  BY <1>1, <1>2, <1>3 DEF IInv

(* The attempt loop. *)
LEMMA LoopStep ==
  ASSUME IInv, NEW r \in Requests, Begin(r) \/ Decide(r) \/ Retry(r)
  PROVE  IInv'
<1> USE DEF IInv, requestVars, spoolVars, readerVars, Goto
<1>1. CASE Begin(r)
  <2>1. TypeOK'
    BY <1>1, SizeAssumption, NobodyAssumption DEF Begin, TypeOK, Chunks
  <2>2. ASSUME NEW q \in Requests PROVE (PhaseInv(q) /\ SpoolInv(q) /\ VerdictInv(q))'
    <3>1. PhaseInv(q)'
      BY <1>1 DEF Begin, TypeOK, PhaseInv, Attempting
    <3>2. SpoolInv(q)'
      BY <1>1, SizeAssumption DEF Begin, TypeOK, Chunks, SpoolInv, PhaseInv, Ended, Truncated
    <3>3. VerdictInv(q)'
      BY <1>1, SizeAssumption DEF Begin, TypeOK, VerdictInv, PhaseInv, Attempting
    <3> QED
      BY <3>1, <3>2, <3>3
  <2>3. LockInv'
    BY <1>1, HostAssumption, NobodyAssumption DEF Begin, TypeOK, LockInv, PhaseInv, OnTheWire, Attempting
  <2> QED
    BY <2>1, <2>2, <2>3
<1>2. CASE Decide(r)
  <2>1. TypeOK'
    BY <1>2, SizeAssumption, NobodyAssumption DEF Decide, TypeOK, Chunks
  <2>2. ASSUME NEW q \in Requests PROVE (PhaseInv(q) /\ SpoolInv(q) /\ VerdictInv(q))'
    <3>1. PhaseInv(q)'
      BY <1>2 DEF Decide, TypeOK, PhaseInv, Attempting
    <3>2. SpoolInv(q)'
      BY <1>2, SizeAssumption DEF Decide, TypeOK, Chunks, SpoolInv, PhaseInv, Ended, Truncated
    <3>3. VerdictInv(q)'
      BY <1>2, SizeAssumption DEF Decide, TypeOK, VerdictInv, PhaseInv, Attempting
    <3> QED
      BY <3>1, <3>2, <3>3
  <2>3. LockInv'
    BY <1>2, HostAssumption, NobodyAssumption DEF Decide, TypeOK, LockInv, PhaseInv, OnTheWire, Attempting
  <2> QED
    BY <2>1, <2>2, <2>3
<1>3. CASE Retry(r)
  <2>1. TypeOK'
    BY <1>3, SizeAssumption, NobodyAssumption DEF Retry, TypeOK, Chunks, VerdictInv
  <2>2. ASSUME NEW q \in Requests PROVE (PhaseInv(q) /\ SpoolInv(q) /\ VerdictInv(q))'
    <3>1. PhaseInv(q)'
      BY <1>3 DEF Retry, TypeOK, PhaseInv, Attempting
    <3>2. SpoolInv(q)'
      BY <1>3, SizeAssumption DEF Retry, TypeOK, Chunks, SpoolInv, PhaseInv, Ended, Truncated
    <3>3. VerdictInv(q)'
      BY <1>3, SizeAssumption DEF Retry, TypeOK, VerdictInv, PhaseInv, Attempting
    <3> QED
      BY <3>1, <3>2, <3>3
  <2>3. LockInv'
    BY <1>3, HostAssumption, NobodyAssumption DEF Retry, TypeOK, LockInv, PhaseInv, OnTheWire, Attempting
  <2> QED
    BY <2>1, <2>2, <2>3
<1> QED
  BY <1>1, <1>2, <1>3

(* startDownload. *)
LEMMA StartStep ==
  ASSUME IInv, NEW r \in Requests, AcquireHost(r) \/ NoBody(r) \/ BodyStarts(r)
  PROVE  IInv'
<1> USE DEF IInv, requestVars, spoolVars, readerVars, Goto
<1>1. CASE AcquireHost(r)
  <2>1. TypeOK'
    BY <1>1, SizeAssumption, NobodyAssumption DEF AcquireHost, TypeOK, Chunks
  <2>2. ASSUME NEW q \in Requests PROVE (PhaseInv(q) /\ SpoolInv(q) /\ VerdictInv(q))'
    <3>1. PhaseInv(q)'
      BY <1>1 DEF AcquireHost, TypeOK, PhaseInv, Attempting
    <3>2. SpoolInv(q)'
      BY <1>1, SizeAssumption DEF AcquireHost, TypeOK, Chunks, SpoolInv, PhaseInv, Ended, Truncated
    <3>3. VerdictInv(q)'
      BY <1>1, SizeAssumption DEF AcquireHost, TypeOK, VerdictInv, PhaseInv, Attempting
    <3> QED
      BY <3>1, <3>2, <3>3
  <2>3. LockInv'
    BY <1>1, HostAssumption, NobodyAssumption DEF AcquireHost, TypeOK, LockInv, PhaseInv, OnTheWire, Attempting
  <2> QED
    BY <2>1, <2>2, <2>3
<1>2. CASE NoBody(r)
  <2>1. TypeOK'
    BY <1>2, SizeAssumption, NobodyAssumption DEF NoBody, Unlocked, TypeOK, Chunks
  <2>2. ASSUME NEW q \in Requests PROVE (PhaseInv(q) /\ SpoolInv(q) /\ VerdictInv(q))'
    <3>1. PhaseInv(q)'
      BY <1>2 DEF NoBody, Unlocked, TypeOK, PhaseInv, Attempting
    <3>2. SpoolInv(q)'
      BY <1>2, SizeAssumption DEF NoBody, Unlocked, TypeOK, Chunks, SpoolInv, PhaseInv, Ended, Truncated
    <3>3. VerdictInv(q)'
      BY <1>2, SizeAssumption DEF NoBody, Unlocked, TypeOK, VerdictInv, PhaseInv, Attempting
    <3> QED
      BY <3>1, <3>2, <3>3
  <2>3. LockInv'
    BY <1>2, HostAssumption, NobodyAssumption DEF NoBody, Unlocked, TypeOK, LockInv, PhaseInv, OnTheWire, Attempting
  <2> QED
    BY <2>1, <2>2, <2>3
<1>3. CASE BodyStarts(r)
  <2>1. TypeOK'
    BY <1>3, SizeAssumption, NobodyAssumption DEF BodyStarts, TypeOK, Chunks
  <2>2. ASSUME NEW q \in Requests PROVE (PhaseInv(q) /\ SpoolInv(q) /\ VerdictInv(q))'
    <3>1. PhaseInv(q)'
      BY <1>3 DEF BodyStarts, TypeOK, PhaseInv, Attempting
    <3>2. SpoolInv(q)'
      BY <1>3, SizeAssumption DEF BodyStarts, TypeOK, Chunks, SpoolInv, PhaseInv, Ended, Truncated
    <3>3. VerdictInv(q)'
      BY <1>3, SizeAssumption DEF BodyStarts, TypeOK, VerdictInv, PhaseInv, Attempting
    <3> QED
      BY <3>1, <3>2, <3>3
  <2>3. LockInv'
    BY <1>3, HostAssumption, NobodyAssumption DEF BodyStarts, TypeOK, LockInv, PhaseInv, OnTheWire, Attempting
  <2> QED
    BY <2>1, <2>2, <2>3
<1> QED
  BY <1>1, <1>2, <1>3

(* The download goroutine. *)
LEMMA DownloadStep ==
  ASSUME IInv, NEW r \in Requests, Receive(r) \/ Publish(r) \/ EndOfBody(r) \/ ReadError(r) \/ WriteError(r) \/ Release(r) \/ Done(r)
  PROVE  IInv'
<1> USE DEF IInv, requestVars, spoolVars, readerVars, Goto
<1>1. CASE Receive(r)
  <2>1. TypeOK'
    BY <1>1, SizeAssumption, NobodyAssumption DEF Receive, TypeOK, Chunks
  <2>2. ASSUME NEW q \in Requests PROVE (PhaseInv(q) /\ SpoolInv(q) /\ VerdictInv(q))'
    <3>1. PhaseInv(q)'
      BY <1>1 DEF Receive, TypeOK, PhaseInv, Attempting
    <3>2. SpoolInv(q)'
      BY <1>1, SizeAssumption DEF Receive, TypeOK, Chunks, SpoolInv, PhaseInv, Ended, Truncated
    <3>3. VerdictInv(q)'
      BY <1>1, SizeAssumption DEF Receive, TypeOK, VerdictInv, PhaseInv, Attempting
    <3> QED
      BY <3>1, <3>2, <3>3
  <2>3. LockInv'
    BY <1>1, HostAssumption, NobodyAssumption DEF Receive, TypeOK, LockInv, PhaseInv, OnTheWire, Attempting
  <2> QED
    BY <2>1, <2>2, <2>3
<1>2. CASE Publish(r)
  <2>1. TypeOK'
    BY <1>2, SizeAssumption, NobodyAssumption DEF Publish, TypeOK, Chunks
  <2>2. ASSUME NEW q \in Requests PROVE (PhaseInv(q) /\ SpoolInv(q) /\ VerdictInv(q))'
    <3>1. PhaseInv(q)'
      BY <1>2 DEF Publish, TypeOK, PhaseInv, Attempting
    <3>2. SpoolInv(q)'
      BY <1>2, SizeAssumption DEF Publish, TypeOK, Chunks, SpoolInv, PhaseInv, Ended, Truncated
    <3>3. VerdictInv(q)'
      BY <1>2, SizeAssumption DEF Publish, TypeOK, VerdictInv, PhaseInv, Attempting
    <3> QED
      BY <3>1, <3>2, <3>3
  <2>3. LockInv'
    BY <1>2, HostAssumption, NobodyAssumption DEF Publish, TypeOK, LockInv, PhaseInv, OnTheWire, Attempting
  <2> QED
    BY <2>1, <2>2, <2>3
<1>3. CASE EndOfBody(r)
  <2>1. TypeOK'
    BY <1>3, SizeAssumption, NobodyAssumption DEF EndOfBody, End, Truncated, TypeOK, Chunks
  <2>2. ASSUME NEW q \in Requests PROVE (PhaseInv(q) /\ SpoolInv(q) /\ VerdictInv(q))'
    <3>1. PhaseInv(q)'
      BY <1>3 DEF EndOfBody, End, Truncated, TypeOK, PhaseInv, Attempting
    <3>2. SpoolInv(q)'
      BY <1>3, SizeAssumption DEF EndOfBody, End, TypeOK, Chunks, SpoolInv, PhaseInv, Ended, Truncated
    <3>3. VerdictInv(q)'
      BY <1>3, SizeAssumption DEF EndOfBody, End, Truncated, TypeOK, VerdictInv, PhaseInv, Attempting
    <3> QED
      BY <3>1, <3>2, <3>3
  <2>3. LockInv'
    BY <1>3, HostAssumption, NobodyAssumption DEF EndOfBody, End, Truncated, TypeOK, LockInv, PhaseInv, OnTheWire, Attempting
  <2> QED
    BY <2>1, <2>2, <2>3
<1>4. CASE ReadError(r)
  <2>1. TypeOK'
    BY <1>4, SizeAssumption, NobodyAssumption DEF ReadError, End, TypeOK, Chunks
  <2>2. ASSUME NEW q \in Requests PROVE (PhaseInv(q) /\ SpoolInv(q) /\ VerdictInv(q))'
    <3>1. PhaseInv(q)'
      BY <1>4 DEF ReadError, End, TypeOK, PhaseInv, Attempting
    <3>2. SpoolInv(q)'
      BY <1>4, SizeAssumption DEF ReadError, End, TypeOK, Chunks, SpoolInv, PhaseInv, Ended, Truncated
    <3>3. VerdictInv(q)'
      BY <1>4, SizeAssumption DEF ReadError, End, TypeOK, VerdictInv, PhaseInv, Attempting
    <3> QED
      BY <3>1, <3>2, <3>3
  <2>3. LockInv'
    BY <1>4, HostAssumption, NobodyAssumption DEF ReadError, End, TypeOK, LockInv, PhaseInv, OnTheWire, Attempting
  <2> QED
    BY <2>1, <2>2, <2>3
<1>5. CASE WriteError(r)
  <2>1. TypeOK'
    BY <1>5, SizeAssumption, NobodyAssumption DEF WriteError, End, TypeOK, Chunks
  <2>2. ASSUME NEW q \in Requests PROVE (PhaseInv(q) /\ SpoolInv(q) /\ VerdictInv(q))'
    <3>1. PhaseInv(q)'
      BY <1>5 DEF WriteError, End, TypeOK, PhaseInv, Attempting
    <3>2. SpoolInv(q)'
      BY <1>5, SizeAssumption DEF WriteError, End, TypeOK, Chunks, SpoolInv, PhaseInv, Ended, Truncated
    <3>3. VerdictInv(q)'
      BY <1>5, SizeAssumption DEF WriteError, End, TypeOK, VerdictInv, PhaseInv, Attempting
    <3> QED
      BY <3>1, <3>2, <3>3
  <2>3. LockInv'
    BY <1>5, HostAssumption, NobodyAssumption DEF WriteError, End, TypeOK, LockInv, PhaseInv, OnTheWire, Attempting
  <2> QED
    BY <2>1, <2>2, <2>3
<1>6. CASE Release(r)
  <2>1. TypeOK'
    BY <1>6, SizeAssumption, NobodyAssumption DEF Release, Unlocked, TypeOK, Chunks
  <2>2. ASSUME NEW q \in Requests PROVE (PhaseInv(q) /\ SpoolInv(q) /\ VerdictInv(q))'
    <3>1. PhaseInv(q)'
      BY <1>6 DEF Release, Unlocked, TypeOK, PhaseInv, Attempting
    <3>2. SpoolInv(q)'
      BY <1>6, SizeAssumption DEF Release, Unlocked, TypeOK, Chunks, SpoolInv, PhaseInv, Ended, Truncated
    <3>3. VerdictInv(q)'
      BY <1>6, SizeAssumption DEF Release, Unlocked, TypeOK, VerdictInv, PhaseInv, Attempting
    <3> QED
      BY <3>1, <3>2, <3>3
  <2>3. LockInv'
    BY <1>6, HostAssumption, NobodyAssumption DEF Release, Unlocked, TypeOK, LockInv, PhaseInv, OnTheWire, Attempting
  <2> QED
    BY <2>1, <2>2, <2>3
<1>7. CASE Done(r)
  <2>1. TypeOK'
    BY <1>7, SizeAssumption, NobodyAssumption DEF Done, TypeOK, Chunks
  <2>2. ASSUME NEW q \in Requests PROVE (PhaseInv(q) /\ SpoolInv(q) /\ VerdictInv(q))'
    <3>1. PhaseInv(q)'
      BY <1>7 DEF Done, TypeOK, PhaseInv, Attempting
    <3>2. SpoolInv(q)'
      BY <1>7, SizeAssumption DEF Done, TypeOK, Chunks, SpoolInv, PhaseInv, Ended, Truncated
    <3>3. VerdictInv(q)'
      BY <1>7, SizeAssumption DEF Done, TypeOK, VerdictInv, PhaseInv, Attempting
    <3> QED
      BY <3>1, <3>2, <3>3
  <2>3. LockInv'
    BY <1>7, HostAssumption, NobodyAssumption DEF Done, TypeOK, LockInv, PhaseInv, OnTheWire, Attempting
  <2> QED
    BY <2>1, <2>2, <2>3
<1> QED
  BY <1>1, <1>2, <1>3, <1>4, <1>5, <1>6, <1>7

(* The reader. *)
LEMMA ParseStep ==
  ASSUME IInv, NEW r \in Requests, ReadWait(r) \/ SniffChunk(r) \/ SniffEnd(r) \/ ParseChunk(r) \/ ParseReturns(r) \/ ParsePanics(r)
  PROVE  IInv'
<1> USE DEF IInv, requestVars, spoolVars, readerVars, Goto
<1>1. CASE ReadWait(r)
  <2>1. TypeOK'
    BY <1>1, SizeAssumption, NobodyAssumption DEF ReadWait, TypeOK, Chunks
  <2>2. ASSUME NEW q \in Requests PROVE (PhaseInv(q) /\ SpoolInv(q) /\ VerdictInv(q))'
    <3>1. PhaseInv(q)'
      BY <1>1 DEF ReadWait, TypeOK, PhaseInv, Attempting
    <3>2. SpoolInv(q)'
      BY <1>1, SizeAssumption DEF ReadWait, TypeOK, Chunks, SpoolInv, PhaseInv, Ended, Truncated
    <3>3. VerdictInv(q)'
      BY <1>1, SizeAssumption DEF ReadWait, TypeOK, VerdictInv, PhaseInv, Attempting
    <3> QED
      BY <3>1, <3>2, <3>3
  <2>3. LockInv'
    BY <1>1, HostAssumption, NobodyAssumption DEF ReadWait, TypeOK, LockInv, PhaseInv, OnTheWire, Attempting
  <2> QED
    BY <2>1, <2>2, <2>3
<1>2. CASE SniffChunk(r)
  <2>1. TypeOK'
    BY <1>2, SizeAssumption, NobodyAssumption DEF SniffChunk, TypeOK, Chunks
  <2>2. ASSUME NEW q \in Requests PROVE (PhaseInv(q) /\ SpoolInv(q) /\ VerdictInv(q))'
    <3>1. PhaseInv(q)'
      BY <1>2 DEF SniffChunk, TypeOK, PhaseInv, Attempting
    <3>2. SpoolInv(q)'
      BY <1>2, SizeAssumption DEF SniffChunk, TypeOK, Chunks, SpoolInv, PhaseInv, Ended, Truncated
    <3>3. VerdictInv(q)'
      BY <1>2, SizeAssumption DEF SniffChunk, TypeOK, VerdictInv, PhaseInv, Attempting
    <3> QED
      BY <3>1, <3>2, <3>3
  <2>3. LockInv'
    BY <1>2, HostAssumption, NobodyAssumption DEF SniffChunk, TypeOK, LockInv, PhaseInv, OnTheWire, Attempting
  <2> QED
    BY <2>1, <2>2, <2>3
<1>3. CASE SniffEnd(r)
  <2>1. TypeOK'
    BY <1>3, SizeAssumption, NobodyAssumption DEF SniffEnd, TypeOK, Chunks
  <2>2. ASSUME NEW q \in Requests PROVE (PhaseInv(q) /\ SpoolInv(q) /\ VerdictInv(q))'
    <3>1. PhaseInv(q)'
      BY <1>3 DEF SniffEnd, TypeOK, PhaseInv, Attempting
    <3>2. SpoolInv(q)'
      BY <1>3, SizeAssumption DEF SniffEnd, TypeOK, Chunks, SpoolInv, PhaseInv, Ended, Truncated
    <3>3. VerdictInv(q)'
      BY <1>3, SizeAssumption DEF SniffEnd, TypeOK, VerdictInv, PhaseInv, Attempting
    <3> QED
      BY <3>1, <3>2, <3>3
  <2>3. LockInv'
    BY <1>3, HostAssumption, NobodyAssumption DEF SniffEnd, TypeOK, LockInv, PhaseInv, OnTheWire, Attempting
  <2> QED
    BY <2>1, <2>2, <2>3
<1>4. CASE ParseChunk(r)
  <2>1. TypeOK'
    BY <1>4, SizeAssumption, NobodyAssumption DEF ParseChunk, TypeOK, Chunks
  <2>2. ASSUME NEW q \in Requests PROVE (PhaseInv(q) /\ SpoolInv(q) /\ VerdictInv(q))'
    <3>1. PhaseInv(q)'
      BY <1>4 DEF ParseChunk, TypeOK, PhaseInv, Attempting
    <3>2. SpoolInv(q)'
      BY <1>4, SizeAssumption DEF ParseChunk, TypeOK, Chunks, SpoolInv, PhaseInv, Ended, Truncated
    <3>3. VerdictInv(q)'
      BY <1>4, SizeAssumption DEF ParseChunk, TypeOK, VerdictInv, PhaseInv, Attempting
    <3> QED
      BY <3>1, <3>2, <3>3
  <2>3. LockInv'
    BY <1>4, HostAssumption, NobodyAssumption DEF ParseChunk, TypeOK, LockInv, PhaseInv, OnTheWire, Attempting
  <2> QED
    BY <2>1, <2>2, <2>3
<1>5. CASE ParseReturns(r)
  <2>1. TypeOK'
    BY <1>5, SizeAssumption, NobodyAssumption DEF ParseReturns, TypeOK, Chunks
  <2>2. ASSUME NEW q \in Requests PROVE (PhaseInv(q) /\ SpoolInv(q) /\ VerdictInv(q))'
    <3>1. PhaseInv(q)'
      BY <1>5 DEF ParseReturns, TypeOK, PhaseInv, Attempting
    <3>2. SpoolInv(q)'
      BY <1>5, SizeAssumption DEF ParseReturns, TypeOK, Chunks, SpoolInv, PhaseInv, Ended, Truncated
    <3>3. VerdictInv(q)'
      BY <1>5, SizeAssumption DEF ParseReturns, TypeOK, VerdictInv, PhaseInv, Attempting
    <3> QED
      BY <3>1, <3>2, <3>3
  <2>3. LockInv'
    BY <1>5, HostAssumption, NobodyAssumption DEF ParseReturns, TypeOK, LockInv, PhaseInv, OnTheWire, Attempting
  <2> QED
    BY <2>1, <2>2, <2>3
<1>6. CASE ParsePanics(r)
  <2>1. TypeOK'
    BY <1>6, SizeAssumption, NobodyAssumption DEF ParsePanics, TypeOK, Chunks
  <2>2. ASSUME NEW q \in Requests PROVE (PhaseInv(q) /\ SpoolInv(q) /\ VerdictInv(q))'
    <3>1. PhaseInv(q)'
      BY <1>6 DEF ParsePanics, TypeOK, PhaseInv, Attempting
    <3>2. SpoolInv(q)'
      BY <1>6, SizeAssumption DEF ParsePanics, TypeOK, Chunks, SpoolInv, PhaseInv, Ended, Truncated
    <3>3. VerdictInv(q)'
      BY <1>6, SizeAssumption DEF ParsePanics, TypeOK, VerdictInv, PhaseInv, Attempting
    <3> QED
      BY <3>1, <3>2, <3>3
  <2>3. LockInv'
    BY <1>6, HostAssumption, NobodyAssumption DEF ParsePanics, TypeOK, LockInv, PhaseInv, OnTheWire, Attempting
  <2> QED
    BY <2>1, <2>2, <2>3
<1> QED
  BY <1>1, <1>2, <1>3, <1>4, <1>5, <1>6

(* The outcome. *)
LEMMA OutcomeStep ==
  ASSUME IInv, NEW r \in Requests, Settle(r) \/ Cancel(r) \/ RemoveFile(r)
  PROVE  IInv'
<1> USE DEF IInv, requestVars, spoolVars, readerVars, Goto
<1>1. CASE Settle(r)
  <2>1. TypeOK'
    BY <1>1, SizeAssumption, NobodyAssumption DEF Settle, Outcome, TypeOK, Chunks
  <2>2. ASSUME NEW q \in Requests PROVE (PhaseInv(q) /\ SpoolInv(q) /\ VerdictInv(q))'
    <3>1. PhaseInv(q)'
      BY <1>1 DEF Settle, Outcome, TypeOK, PhaseInv, Attempting
    <3>2. SpoolInv(q)'
      BY <1>1, SizeAssumption DEF Settle, Outcome, TypeOK, Chunks, SpoolInv, PhaseInv, Ended, Truncated
    <3>3. VerdictInv(q)'
      BY <1>1, SizeAssumption DEF Settle, Outcome, TypeOK, VerdictInv, PhaseInv, Attempting
    <3> QED
      BY <3>1, <3>2, <3>3
  <2>3. LockInv'
    BY <1>1, HostAssumption, NobodyAssumption DEF Settle, Outcome, TypeOK, LockInv, PhaseInv, OnTheWire, Attempting
  <2> QED
    BY <2>1, <2>2, <2>3
<1>2. CASE Cancel(r)
  <2>1. TypeOK'
    BY <1>2, SizeAssumption, NobodyAssumption DEF Cancel, TypeOK, Chunks
  <2>2. ASSUME NEW q \in Requests PROVE (PhaseInv(q) /\ SpoolInv(q) /\ VerdictInv(q))'
    <3>1. PhaseInv(q)'
      BY <1>2 DEF Cancel, TypeOK, PhaseInv, Attempting
    <3>2. SpoolInv(q)'
      BY <1>2, SizeAssumption DEF Cancel, TypeOK, Chunks, SpoolInv, PhaseInv, Ended, Truncated
    <3>3. VerdictInv(q)'
      BY <1>2, SizeAssumption DEF Cancel, TypeOK, VerdictInv, PhaseInv, Attempting
    <3> QED
      BY <3>1, <3>2, <3>3
  <2>3. LockInv'
    BY <1>2, HostAssumption, NobodyAssumption DEF Cancel, TypeOK, LockInv, PhaseInv, OnTheWire, Attempting
  <2> QED
    BY <2>1, <2>2, <2>3
<1>3. CASE RemoveFile(r)
  <2>1. TypeOK'
    BY <1>3, SizeAssumption, NobodyAssumption DEF RemoveFile, TypeOK, Chunks
  <2>2. ASSUME NEW q \in Requests PROVE (PhaseInv(q) /\ SpoolInv(q) /\ VerdictInv(q))'
    <3>1. PhaseInv(q)'
      BY <1>3 DEF RemoveFile, TypeOK, PhaseInv, Attempting
    <3>2. SpoolInv(q)'
      BY <1>3, SizeAssumption DEF RemoveFile, TypeOK, Chunks, SpoolInv, PhaseInv, Ended, Truncated
    <3>3. VerdictInv(q)'
      BY <1>3, SizeAssumption DEF RemoveFile, TypeOK, VerdictInv, PhaseInv, Attempting
    <3> QED
      BY <3>1, <3>2, <3>3
  <2>3. LockInv'
    BY <1>3, HostAssumption, NobodyAssumption DEF RemoveFile, TypeOK, LockInv, PhaseInv, OnTheWire, Attempting
  <2> QED
    BY <2>1, <2>2, <2>3
<1> QED
  BY <1>1, <1>2, <1>3

(* The invariant is inductive.                                              *)
THEOREM Inductive == Spec => []IInv
<1>1. IInv /\ [Next]_vars => IInv'
  <2>1. ASSUME IInv, UNCHANGED vars PROVE IInv'
    BY <2>1 DEF IInv, vars, requestVars, spoolVars, readerVars, TypeOK, PhaseInv, SpoolInv,
                VerdictInv, LockInv, Ended, Truncated, OnTheWire
  <2> QED
    BY <2>1, LoopStep, StartStep, DownloadStep, ParseStep, OutcomeStep DEF Next
<1> QED
  BY <1>1, InitIInv, PTL DEF Spec

(* One request on the wire per CDN host.                                    *)
THEOREM HostsAreSerialized == Spec => []OnePerHost
<1>1. IInv => OnePerHost
  BY HostAssumption DEF IInv, LockInv, OnePerHost
<1> QED
  BY <1>1, Inductive, PTL

(* An answered result is of a whole download.                               *)
THEOREM ResultsAreWhole == Spec => []ResultIsWhole
<1>1. IInv => ResultIsWhole
  BY DEF IInv, VerdictInv, SpoolInv, ResultIsWhole, Ended, Truncated
<1> QED
  BY <1>1, Inductive, PTL

(* A request that is not attempting holds no lock, download or file.        *)
THEOREM AttemptsLeaveNothing == Spec => []NothingHeld
<1>1. IInv => NothingHeld
  BY DEF IInv, PhaseInv, LockInv, NothingHeld, OnTheWire, Attempting
<1> QED
  BY <1>1, Inductive, PTL

(* Type correctness, the reader never passes what was published, and nothing *)
(* is left when an attempt is over.                                          *)
THEOREM SpoolIsCoherent == Spec => []SpoolCoherent
<1>1. IInv /\ NothingHeld => SpoolCoherent
  BY DEF IInv, SpoolInv, ReaderBehindWriter, SpoolCoherent
<1> QED
  BY <1>1, Inductive, AttemptsLeaveNothing, PTL

(* Only a broken download, or a retryable refusal, is tried again.          *)
THEOREM OnlyBrokenIsRetried == Spec => RetriesOnlyBroken
<1>1. IInv /\ [Next]_vars =>
        [\A r \in Requests : attempt'[r] > attempt[r] /\ attempt[r] > 0
           => verdict[r] = "retryable" /\ (dl[r] = "done" => failure[r] = "broken")]_vars
  <2> SUFFICES ASSUME IInv, Next, NEW r \in Requests, attempt'[r] > attempt[r], attempt[r] > 0
               PROVE  verdict[r] = "retryable" /\ (dl[r] = "done" => failure[r] = "broken")
    OBVIOUS
  <2>1. attempt \in [Requests -> 0..Attempts]
    BY DEF IInv, TypeOK
  <2>2. PICK q \in Requests : Begin(q) \/ Retry(q)
    BY <2>1, SizeAssumption
    DEF Next, Decide, AcquireHost, NoBody, BodyStarts, Receive, Publish, EndOfBody, ReadError,
        WriteError, End, Release, Done, ReadWait, SniffChunk, SniffEnd, ParseChunk, ParseReturns,
        ParsePanics, Settle, Cancel, RemoveFile, requestVars
  <2>3. q = r /\ Retry(r)
    BY <2>1, <2>2, SizeAssumption DEF Begin, Retry
  <2> QED
    BY <2>3 DEF IInv, VerdictInv, Retry
<1> QED
  BY <1>1, Inductive, PTL DEF Spec, RetriesOnlyBroken
=============================================================================
