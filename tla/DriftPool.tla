----------------------------- MODULE DriftPool -----------------------------
(***************************************************************************)
(* How /drift computes its report (simulate.Drift in                        *)
(* internal/simulate/drift.go, streamDrift and handleDrift in               *)
(* cmd/server/drift.go): the batch is cut into chunks; for each chunk a     *)
(* pool of workers claims indices from an atomic counter and writes each    *)
(* answer into the slot of one buffer, which every chunk reuses; when all   *)
(* have finished the summary is extended and the buffer is written out,     *)
(* line by line when streaming. It implements DriftReport.                  *)
(*                                                                         *)
(* Lineups and buffer slots are numbered from 1. An answer is the number of *)
(* the lineup it answers: a flight is deterministic, so a slot differs from *)
(* the right one only by answering another lineup.                         *)
(***************************************************************************)
EXTENDS Integers, Sequences, FiniteSets

CONSTANTS Workers,    \* the pool; the code clamps it to 1..chunkSize
          N,          \* lineups in the request
          Chunk,      \* chunkSize
          Kinds       \* the kinds of lineup a request may hold (see Verdict)

ASSUME PoolAssumption  == Workers # {}
ASSUME BatchAssumption == N \in Nat \ {0}
ASSUME ChunkAssumption == Chunk \in Nat \ {0}

VARIABLES kind,      \* the request: what each lineup's two flights do
          stream,    \* whether the request asked for NDJSON
          main,      \* where the handler is
          start,     \* first lineup of the chunk, minus one
          buf,       \* the reused result buffer; 0 where nothing was written yet
          next,      \* the chunk's atomic counter
          wpc,       \* each worker: off, claim, fly, done
          claimed,   \* the slot each worker last claimed
          tally,     \* out.Summary
          cursor,    \* lines of this chunk written by Emit
          out,       \* answers written to the caller, or appended to Results
          gone,      \* the connection is broken
          ending     \* how the response ended

request  == <<kind, stream>>
poolVars == <<buf, next, wpc, claimed>>
outVars  == <<cursor, out, gone, ending>>
vars     == <<request, main, start, poolVars, tally, outVars>>

Verdicts == {"unchanged", "moved", "broken", "unsimulatable"}

(* driftOne: flown is a known grenade type with a seed the model accepts,   *)
(* before and after say whether the flight resolved on each mesh, far       *)
(* whether the landing moved by at least Thresholds.Unchanged.              *)
Verdict(k) ==
  IF ~k.flown \/ (~k.before /\ ~k.after) THEN "unsimulatable"
  ELSE IF ~k.after THEN "broken"
  ELSE IF ~k.before \/ k.far THEN "moved"
  ELSE "unchanged"

(* DriftSummary.add counts a slot nobody answered as unsimulatable.         *)
VerdictOf(answer) == IF answer = 0 THEN "unsimulatable" ELSE Verdict(kind[answer])

(* The batch of the chunk, and the sum of its verdicts.                     *)
Least(a, b) == IF a < b THEN a ELSE b
BatchLen    == Least(Chunk, N - start)

(* Wrong (like every definition marked so, a fault a property is tried on): *)
(* the summary is taken over the whole buffer.                              *)
TalliedBuffer(t, answers, n) ==
  [v \in Verdicts |-> t[v] + Cardinality({i \in DOMAIN answers : VerdictOf(answers[i]) = v})]

Tallied(t, answers, n) ==
  [v \in Verdicts |-> t[v] + Cardinality({i \in 1..n : VerdictOf(answers[i]) = v})]

TypeOK ==
  /\ kind \in [1..N -> Kinds]
  /\ stream \in BOOLEAN
  /\ main \in {"begin", "spawn", "join", "emit", "finish", "error", "over"}
  /\ start \in 0..(N - 1)
  /\ buf \in [1..Chunk -> 0..N]
  /\ next \in Nat
  /\ wpc \in [Workers -> {"off", "claim", "fly", "done"}]
  /\ claimed \in [Workers -> 0..Chunk]
  /\ tally \in [Verdicts -> Nat]
  /\ cursor \in 0..Chunk
  /\ out \in Seq(0..N)
  /\ gone \in BOOLEAN
  /\ ending \in {"none", "summary", "error", "dropped"}

Init ==
  /\ kind \in [1..N -> Kinds]
  /\ stream \in BOOLEAN
  /\ main = "begin"
  /\ start = 0
  /\ buf = [i \in 1..Chunk |-> 0]
  /\ next = 0
  /\ wpc = [w \in Workers |-> "off"]
  /\ claimed = [w \in Workers |-> 0]
  /\ tally = [v \in Verdicts |-> 0]
  /\ cursor = 0
  /\ out = << >>
  /\ gone = FALSE
  /\ ending = "none"

-----------------------------------------------------------------------------
(* The header line, then Drift's own validation: a constant or a threshold  *)
(* out of range ends a stream with an error line, a buffered run with a 400.*)

Begin ==
  /\ main = "begin"
  /\ \/ main' = "spawn" /\ UNCHANGED <<gone, ending>>
     \/ main' = "error" /\ UNCHANGED <<gone, ending>>
     \/ stream /\ main' = "over" /\ gone' = TRUE /\ ending' = "dropped"
  /\ UNCHANGED <<request, start, poolVars, tally, cursor, out>>

Spawn ==
  /\ main = "spawn"
  /\ next' = 0
  /\ wpc' = [w \in Workers |-> "claim"]
  /\ main' = "join"
  /\ UNCHANGED <<request, start, buf, claimed, tally, outVars>>

(* next.Add(1): the claim is one atomic step, the answer another.           *)
Claim(w) ==
  /\ wpc[w] = "claim"
  /\ next' = next + 1
  /\ \/ /\ next' <= BatchLen
        /\ claimed' = [claimed EXCEPT ![w] = next']
        /\ wpc' = [wpc EXCEPT ![w] = "fly"]
     \/ /\ next' > BatchLen
        /\ wpc' = [wpc EXCEPT ![w] = "done"]
        /\ UNCHANGED claimed
  /\ UNCHANGED <<request, main, start, buf, tally, outVars>>

Answer(w) ==
  /\ wpc[w] = "fly"
  /\ buf' = [buf EXCEPT ![claimed[w]] = start + claimed[w]]
  /\ wpc' = [wpc EXCEPT ![w] = "claim"]
  /\ UNCHANGED <<request, main, start, next, claimed, tally, outVars>>

(* Wrong: the first worker to finish ends the wait.                         *)
SomeDone == \E w \in Workers : wpc[w] = "done"

AllDone == \A w \in Workers : wpc[w] = "done"

(* After wg.Wait: the summary, and for a buffered run the results too.      *)
Join ==
  /\ main = "join"
  /\ AllDone
  /\ tally' = Tallied(tally, buf, BatchLen)
  /\ \/ stream /\ main' = "emit" /\ cursor' = 0 /\ UNCHANGED <<start, out>>
     \/ /\ ~stream
        /\ out' = out \o SubSeq(buf, 1, BatchLen)
        /\ \/ start + Chunk < N /\ start' = start + Chunk /\ main' = "spawn"
           \/ start + Chunk >= N /\ main' = "finish" /\ UNCHANGED start
        /\ UNCHANGED cursor
  /\ UNCHANGED <<request, poolVars, gone, ending>>

(* Wrong: a line that cannot be written is skipped.                         *)
EmitLineOrSkip ==
  /\ main = "emit"
  /\ cursor < BatchLen
  /\ \/ out' = Append(out, buf[cursor + 1])
     \/ UNCHANGED out
  /\ cursor' = cursor + 1
  /\ UNCHANGED <<request, main, start, poolVars, tally, gone, ending>>

(* Emit: one line per answer, straight from the buffer. An error stops the  *)
(* run: the connection is gone, or the value would not encode.              *)
EmitLine ==
  /\ main = "emit"
  /\ cursor < BatchLen
  /\ \/ /\ out' = Append(out, buf[cursor + 1])
        /\ cursor' = cursor + 1
        /\ UNCHANGED <<main, gone>>
     \/ /\ main' = "error"
        /\ \E broken \in BOOLEAN : gone' = broken
        /\ UNCHANGED <<out, cursor>>
  /\ UNCHANGED <<request, start, poolVars, tally, ending>>

(* Wrong: the chunk is over when chunkSize lines are out.                   *)
EmitEndFullChunk ==
  /\ main = "emit"
  /\ cursor = Chunk
  /\ \/ start + Chunk < N /\ start' = start + Chunk /\ main' = "spawn"
     \/ start + Chunk >= N /\ main' = "finish" /\ UNCHANGED start
  /\ UNCHANGED <<request, poolVars, tally, outVars>>

EmitEnd ==
  /\ main = "emit"
  /\ cursor = BatchLen
  /\ \/ start + Chunk < N /\ start' = start + Chunk /\ main' = "spawn"
     \/ start + Chunk >= N /\ main' = "finish" /\ UNCHANGED start
  /\ UNCHANGED <<request, poolVars, tally, outVars>>

(* The last line, or the one JSON body: both carry the summary.             *)
Finish ==
  /\ main = "finish"
  /\ \/ ending' = "summary" /\ UNCHANGED gone
     \/ ending' = "dropped" /\ gone' = TRUE
  /\ main' = "over"
  /\ UNCHANGED <<request, start, poolVars, tally, cursor, out>>

ErrorLine ==
  /\ main = "error"
  /\ ending' = IF gone THEN "dropped" ELSE "error"
  /\ main' = "over"
  /\ UNCHANGED <<request, start, poolVars, tally, cursor, out, gone>>

Next ==
  \/ Begin \/ Spawn \/ Join \/ EmitLine \/ EmitEnd \/ Finish \/ ErrorLine
  \/ \E w \in Workers : Claim(w)
  \/ \E w \in Workers : Answer(w)

DriftStep == Begin \/ Spawn \/ Join \/ EmitLine \/ EmitEnd \/ Finish \/ ErrorLine

DriftWork(w) == Claim(w) \/ Answer(w)

Spec == Init /\ [][Next]_vars

(* The handler and its workers are goroutines, flights are bounded by       *)
(* max_flight, and a write to a stalled client ends by the server's         *)
(* WriteTimeout.                                                            *)
FairSpec == /\ Spec
            /\ WF_vars(DriftStep)
            /\ \A w \in Workers : WF_vars(DriftWork(w))

-----------------------------------------------------------------------------
(* No two workers fly the same slot, and none is still flying when the      *)
(* buffer is read, written out or handed to the next chunk: the buffer      *)
(* needs no lock.                                                           *)
SlotsAreOwned ==
  /\ \A v, w \in Workers :
       wpc[v] = "fly" /\ wpc[w] = "fly" /\ claimed[v] = claimed[w] => v = w
  /\ main # "join" => \A w \in Workers : wpc[w] \in {"off", "done"}

(* While a chunk is written out, every slot of it holds its own lineup's    *)
(* answer, none left over from the chunk before.                            *)
NoStaleAnswer == main = "emit" => \A i \in 1..BatchLen : buf[i] = start + i

(* The buffer is never read by one goroutine while another writes it, and   *)
(* what is read is always of the chunk at hand.                             *)
BufferCoherent == TypeOK /\ SlotsAreOwned /\ NoStaleAnswer

(* A summary that reaches the caller counts exactly the answers that        *)
(* reached the caller, verdict by verdict, and so all N of them.            *)
SummaryIsOfReport ==
  ending = "summary" =>
    /\ Len(out) = N
    /\ \A v \in Verdicts :
         tally[v] = Cardinality({i \in 1..Len(out) : VerdictOf(out[i]) = v})

(* The promise: in order, nothing twice, complete only when whole. A        *)
(* buffered run delivers its results with the body.                         *)
Status == IF main # "over" THEN "running"
          ELSE IF ending = "summary" THEN "complete" ELSE "failed"

Report == INSTANCE DriftReport WITH delivered <- out, status <- Status

ReportSpec == Report!Spec

RunOver == main = "over"
=============================================================================
