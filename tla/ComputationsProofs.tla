------------------------- MODULE ComputationsProofs -------------------------
(***************************************************************************)
(* Proofs about the computations that requests are runs of.                 *)
(*                                                                          *)
(* DriftPool implements DriftReport, for any number of workers, lineups and *)
(* any chunk size, and its summary counts what was reported.                *)
(*                                                                          *)
(* Discover: what a searched spec holds needs only that every spec in hand  *)
(* is in one hand (SearchInv). That the nearest spots are searched first    *)
(* needs the order of the specs, and so that NearestFirst sorts: it puts at *)
(* place k the spot that k - 1 others go before, and there is one, because  *)
(* as many places as spots are taken, each by one (Ranked). That an answer  *)
(* is to the request needs only that what was taken up is not let go of     *)
(* (TakenUp), and what the operators come to: floors, stands, specs, rank.  *)
(*                                                                          *)
(* SmokeSim: the simulation that visits only the voxels in its lists is the *)
(* game's, which walks the whole grid.                                      *)
(*                                                                          *)
(* VoxelLog: a log is told by its reads alone, since a frame is whole by    *)
(* the first of them that is long enough (IsLogOf), so that other reads     *)
(* which tell the same give the same log (OneLog). The ticks of its steps   *)
(* are bounded from the last back to the first.                             *)
(*                                                                          *)
(* MeshPrefetch: a parse uses the mesh of the map it had named.             *)
(***************************************************************************)
EXTENDS DriftPool, Discover, SmokeSim, VoxelLog, MeshPrefetch, OrderTheorems, SequenceTheorems

-----------------------------------------------------------------------------
(* DriftPool. *)

(* The answers delivered are a prefix of the batch, as long as the handler's*)
(* position says.                                                           *)
InOrderSoFar ==
  /\ Len(out) <= N
  /\ \A i \in 1..Len(out) : out[i] = i
  /\ main \in {"begin", "spawn", "join"} => Len(out) = start
  /\ main = "emit" => Len(out) = start + cursor /\ cursor <= BatchLen
  /\ main = "finish" => Len(out) = N
  /\ main = "over" /\ ending = "summary" => Len(out) = N
  /\ main # "over" => ending = "none"

(* Only a running chunk has running workers; a worker owns the slot it      *)
(* claimed, and finds the counter past the batch before it stops.           *)
PoolInv ==
  /\ main # "join" => \A w \in Workers : wpc[w] \in {"off", "done"}
  /\ main = "join" => \A w \in Workers : wpc[w] # "off"
  /\ \A w \in Workers : wpc[w] = "fly" => claimed[w] \in 1..BatchLen /\ claimed[w] <= next
  /\ \A v, w \in Workers :
       wpc[v] = "fly" /\ wpc[w] = "fly" /\ claimed[v] = claimed[w] => v = w
  /\ main = "join" => \A w \in Workers : wpc[w] = "done" => next > BatchLen

(* Every claimed slot is answered or being answered.                        *)
SlotsInv ==
  /\ main = "join" => \A i \in 1..BatchLen :
       i <= next => buf[i] = start + i \/ \E w \in Workers : wpc[w] = "fly" /\ claimed[w] = i
  /\ NoStaleAnswer

IInv == TypeOK /\ InOrderSoFar /\ PoolInv /\ SlotsInv

LEMMA SeqOfFunction ==
  ASSUME NEW S, NEW n \in Nat, NEW f \in [1..n -> S]
  PROVE  f \in Seq(S) /\ Len(f) = n
OBVIOUS

LEMMA BatchLenBounds ==
  ASSUME start \in 0..(N - 1)
  PROVE  /\ BatchLen \in 1..Chunk /\ start + BatchLen <= N
         /\ start + Chunk < N => BatchLen = Chunk
         /\ start + Chunk >= N => start + BatchLen = N
  BY BatchAssumption, ChunkAssumption DEF BatchLen, Least

LEMMA TallyType ==
  ASSUME NEW t \in [Verdicts -> Nat], NEW a, NEW n \in Nat
  PROVE  Tallied(t, a, n) \in [Verdicts -> Nat]
<1> SUFFICES ASSUME NEW v \in Verdicts
             PROVE  t[v] + Cardinality({i \in 1..n : VerdictOf(a[i]) = v}) \in Nat
  BY DEF Tallied
<1> DEFINE S == {i \in 1..n : VerdictOf(a[i]) = v}
<1>1. IsFiniteSet(1..n)
  BY FS_Interval
<1>2. IsFiniteSet(S)
  <2> S \subseteq 1..n
    OBVIOUS
  <2> HIDE DEF S
  <2> QED
    BY <1>1, FS_Subset
<1> HIDE DEF S
<1>3. Cardinality(S) \in Nat
  BY <1>2, FS_CardinalityType
<1> QED
  BY <1>3 DEF S

LEMMA InitIInv == Init => IInv
<1> SUFFICES ASSUME Init PROVE IInv
  OBVIOUS
<1>1. TypeOK
  <2>1. start \in 0..(N - 1) /\ cursor \in 0..Chunk /\ next \in Nat
    BY BatchAssumption, ChunkAssumption DEF Init
  <2>2. buf \in [1..Chunk -> 0..N] /\ claimed \in [Workers -> 0..Chunk]
    BY BatchAssumption, ChunkAssumption DEF Init
  <2>3. tally \in [Verdicts -> Nat] /\ wpc \in [Workers -> {"off", "claim", "fly", "done"}]
    BY DEF Init
  <2>4. out \in Seq(0..N)
    BY EmptySeq DEF Init
  <2>5. main \in {"begin"} /\ ending \in {"none"} /\ stream \in BOOLEAN /\ gone \in BOOLEAN
    BY DEF Init
  <2> QED
    BY <2>1, <2>2, <2>3, <2>4, <2>5 DEF Init, TypeOK
<1>2. InOrderSoFar /\ PoolInv /\ SlotsInv
  BY BatchAssumption DEF Init, InOrderSoFar, PoolInv, SlotsInv, NoStaleAnswer
<1> QED
  BY <1>1, <1>2 DEF IInv

(* Joining a chunk: the whole batch has been answered.                      *)
LEMMA JoinedIsAnswered ==
  ASSUME IInv, Join
  PROVE  \A i \in 1..BatchLen : buf[i] = start + i
<1>1. PICK w \in Workers : wpc[w] = "done"
  BY PoolAssumption DEF Join, AllDone
<1>2. next > BatchLen /\ \A v \in Workers : wpc[v] # "fly"
  BY <1>1 DEF Join, AllDone, IInv, PoolInv
<1>3. BatchLen \in Nat /\ next \in Nat
  BY BatchLenBounds, ChunkAssumption DEF IInv, TypeOK
<1> QED
  BY <1>2, <1>3 DEF Join, IInv, SlotsInv

LEMMA WorkerStep ==
  ASSUME IInv, NEW w \in Workers, Claim(w) \/ Answer(w)
  PROVE  IInv'
<1> USE DEF IInv, request, outVars
<1>1. BatchLen \in 1..Chunk /\ BatchLen' = BatchLen /\ start + BatchLen <= N
  BY BatchLenBounds DEF TypeOK, Claim, Answer, BatchLen
<1>2. main = "join"
  BY DEF Claim, Answer, PoolInv
<1>3. CASE Claim(w)
  <2>1. TypeOK'
    <3>1. next' \in Nat /\ wpc' \in [Workers -> {"off", "claim", "fly", "done"}]
      BY <1>3 DEF Claim, TypeOK
    <3>2. claimed' \in [Workers -> 0..Chunk]
      <4>1. CASE claimed' = claimed
        BY <4>1 DEF TypeOK
      <4>2. CASE next' <= BatchLen /\ claimed' = [claimed EXCEPT ![w] = next']
        <5>1. next' \in 0..Chunk
          BY <1>1, <3>1, <4>2, ChunkAssumption
        <5> QED
          BY <4>2, <5>1 DEF TypeOK
      <4> QED
        BY <1>3, <4>1, <4>2 DEF Claim
    <3> QED
      BY <1>3, <3>1, <3>2 DEF Claim, TypeOK
  <2>2. InOrderSoFar'
    BY <1>1, <1>3 DEF Claim, InOrderSoFar, TypeOK
  <2>3. PoolInv'
    <3>1. next \in Nat /\ next' = next + 1 /\ BatchLen \in Nat
      BY <1>1, <1>3, ChunkAssumption DEF Claim, TypeOK
    <3>2. \A v \in Workers : v # w => wpc'[v] = wpc[v] /\ claimed'[v] = claimed[v]
      BY <1>3 DEF Claim, TypeOK
    <3>3. \/ wpc'[w] = "fly" /\ claimed'[w] = next' /\ next' <= BatchLen
          \/ wpc'[w] = "done" /\ next' > BatchLen
      BY <1>3 DEF Claim, TypeOK
    <3>4. \A v \in Workers : wpc'[v] = "fly" => claimed'[v] \in 1..BatchLen /\ claimed'[v] <= next'
      BY <3>1, <3>2, <3>3 DEF PoolInv
    <3>5. \A v \in Workers : v # w /\ wpc'[v] = "fly" => claimed'[v] \in Nat /\ claimed'[v] < next'
      BY <3>1, <3>2 DEF PoolInv
    <3>6. \A u, v \in Workers :
            wpc'[u] = "fly" /\ wpc'[v] = "fly" /\ claimed'[u] = claimed'[v] => u = v
      BY <3>1, <3>2, <3>3, <3>5 DEF PoolInv
    <3>7. \A v \in Workers : wpc'[v] # "off" /\ (wpc'[v] = "done" => next' > BatchLen)
      BY <1>2, <3>1, <3>2, <3>3 DEF PoolInv
    <3>8. main' = "join"
      BY <1>2, <1>3 DEF Claim
    <3> QED
      BY <1>1, <3>4, <3>6, <3>7, <3>8 DEF PoolInv
  <2>4. SlotsInv'
    <3>1. ASSUME NEW i \in 1..BatchLen, i <= next'
          PROVE  buf[i] = start + i \/ \E v \in Workers : wpc'[v] = "fly" /\ claimed'[v] = i
      <4>1. CASE i <= next
        BY <1>1, <1>2, <1>3, <4>1 DEF Claim, SlotsInv, TypeOK
      <4>2. CASE i = next + 1
        BY <1>1, <1>3, <4>2 DEF Claim, TypeOK
      <4> QED
        BY <1>1, <1>3, <3>1, <4>1, <4>2 DEF Claim, TypeOK
    <3> QED
      BY <1>1, <1>2, <1>3, <3>1 DEF Claim, SlotsInv, NoStaleAnswer
  <2> QED
    BY <2>1, <2>2, <2>3, <2>4
<1>4. CASE Answer(w)
  <2>1. claimed[w] \in 1..BatchLen
    BY <1>4 DEF Answer, PoolInv
  <2>2. TypeOK'
    BY <1>1, <1>4, <2>1, BatchAssumption, ChunkAssumption DEF Answer, TypeOK
  <2>3. InOrderSoFar'
    BY <1>1, <1>4 DEF Answer, InOrderSoFar, TypeOK
  <2>4. PoolInv'
    BY <1>1, <1>2, <1>4 DEF Answer, PoolInv, TypeOK
  <2>5. SlotsInv'
    <3>1. ASSUME NEW i \in 1..BatchLen, i <= next
          PROVE  buf'[i] = start + i \/ \E v \in Workers : wpc'[v] = "fly" /\ claimed'[v] = i
      <4>1. CASE claimed[w] = i
        BY <1>1, <1>4, <4>1 DEF Answer, TypeOK
      <4>2. CASE claimed[w] # i
        <5>1. buf'[i] = buf[i]
          BY <1>1, <1>4, <4>2, ChunkAssumption DEF Answer, TypeOK
        <5>2. \A v \in Workers : wpc[v] = "fly" /\ claimed[v] = i => wpc'[v] = "fly" /\ claimed'[v] = i
          BY <1>4, <4>2 DEF Answer, TypeOK
        <5> QED
          BY <1>2, <3>1, <5>1, <5>2 DEF SlotsInv
      <4> QED
        BY <4>1, <4>2
    <3> QED
      BY <1>1, <1>2, <1>4, <3>1 DEF Answer, SlotsInv, NoStaleAnswer
  <2> QED
    BY <2>2, <2>3, <2>4, <2>5
<1> QED
  BY <1>3, <1>4

LEMMA HandlerStep ==
  ASSUME IInv, Begin \/ Spawn \/ EmitLine \/ EmitEnd \/ Finish \/ ErrorLine
  PROVE  IInv'
<1> USE DEF IInv, request, outVars, poolVars
<1>0. /\ BatchLen \in 1..Chunk /\ start + BatchLen <= N
      /\ start + Chunk < N => BatchLen = Chunk
      /\ start + Chunk >= N => start + BatchLen = N
  BY BatchLenBounds DEF TypeOK
<1>1. CASE Begin
  BY <1>1 DEF Begin, TypeOK, InOrderSoFar, PoolInv, SlotsInv, NoStaleAnswer, BatchLen
<1>2. CASE Spawn
  <2>1. TypeOK' /\ BatchLen' = BatchLen
    BY <1>2 DEF Spawn, TypeOK, BatchLen
  <2>2. InOrderSoFar'
    BY <1>2 DEF Spawn, InOrderSoFar, TypeOK
  <2>3. PoolInv' /\ SlotsInv'
    BY <1>0, <1>2, <2>1 DEF Spawn, PoolInv, SlotsInv, NoStaleAnswer, TypeOK
  <2> QED
    BY <2>1, <2>2, <2>3
<1>3. CASE EmitLine
  <2>1. BatchLen' = BatchLen
    BY <1>3 DEF EmitLine, BatchLen
  <2>2. TypeOK'
    <3>1. cursor < BatchLen /\ cursor \in Nat /\ Chunk \in Nat /\ BatchLen \in 1..Chunk
      BY <1>0, <1>3, ChunkAssumption DEF EmitLine, TypeOK
    <3>2. cursor + 1 \in 1..Chunk
      BY <3>1
    <3>3. buf[cursor + 1] \in 0..N
      BY <3>2 DEF TypeOK
    <3>4. Append(out, buf[cursor + 1]) \in Seq(0..N)
      BY <3>3 DEF TypeOK
    <3>5. cursor' \in 0..Chunk /\ out' \in Seq(0..N)
      <4>1. CASE UNCHANGED <<out, cursor>>
        BY <4>1 DEF TypeOK
      <4>2. CASE out' = Append(out, buf[cursor + 1]) /\ cursor' = cursor + 1
        BY <3>1, <3>2, <3>4, <4>2
      <4> QED
        BY <1>3, <4>1, <4>2 DEF EmitLine
    <3>6. main' \in {"emit", "error"} /\ gone' \in BOOLEAN
      BY <1>3 DEF EmitLine, TypeOK
    <3> QED
      BY <1>3, <3>5, <3>6 DEF EmitLine, TypeOK
  <2>3. InOrderSoFar'
    <3>1. CASE main' = "error" /\ UNCHANGED <<out, cursor>>
      BY <1>3, <3>1 DEF EmitLine, InOrderSoFar
    <3>2. CASE out' = Append(out, buf[cursor + 1]) /\ cursor' = cursor + 1 /\ main' = main
      <4>1. buf[cursor + 1] = Len(out) + 1 /\ Len(out) = start + cursor /\ cursor + 1 <= BatchLen
        <5>1. cursor < BatchLen /\ cursor \in Nat /\ BatchLen \in Nat /\ start \in Nat
          BY <1>0, <1>3, ChunkAssumption, BatchAssumption DEF EmitLine, TypeOK
        <5>2. cursor + 1 \in 1..BatchLen
          BY <5>1
        <5>3. buf[cursor + 1] = start + (cursor + 1) /\ Len(out) = start + cursor
          BY <1>3, <5>2 DEF EmitLine, InOrderSoFar, SlotsInv, NoStaleAnswer
        <5> QED
          BY <5>1, <5>2, <5>3
      <4>2. Len(out') = Len(out) + 1 /\ \A i \in 1..Len(out') : out'[i] = i
        BY <3>2, <4>1 DEF InOrderSoFar, TypeOK
      <4> QED
        BY <1>0, <1>3, <2>1, <3>2, <4>1, <4>2, BatchAssumption DEF EmitLine, InOrderSoFar, TypeOK
    <3> QED
      BY <1>3, <3>1, <3>2 DEF EmitLine
  <2>4. PoolInv' /\ SlotsInv'
    BY <1>3, <2>1 DEF EmitLine, PoolInv, SlotsInv, NoStaleAnswer
  <2> QED
    BY <2>2, <2>3, <2>4
<1>4. CASE EmitEnd
  <2>1. TypeOK'
    BY <1>4, ChunkAssumption, BatchAssumption DEF EmitEnd, TypeOK
  <2>2. InOrderSoFar'
    BY <1>0, <1>4 DEF EmitEnd, InOrderSoFar, TypeOK
  <2>3. PoolInv' /\ SlotsInv'
    BY <1>4 DEF EmitEnd, PoolInv, SlotsInv, NoStaleAnswer
  <2> QED
    BY <2>1, <2>2, <2>3
<1>5. CASE Finish \/ ErrorLine
  BY <1>5 DEF Finish, ErrorLine, TypeOK, InOrderSoFar, PoolInv, SlotsInv, NoStaleAnswer, BatchLen
<1> QED
  BY <1>1, <1>2, <1>3, <1>4, <1>5

LEMMA JoinStep ==
  ASSUME IInv, Join
  PROVE  IInv'
<1> USE DEF IInv, request, poolVars
<1>0. /\ BatchLen \in 1..Chunk /\ start + BatchLen <= N
      /\ start + Chunk < N => BatchLen = Chunk
      /\ start + Chunk >= N => start + BatchLen = N
  BY BatchLenBounds DEF TypeOK
<1>1. \A i \in 1..BatchLen : buf[i] = start + i
  BY JoinedIsAnswered
<1>2. tally' \in [Verdicts -> Nat]
  BY <1>0, TallyType DEF Join, TypeOK
<1>3. \A w \in Workers : wpc'[w] = "done"
  BY DEF Join, AllDone
<1>4. PoolInv'
  BY <1>3 DEF Join, PoolInv
<1>5. CASE stream /\ main' = "emit" /\ cursor' = 0 /\ UNCHANGED <<start, out>>
  <2>1. BatchLen' = BatchLen
    BY <1>5 DEF BatchLen
  <2>2. TypeOK'
    BY <1>2, <1>5, ChunkAssumption DEF Join, TypeOK
  <2>3. InOrderSoFar' /\ SlotsInv'
    BY <1>0, <1>1, <1>5, <2>1 DEF Join, InOrderSoFar, SlotsInv, NoStaleAnswer, TypeOK
  <2> QED
    BY <1>4, <2>2, <2>3
<1>6. CASE ~stream
  <2> DEFINE b == SubSeq(buf, 1, BatchLen)
  <2>1. out' = out \o b /\ UNCHANGED cursor
    BY <1>6 DEF Join
  <2>2. b \in Seq(0..N) /\ Len(b) = BatchLen /\ \A i \in 1..BatchLen : b[i] = start + i
    <3>1. BatchLen \in Nat /\ \A i \in 1..BatchLen : i \in 1..Chunk /\ buf[i] \in 0..N
      BY <1>0, ChunkAssumption DEF TypeOK
    <3>2. b = [i \in 1..BatchLen |-> buf[i]]
      BY <3>1
    <3>3. b \in [1..BatchLen -> 0..N]
      BY <3>1, <3>2
    <3>4. b \in Seq(0..N) /\ Len(b) = BatchLen
      BY <3>1, <3>2, <3>3, SeqOfFunction
    <3> QED
      BY <1>1, <3>2, <3>4
  <2> HIDE DEF b
  <2>3. out' \in Seq(0..N) /\ Len(out') = start + BatchLen /\ \A i \in 1..Len(out') : out'[i] = i
    <3>1. out \in Seq(0..N) /\ Len(out) = start /\ \A i \in 1..start : out[i] = i
      BY DEF InOrderSoFar, TypeOK, Join
    <3>2. start \in Nat /\ BatchLen \in Nat
      BY <1>0, ChunkAssumption DEF TypeOK
    <3>3. out \o b \in Seq(0..N) /\ Len(out \o b) = start + BatchLen
      BY <2>2, <3>1
    <3>4. \A i \in 1..(start + BatchLen) :
            (out \o b)[i] = IF i <= start THEN out[i] ELSE b[i - start]
      BY <2>2, <3>1, ConcatProperties, Zenon
    <3>5. ASSUME NEW i \in 1..(start + BatchLen) PROVE (out \o b)[i] = i
      <4>0. i \in Nat /\ i <= start + BatchLen
        BY <3>2
      <4>1. CASE i <= start
        <5>1. i \in 1..start /\ (out \o b)[i] = out[i]
          BY <3>1, <3>2, <3>4, <4>1
        <5> QED
          BY <3>1, <5>1
      <4>2. CASE i > start
        <5>1. i - start \in 1..BatchLen /\ b[i - start] = start + (i - start)
          BY <2>2, <3>2, <4>2
        <5>2. ~(i <= start)
          BY <3>2, <4>0, <4>2
        <5>3. (out \o b)[i] = b[i - start]
          BY <3>4, <5>2
        <5>4. start + (i - start) = i
          BY <3>2, <4>0
        <5> QED
          BY <5>1, <5>3, <5>4, Zenon
      <4>3. i <= start \/ i > start
        BY <3>2, <4>0
      <4> QED
        BY <4>1, <4>2, <4>3, Zenon
    <3> QED
      BY <2>1, <3>3, <3>5
  <2>4. TypeOK'
    <3>1. start' \in 0..(N - 1) /\ main' \in {"spawn", "finish"}
      BY <1>6, ChunkAssumption, BatchAssumption DEF Join, TypeOK
    <3> QED
      BY <1>2, <2>1, <2>3, <3>1 DEF Join, TypeOK
  <2>5. InOrderSoFar' /\ SlotsInv'
    BY <1>0, <1>6, <2>3 DEF Join, InOrderSoFar, SlotsInv, NoStaleAnswer, TypeOK
  <2> QED
    BY <1>4, <2>4, <2>5
<1> QED
  BY <1>5, <1>6 DEF Join

(* The invariant is inductive.                                              *)
THEOREM Inductive == Spec => []IInv
<1>1. IInv /\ [Next]_vars => IInv'
  <2>1. ASSUME IInv, UNCHANGED vars PROVE IInv'
    BY <2>1 DEF IInv, vars, request, poolVars, outVars, TypeOK, InOrderSoFar, PoolInv, SlotsInv,
                NoStaleAnswer, BatchLen
  <2> QED
    BY <2>1, WorkerStep, HandlerStep, JoinStep DEF Next
<1> QED
  BY <1>1, InitIInv, PTL DEF Spec

(* Type correctness, and what makes the shared buffer safe without a lock.  *)
THEOREM BufferIsCoherent == Spec => []BufferCoherent
<1>1. IInv => BufferCoherent
  BY DEF IInv, PoolInv, SlotsInv, SlotsAreOwned, BufferCoherent
<1> QED
  BY <1>1, Inductive, PTL

-----------------------------------------------------------------------------
(* The report's own form of a sequence of answers in order.                 *)
LEMMA InOrderForm ==
  ASSUME NEW o \in Seq(0..N), Len(o) <= N, \A i \in 1..Len(o) : o[i] = i
  PROVE  Len(o) \in 0..N /\ o = Report!InOrder(Len(o))
<1>1. Len(o) \in 0..N
  BY BatchAssumption
<1>2. o = [i \in 1..Len(o) |-> o[i]]
  OBVIOUS
<1> QED
  BY <1>1, <1>2 DEF Report!InOrder

(* A step that only lengthens the answers is a delivery, or a stutter.      *)
LEMMA Delivers ==
  ASSUME IInv, IInv', main # "over", main' # "over", Len(out) <= Len(out')
  PROVE  [Report!Next]_<<out, Status>>
<1>1. Status = "running" /\ Status' = "running"
  BY DEF Status
<1>2. Len(out) \in 0..N /\ out = Report!InOrder(Len(out))
  BY InOrderForm DEF IInv, TypeOK, InOrderSoFar
<1>3. Len(out') \in 0..N /\ out' = Report!InOrder(Len(out'))
  BY InOrderForm DEF IInv, TypeOK, InOrderSoFar
<1>4. CASE Len(out) = Len(out')
  BY <1>1, <1>2, <1>3, <1>4
<1>5. CASE Len(out) < Len(out')
  BY <1>1, <1>2, <1>3, <1>5 DEF Report!Next, Report!Deliver
<1>6. Len(out) = Len(out') \/ Len(out) < Len(out')
  BY <1>2, <1>3
<1> QED
  BY <1>4, <1>5, <1>6

LEMMA EveryStepReports ==
  ASSUME IInv, IInv', [Next]_vars
  PROVE  [Report!Next]_<<out, Status>>
<1> USE DEF outVars
<1>1. CASE main' # "over" /\ main # "over" /\ UNCHANGED out
  BY <1>1, Delivers DEF IInv, TypeOK
<1>2. CASE EmitLine
  <2>1. Len(out) <= Len(out')
    BY <1>2 DEF EmitLine, IInv, TypeOK
  <2> QED
    BY <1>2, <2>1, Delivers DEF EmitLine
<1>3. CASE Join
  <2>1. Len(out) <= Len(out')
    <3>1. Len(out) = start /\ start \in Nat /\ start < N /\ N \in Nat /\ Chunk \in Nat
      BY <1>3, BatchAssumption, ChunkAssumption DEF Join, IInv, InOrderSoFar, TypeOK
    <3>2. \/ out' = out
          \/ main' = "spawn" /\ Len(out') = start' /\ start' = start + Chunk
          \/ main' = "finish" /\ Len(out') = N
      BY <1>3 DEF Join, IInv, InOrderSoFar
    <3> QED
      BY <3>1, <3>2
  <2> QED
    BY <1>3, <2>1, Delivers DEF Join
<1>4. CASE Finish
  <2>1. out = Report!InOrder(N) /\ Status = "running"
    BY <1>4, InOrderForm DEF Finish, Status, IInv, TypeOK, InOrderSoFar
  <2> QED
    BY <1>4, <2>1 DEF Finish, Status, Report!Next, Report!Complete, Report!Fail
<1>5. CASE main # "over" /\ main' = "over" /\ ending' # "summary" /\ UNCHANGED out
  BY <1>5 DEF Status, Report!Next, Report!Fail
<1>6. CASE UNCHANGED <<main, ending, out>>
  BY <1>6 DEF Status
<1> QED
  BY <1>1, <1>2, <1>3, <1>4, <1>5, <1>6
     DEF Next, vars, Begin, Spawn, Claim, Answer, EmitEnd, ErrorLine

(* /drift keeps the promise of DriftReport.                                 *)
THEOREM KeepsThePromise == Spec => ReportSpec
<1>1. Init => Report!Init
  <2> SUFFICES ASSUME Init PROVE out = Report!InOrder(0) /\ Status = "running"
    BY DEF Report!Init
  <2>1. << >> = [i \in 1..0 |-> i]
    OBVIOUS
  <2> QED
    BY <2>1 DEF Init, Status, Report!InOrder
<1>2. IInv /\ IInv' /\ [Next]_vars => [Report!Next]_<<out, Status>>
  BY EveryStepReports
<1> QED
  BY <1>1, <1>2, Inductive, PTL DEF Spec, ReportSpec, Report!Spec

(* What the summary counts so far: the batches that have been joined. Of    *)
(* these it counts the answers that were, or will be, written.              *)
Judged(n, v) == {i \in 1..n : Verdict(kind[i]) = v}

CountsUpTo(n) == \A v \in Verdicts : tally[v] = Cardinality(Judged(n, v))

TallyInv ==
  /\ main \in {"begin", "spawn", "join"} => CountsUpTo(start)
  /\ main = "emit" => CountsUpTo(start + BatchLen)
  /\ main = "finish" \/ ending = "summary" => CountsUpTo(N)

(* A batch's verdicts are counted on the buffer as in the request.          *)
LEMMA OneMoreBatch ==
  ASSUME NEW n \in Nat, NEW m \in Nat, NEW b, \A i \in 1..m : b[i] = n + i, NEW v
  PROVE  /\ Cardinality(Judged(n, v)) \in Nat
         /\ Cardinality(Judged(n + m, v))
              = Cardinality(Judged(n, v)) + Cardinality({i \in 1..m : VerdictOf(b[i]) = v})
<1> DEFINE A == Judged(n, v)
           B == {i \in 1..m : VerdictOf(b[i]) = v}
           C == {j \in (n + 1)..(n + m) : Verdict(kind[j]) = v}
           f == [i \in B |-> n + i]
<1>1. IsFiniteSet(A) /\ IsFiniteSet(B)
  <2>1. IsFiniteSet(1..n) /\ IsFiniteSet(1..m)
    BY FS_Interval
  <2>2. A \subseteq 1..n /\ B \subseteq 1..m
    BY DEF Judged
  <2> HIDE DEF A, B
  <2> QED
    BY <2>1, <2>2, FS_Subset
<1>2. \A i \in 1..m : VerdictOf(b[i]) = Verdict(kind[n + i])
  <2>1. \A i \in 1..m : b[i] = n + i /\ n + i # 0
    OBVIOUS
  <2> QED
    BY <2>1 DEF VerdictOf
<1>3. f \in Bijection(B, C)
  <2>1. ASSUME NEW i \in B PROVE n + i \in C
    <3>1. n + i \in (n + 1)..(n + m)
      OBVIOUS
    <3> QED
      BY <1>2, <3>1
  <2>2. \A j \in C : j - n \in B /\ n + (j - n) = j
    <3>1. \A j \in C : j - n \in 1..m /\ n + (j - n) = j
      OBVIOUS
    <3> QED
      BY <1>2, <3>1
  <2>3. \A i, k \in B : n + i = n + k => i = k
    OBVIOUS
  <2> HIDE DEF B, C
  <2>4. f \in [B -> C] /\ \A i \in B : f[i] = n + i
    BY <2>1
  <2>5. f \in Injection(B, C)
    BY <2>3, <2>4 DEF Injection, IsInjective
  <2>6. f \in Surjection(B, C)
    BY <2>2, <2>4 DEF Surjection
  <2> QED
    BY <2>5, <2>6 DEF Bijection
<1>4. Judged(n + m, v) = A \cup C /\ A \cap C = {}
  <2>1. \A i : i \in 1..(n + m) <=> i \in 1..n \/ i \in (n + 1)..(n + m)
    OBVIOUS
  <2>2. \A i : ~ (i \in 1..n /\ i \in (n + 1)..(n + m))
    OBVIOUS
  <2> QED
    BY <2>1, <2>2 DEF Judged
<1> HIDE DEF A, B, C, f
<1>5. IsFiniteSet(C) /\ Cardinality(C) = Cardinality(B)
  BY <1>1, <1>3, FS_Bijection DEF ExistsBijection
<1>6. Cardinality({}) = 0
  BY FS_EmptySet
<1>7. Cardinality(A) \in Nat /\ Cardinality(C) \in Nat
  BY <1>1, <1>5, FS_CardinalityType
<1>8. Cardinality(A \cup C) = Cardinality(A) + Cardinality(C)
  <2>1. Cardinality(A \cup C) = Cardinality(A) + Cardinality(C) - Cardinality(A \cap C)
    BY <1>1, <1>5, FS_Union
  <2>2. Cardinality(A \cap C) = 0
    BY <1>4, <1>6
  <2> QED
    BY <1>7, <2>1, <2>2
<1> QED
  BY <1>4, <1>5, <1>7, <1>8 DEF A, B

LEMMA TallyInvStep ==
  ASSUME IInv, IInv', TallyInv, [Next]_vars
  PROVE  TallyInv'
<1> USE DEF request, outVars
<1>1. CASE Join
  <2>1. \A i \in 1..BatchLen : buf[i] = start + i
    BY <1>1, JoinedIsAnswered
  <2>2. /\ start \in Nat /\ BatchLen \in Nat
        /\ start + Chunk < N => BatchLen = Chunk
        /\ start + Chunk >= N => start + BatchLen = N
    BY <1>1, BatchLenBounds, ChunkAssumption DEF Join, IInv, TypeOK, BatchLen
  <2>3. /\ main = "join" /\ kind' = kind /\ ending' = ending /\ ending = "none"
        /\ tally' = Tallied(tally, buf, BatchLen)
    BY <1>1 DEF Join, IInv, InOrderSoFar
  <2>4. start \in Nat /\ BatchLen \in Nat
    BY <1>1, BatchLenBounds, ChunkAssumption DEF IInv, TypeOK
  <2>5. ASSUME NEW v \in Verdicts PROVE tally'[v] = Cardinality(Judged(start + BatchLen, v))
    <3>1. tally'[v] = tally[v] + Cardinality({i \in 1..BatchLen : VerdictOf(buf[i]) = v})
      BY <2>3 DEF Tallied
    <3>2. tally[v] = Cardinality(Judged(start, v))
      BY <2>3 DEF TallyInv, CountsUpTo
    <3>3. Cardinality(Judged(start + BatchLen, v))
            = Cardinality(Judged(start, v)) + Cardinality({i \in 1..BatchLen : VerdictOf(buf[i]) = v})
      BY <2>1, <2>4, OneMoreBatch
    <3> QED
      BY <3>1, <3>2, <3>3
  <2>6. \/ main' = "emit" /\ start' = start /\ BatchLen' = BatchLen
        \/ main' = "spawn" /\ start' = start + BatchLen
        \/ main' = "finish" /\ N = start + BatchLen
    BY <1>1, <2>2 DEF Join, BatchLen
  <2>7. \A n, v : Judged(n, v)' = Judged(n, v)
    BY <2>3 DEF Judged, Verdict
  <2>8. \A n : n = start + BatchLen => \A v \in Verdicts : tally'[v] = Cardinality(Judged(n, v)')
    BY <2>5, <2>7
  <2> QED
    BY <2>3, <2>6, <2>8 DEF TallyInv, CountsUpTo
<1>2. CASE EmitEnd
  <2>1. /\ start \in Nat /\ BatchLen \in Nat
        /\ start + Chunk < N => BatchLen = Chunk
        /\ start + Chunk >= N => start + BatchLen = N
    BY <1>2, BatchLenBounds, ChunkAssumption DEF IInv, TypeOK
  <2>2. /\ main = "emit" /\ kind' = kind /\ ending' = ending /\ ending = "none" /\ tally' = tally
        /\ \/ main' = "spawn" /\ start' = start + BatchLen
           \/ main' = "finish" /\ N = start + BatchLen
    BY <1>2, <2>1 DEF EmitEnd, IInv, InOrderSoFar
  <2>3. \A v \in Verdicts : tally'[v] = Cardinality(Judged(start + BatchLen, v))
    BY <2>2 DEF TallyInv, CountsUpTo
  <2>4. \A n, v : Judged(n, v)' = Judged(n, v)
    BY <2>2 DEF Judged, Verdict
  <2> QED
    BY <2>2, <2>3, <2>4 DEF TallyInv, CountsUpTo
<1>3. ASSUME UNCHANGED <<kind, start, tally>>,
             \/ main' \in {"begin", "spawn", "join"} /\ main \in {"begin", "spawn", "join"} /\ ending' = ending
             \/ main' = main /\ ending' = ending
             \/ main' \in {"error", "over"} /\ ending' # "summary"
             \/ main = "finish" /\ main' = "over"
      PROVE  TallyInv'
  <2>1. \A n, v : Judged(n, v)' = Judged(n, v)
    BY <1>3 DEF Judged, Verdict
  <2>2. BatchLen' = BatchLen
    BY <1>3 DEF BatchLen
  <2>3. \A n : CountsUpTo(n) => \A v \in Verdicts : tally'[v] = Cardinality(Judged(n, v)')
    BY <1>3, <2>1 DEF CountsUpTo
  <2> QED
    BY <1>3, <2>2, <2>3 DEF TallyInv, CountsUpTo
<1>4. CASE Begin \/ Spawn \/ EmitLine \/ Finish \/ ErrorLine \/ UNCHANGED vars
           \/ \E w \in Workers : Claim(w) \/ Answer(w)
  <2>1. main # "over" => ending = "none"
    BY DEF IInv, InOrderSoFar
  <2> QED
    BY <1>3, <1>4, <2>1 DEF Begin, Spawn, EmitLine, Finish, ErrorLine, vars, Claim, Answer
<1> QED
  BY <1>1, <1>2, <1>4 DEF Next

(* SummaryIsOfReport: each batch is counted once, all of it, before its     *)
(* lines are written, and a summary is only sent when all have been.        *)
THEOREM SummaryOfTheReport == Spec => []SummaryIsOfReport
<1>1. Init => TallyInv
  <2> SUFFICES ASSUME Init, NEW v \in Verdicts PROVE tally[v] = Cardinality(Judged(0, v))
    BY DEF Init, TallyInv, CountsUpTo
  <2>1. Judged(0, v) = {}
    BY DEF Judged
  <2> QED
    BY <2>1, FS_EmptySet DEF Init
<1>2. IInv /\ IInv' /\ TallyInv /\ [Next]_vars => TallyInv'
  BY TallyInvStep
<1>3. IInv /\ TallyInv => SummaryIsOfReport
  <2> SUFFICES ASSUME IInv, TallyInv, ending = "summary"
               PROVE  /\ Len(out) = N
                      /\ \A v \in Verdicts :
                           tally[v] = Cardinality({i \in 1..Len(out) : VerdictOf(out[i]) = v})
    BY DEF SummaryIsOfReport
  <2>1. Len(out) = N /\ \A i \in 1..N : out[i] = i /\ i # 0
    BY DEF IInv, InOrderSoFar
  <2>2. \A v : {i \in 1..Len(out) : VerdictOf(out[i]) = v} = Judged(N, v)
    BY <2>1 DEF Judged, VerdictOf
  <2> QED
    BY <2>1, <2>2 DEF TallyInv, CountsUpTo
<1> QED
  BY <1>1, <1>2, <1>3, Inductive, PTL DEF Spec

-----------------------------------------------------------------------------
(* Discover. *)

\* SubSequence is a sequence of elements of s.
LEMMA SubSequenceType ==
    ASSUME NEW S, NEW s \in Seq(S), NEW P \in SUBSET DOMAIN s
    PROVE  SubSequence(s, P) \in Seq(S)
BY SubSequenceIs DEF Selection


LEMMA DivMonotone ==
    ASSUME NEW a \in Nat, NEW b \in Nat, a <= b, NEW d \in Nat \ {0}
    PROVE  a \div d \in Nat /\ a \div d <= b \div d
OBVIOUS

LEMMA DivBound ==
    ASSUME NEW n \in Nat, NEW d \in Nat \ {0}, NEW i \in 1 .. n * d
    PROVE  ((i - 1) \div d) + 1 \in 1 .. n
OBVIOUS

LEMMA ModBound ==
    ASSUME NEW a \in Nat, NEW d \in Nat \ {0}
    PROVE  (a % d) + 1 \in 1 .. d
OBVIOUS

LEMMA ThinPlace ==
    ASSUME NEW d \in Nat \ {0}, NEW l \in Nat, l > d, NEW k \in 1 .. d
    PROVE  ((k - 1) * l) \div d + 1 \in 1 .. l
<1>1. (k - 1) * l \in Nat /\ (k - 1) * l <= (d - 1) * l
  OBVIOUS
<1>2. (d - 1) * l + 1 <= l * d
  OBVIOUS
<1>3. (k - 1) * l + 1 \in 1 .. l * d
  BY <1>1, <1>2
<1>4. (((k - 1) * l + 1 - 1) \div d) + 1 \in 1 .. l
  BY <1>3, DivBound
<1>. QED
  BY <1>1, <1>4

LEMMA StandsType ==
    ASSUME NEW r \in Requests
    PROVE  StandsIn(r) \in Seq(Spots)
<1> DEFINE P == {i \in DOMAIN r.spots :
                   /\ ~r.spots[i].walled
                   /\ \E feet \in FeetAt(r.spots[i].columns, r.low, r.high, r.snap) :
                          Headroom(Head(r.spots[i].columns), feet)}
           found == SubSequence(r.spots, P)
           L == Len(found)
           thin == [k \in 1 .. MaxStands |-> found[((k - 1) * L) \div MaxStands + 1]]
<1>1. found \in Seq(Spots)
  BY RequestsAssumption, SubSequenceType
<1>2. CASE L > MaxStands
  <2>. HIDE DEF found
  <2>1. L \in Nat /\ MaxStands \in Nat \ {0} /\ \A i \in 1 .. L : found[i] \in Spots
    BY <1>1, StandsAssumption
  <2>. HIDE DEF L
  <2>2. \A k \in 1 .. MaxStands : ((k - 1) * L) \div MaxStands + 1 \in 1 .. L
    BY <1>2, <2>1, ThinPlace
  <2>3. \A k \in 1 .. MaxStands : thin[k] \in Spots
    BY <2>1, <2>2
  <2>4. StandsIn(r) = thin
    BY <1>2 DEF StandsIn, found, L
  <2>. QED
    BY <2>1, <2>3, <2>4
<1>3. CASE ~(L > MaxStands)
  <2>1. StandsIn(r) = found
    BY <1>3 DEF StandsIn
  <2>. QED
    BY <1>1, <2>1
<1>. QED
  BY <1>2, <1>3

\* NearestFirst puts no spot before a nearer one.
Nearing(places, target) ==
    \A k, l \in DOMAIN places :
      k <= l => Distance(places[k].at, target) <= Distance(places[l].at, target)

LEMMA NearestFirstIs ==
    ASSUME NEW r \in Requests
    PROVE  LET s == StandsIn(r)
               R == {x \in (DOMAIN s) \X (DOMAIN s) : Before(s, r.target, x[1], x[2])}
           IN  /\ s \in Seq(Spots) /\ TotalOrder(DOMAIN s, R)
               /\ \A i \in DOMAIN s : Distance(s[i].at, r.target) \in Int
               /\ Arrangement(Spots, NearestFirst(r), s, R, Place(DOMAIN s, R))
<1> DEFINE s == StandsIn(r)
           D == DOMAIN s
           R == {x \in D \X D : Before(s, r.target, x[1], x[2])}
           dist(i) == Distance(s[i].at, r.target)
           sorted == Ordered(s, R)
<1>1. s \in Seq(Spots)
  BY StandsType
<1>2. \A i \in D : s[i] \in Spots /\ dist(i) \in Int
  <2>1. r.target \in Int
    BY RequestsAssumption
  <2>. HIDE DEF s
  <2>2. \A i \in D : s[i] \in Spots
    BY <1>1
  <2>3. \A i \in D : s[i].at \in Int
    BY <2>2 DEF Spots
  <2>. QED
    BY <2>1, <2>2, <2>3 DEF Distance
<1>3. \A i, j \in D : <<i, j>> \in R <=> dist(i) < dist(j) \/ (dist(i) = dist(j) /\ i < j)
  BY DEF Before
<1>4. NearestFirst(r) = sorted
  BY DEF NearestFirst
<1>. HIDE DEF s, R, dist, sorted
<1>5. Len(s) \in Nat /\ D = 1 .. Len(s)
  BY <1>1
<1>6. TotalOrder(D, R)
  <2>. HIDE DEF D
  <2>. QED
    BY <1>2, <1>3, <1>5 DEF TotalOrder
<1>7. Arrangement(Spots, sorted, s, R, Place(D, R))
  BY <1>1, <1>6, OrderedIs DEF sorted
<1>. QED
  BY <1>1, <1>2, <1>4, <1>6, <1>7 DEF s, R, dist

LEMMA NearestFirstSorts ==
    ASSUME NEW r \in Requests
    PROVE  NearestFirst(r) \in Seq(Spots) /\ Nearing(NearestFirst(r), r.target)
<1> DEFINE s == StandsIn(r)
           D == DOMAIN s
           R == {x \in D \X D : Before(s, r.target, x[1], x[2])}
           dist(i) == Distance(s[i].at, r.target)
           sorted == NearestFirst(r)
           at == Place(D, R)
<1>1. /\ s \in Seq(Spots) /\ \A i \in D : dist(i) \in Int
      /\ Arrangement(Spots, sorted, s, R, at)
  BY NearestFirstIs
<1>2. \A i, j \in D : <<i, j>> \in R <=> dist(i) < dist(j) \/ (dist(i) = dist(j) /\ i < j)
  BY DEF Before
<1>. HIDE DEF s, R, dist, sorted, at
<1>3. Len(s) \in Nat /\ D = 1 .. Len(s)
  BY <1>1
<1>4. /\ sorted \in Seq(Spots) /\ Len(sorted) = Len(s)
      /\ at \in [1 .. Len(s) -> 1 .. Len(s)]
      /\ \A k \in 1 .. Len(s) : sorted[k] = s[at[k]]
      /\ \A k, l \in 1 .. Len(s) : k < l => <<at[k], at[l]>> \in R
  BY <1>1 DEF Arrangement
<1>5. ASSUME NEW k \in 1 .. Len(s), NEW l \in 1 .. Len(s), k <= l
      PROVE  dist(at[k]) <= dist(at[l])
  <2>1. CASE k = l
    <3>1. at[k] \in D
      BY <1>3, <1>4
    <3>. QED
      BY <1>1, <2>1, <3>1
  <2>2. CASE k < l
    <3>1. at[k] \in D /\ at[l] \in D /\ <<at[k], at[l]>> \in R
      BY <1>3, <1>4, <2>2
    <3>2. \/ dist(at[k]) < dist(at[l])
          \/ dist(at[k]) = dist(at[l]) /\ at[k] < at[l]
      BY <1>2, <3>1
    <3>. QED
      BY <1>1, <3>1, <3>2
  <2>. QED
    BY <1>3, <1>5, <2>1, <2>2
<1>6. DOMAIN sorted = 1 .. Len(s)
  BY <1>3, <1>4
<1>7. Nearing(sorted, r.target)
  BY <1>4, <1>5, <1>6 DEF Nearing, dist
<1>. QED
  BY <1>4, <1>7 DEF sorted

LEMMA OnceType ==
    ASSUME NEW r \in Requests
    PROVE  Once(r.asked) \in Seq(ThrowKinds)
BY RequestsAssumption, SubSequenceType DEF Once

\* The specs are in the order of their spots.
LEMMA SpecsInOrder ==
    ASSUME NEW places \in Seq(Spots), NEW kinds \in Seq(ThrowKinds), NEW target \in Int,
           Nearing(places, target)
    PROVE  LET s == SpecsOf(places, kinds)
           IN  s \in Seq([at : Int, kind : ThrowKinds]) /\ Nearing(s, target)
<1> DEFINE K == Len(kinds)
           M == Len(places)
           s == SpecsOf(places, kinds)
           spot(i) == ((i - 1) \div K) + 1
           throw(i) == ((i - 1) % K) + 1
<1>1. K \in Nat /\ M \in Nat /\ M * K \in Nat
  OBVIOUS
<1>2. s = [i \in 1 .. M * K |-> [at |-> places[spot(i)].at, kind |-> kinds[throw(i)]]]
  BY DEF SpecsOf
<1>3. ASSUME NEW i \in 1 .. M * K
      PROVE  K # 0 /\ spot(i) \in 1 .. M /\ throw(i) \in 1 .. K
  <2>. HIDE DEF K, M
  <2>1. K # 0 /\ i - 1 \in Nat
    BY <1>1
  <2>. QED
    BY <1>1, <2>1, DivBound, ModBound
<1>4. /\ \A m \in 1 .. M : places[m].at \in Int
      /\ \A k \in 1 .. K : kinds[k] \in ThrowKinds
  <2>1. \A m \in 1 .. M : places[m] \in Spots
    OBVIOUS
  <2>. QED
    BY <2>1 DEF Spots
<1>. HIDE DEF K, M, s, spot, throw
<1>5. s \in Seq([at : Int, kind : ThrowKinds])
  <2>1. \A i \in 1 .. M * K :
           [at |-> places[spot(i)].at, kind |-> kinds[throw(i)]] \in [at : Int, kind : ThrowKinds]
    BY <1>3, <1>4
  <2>. QED
    <3> DEFINE e(i) == [at |-> places[spot(i)].at, kind |-> kinds[throw(i)]]
    <3>1. \A i \in 1 .. M * K : e(i) \in [at : Int, kind : ThrowKinds]
      BY <2>1
    <3>2. s = [i \in 1 .. M * K |-> e(i)]
      BY <1>2
    <3>. HIDE DEF e
    <3>. QED
      BY <1>1, <3>1, <3>2
<1>6. ASSUME NEW i \in 1 .. M * K, NEW j \in 1 .. M * K, i <= j
      PROVE  Distance(s[i].at, target) <= Distance(s[j].at, target)
  <2>1. i - 1 \in Nat /\ j - 1 \in Nat /\ i - 1 <= j - 1 /\ K \in Nat \ {0}
    BY <1>1, <1>3, <1>6
  <2>2. spot(i) <= spot(j)
    BY <2>1, DivMonotone DEF spot
  <2>3. spot(i) \in DOMAIN places /\ spot(j) \in DOMAIN places
    BY <1>3 DEF M
  <2>4. Distance(places[spot(i)].at, target) <= Distance(places[spot(j)].at, target)
    BY <2>2, <2>3 DEF Nearing
  <2>. QED
    BY <1>2, <2>4
<1>7. Nearing(s, target)
  BY <1>2, <1>6 DEF Nearing
<1>. QED
  BY <1>5, <1>7 DEF s

-----------------------------------------------------------------------------
(* What is in hand and what is searched.                                     *)

\* The request is one of those, the specs are a sequence, and a searcher that
\* has refined in time holds all there is to find.
InHand ==
    /\ query \in Requests
    /\ Len(specs) \in Nat /\ DOMAIN specs = 1 .. Len(specs)
    /\ finds = [i \in DOMAIN specs |-> finds[i]]
    /\ handler = "begin" => \A w \in Searchers : seeker[w] = "off"
    /\ \A i \in Searched : i <= fed
    /\ \A w \in Searchers :
         seeker[w] = "mark" /\ ~expired => finds[job[w]] = ThrowsOf(specs[job[w]])

SearchInv == SearchTypeOK /\ InHand /\ JobsAreOwned /\ SearchedIsComplete

LEMMA SearchInvInit == SearchInit => SearchInv
<1>. SUFFICES ASSUME SearchInit PROVE SearchInv
  OBVIOUS
<1>1. specs \in Seq([at : Int, kind : ThrowKinds])
  <2>1. query \in Requests /\ query.target \in Int
    BY RequestsAssumption DEF SearchInit
  <2>2. stands \in Seq(Spots) /\ Nearing(stands, query.target)
    BY <2>1, NearestFirstSorts DEF SearchInit
  <2>. QED
    BY <2>1, <2>2, OnceType, SpecsInOrder DEF SearchInit
<1>2. /\ Len(specs) \in Nat /\ DOMAIN specs = 1 .. Len(specs)
      /\ finds = [i \in DOMAIN specs |-> <<>>]
      /\ searched = [i \in DOMAIN specs |-> FALSE]
      /\ seeker = [w \in Searchers |-> "off"]
      /\ job = [w \in Searchers |-> 0]
      /\ fed = 0 /\ handler = "begin" /\ expired = FALSE /\ query \in Requests
  BY <1>1 DEF SearchInit
<1>3. Searched = {} /\ Working = {}
  BY <1>2 DEF Searched, Working
<1>4. SearchTypeOK
  <2>1. /\ handler \in {"begin", "feed", "join", "refused", "answered"}
        /\ expired \in BOOLEAN
        /\ fed \in 0 .. Len(specs)
        /\ DOMAIN finds = DOMAIN specs
    <3>1. DOMAIN finds = DOMAIN specs
      BY <1>2
    <3>2. 0 \in 0 .. Len(specs)
      BY <1>2
    <3>. QED
      BY <1>2, <3>1, <3>2
  <2>2. seeker \in [Searchers -> {"off", "idle", "sweep", "refine", "mark", "done"}]
    BY <1>2
  <2>3. job \in [Searchers -> 0 .. fed]
    BY <1>2
  <2>4. searched \in [DOMAIN specs -> BOOLEAN]
    BY <1>2
  <2>. QED
    BY <2>1, <2>2, <2>3, <2>4 DEF SearchTypeOK
<1>5. InHand
  BY <1>2, <1>3 DEF InHand
<1>. QED
  BY <1>3, <1>4, <1>5 DEF SearchInv, JobsAreOwned, SearchedIsComplete

LEMMA SearchInvStep == SearchInv /\ [SearchNext]_searchVars => SearchInv'
<1>. SUFFICES ASSUME SearchInv, [SearchNext]_searchVars PROVE SearchInv'
  OBVIOUS
<1>a. /\ handler \in {"begin", "feed", "join", "refused", "answered"}
      /\ expired \in BOOLEAN
      /\ fed \in 0 .. Len(specs)
      /\ seeker \in [Searchers -> {"off", "idle", "sweep", "refine", "mark", "done"}]
      /\ job \in [Searchers -> 0 .. fed]
      /\ DOMAIN finds = DOMAIN specs
      /\ searched \in [DOMAIN specs -> BOOLEAN]
  BY DEF SearchInv, SearchTypeOK
<1>b. /\ query \in Requests
      /\ Len(specs) \in Nat /\ DOMAIN specs = 1 .. Len(specs)
      /\ finds = [i \in DOMAIN specs |-> finds[i]]
      /\ handler = "begin" => \A w \in Searchers : seeker[w] = "off"
      /\ \A i \in Searched : i <= fed
      /\ \A w \in Searchers :
           seeker[w] = "mark" /\ ~expired => finds[job[w]] = ThrowsOf(specs[job[w]])
  BY DEF SearchInv, InHand
<1>c. /\ \A v, w \in Working : job[v] = job[w] => v = w
      /\ \A w \in Working : job[w] \in 1 .. fed /\ ~searched[job[w]]
      /\ \A i \in Searched : finds[i] = ThrowsOf(specs[i])
  BY DEF SearchInv, JobsAreOwned, SearchedIsComplete
<1>d. fed \in Nat /\ fed <= Len(specs)
  BY <1>a, <1>b
<1>e. ASSUME NEW w \in Working
      PROVE  job[w] \in Nat /\ job[w] <= fed /\ job[w] \in DOMAIN specs /\ job[w] \notin Searched
  <2>1. job[w] \in 1 .. fed /\ ~searched[job[w]]
    BY <1>c
  <2>2. job[w] \in Nat /\ job[w] <= fed /\ job[w] \in 1 .. Len(specs)
    BY <1>b, <1>d, <2>1
  <2>. QED
    BY <1>b, <2>1, <2>2 DEF Searched
<1>f. \A w \in Searchers : w \in Working <=> seeker[w] \in {"sweep", "refine", "mark"}
  BY DEF Working
<1>g. ASSUME UNCHANGED <<query, specs>>
      PROVE  \A i : ThrowsOf(specs[i])' = ThrowsOf(specs[i])
  BY <1>g DEF ThrowsOf
<1>1. CASE BeginSearch
  <2>1. /\ UNCHANGED <<query, specs, expired, fed, job, finds, searched>>
        /\ handler = "begin" /\ handler' \in {"refused", "feed"}
        /\ seeker' = seeker \/ seeker' = [w \in Searchers |-> "idle"]
    BY <1>1 DEF BeginSearch
  <2>2. SearchTypeOK'
    BY <1>a, <2>1 DEF SearchTypeOK
  <2>3. Working' = {} /\ Searched' = Searched
    BY <1>b, <2>1 DEF Working, Searched
  <2>4. InHand'
    BY <1>b, <2>1, <2>3 DEF InHand
  <2>5. JobsAreOwned'
    BY <2>3 DEF JobsAreOwned
  <2>6. SearchedIsComplete'
    BY <1>c, <1>g, <2>1, <2>3 DEF SearchedIsComplete
  <2>. QED
    BY <2>2, <2>4, <2>5, <2>6 DEF SearchInv
<1>2. ASSUME NEW w \in Searchers, FeedJob(w)
      PROVE  SearchInv'
  <2>1. /\ UNCHANGED <<query, specs, expired, handler, finds, searched>>
        /\ handler = "feed" /\ seeker[w] = "idle"
        /\ fed < Len(specs) /\ fed' = fed + 1
        /\ job' = [job EXCEPT ![w] = fed + 1]
        /\ seeker' = [seeker EXCEPT ![w] = "sweep"]
    BY <1>2 DEF FeedJob, setup
  <2>2. /\ fed' \in 0 .. Len(specs) /\ fed + 1 \in DOMAIN specs
        /\ fed + 1 \in 1 .. fed' /\ fed + 1 \in 0 .. fed'
        /\ \A n \in 0 .. fed : n \in 0 .. fed'
        /\ \A n \in 1 .. fed : n \in 1 .. fed' /\ n # fed + 1
    BY <1>b, <1>d, <2>1
  <2>3. Searched' = Searched
    BY <2>1 DEF Searched
  <2>4. fed + 1 \notin Searched
    <3>1. ~(fed + 1 <= fed)
      BY <1>d
    <3>. QED
      BY <1>b, <3>1
  <2>5. ~searched[fed + 1]
    BY <2>2, <2>4 DEF Searched
  <2>6. /\ job'[w] = fed + 1 /\ seeker'[w] = "sweep"
        /\ \A v \in Searchers : v # w => job'[v] = job[v] /\ seeker'[v] = seeker[v]
    BY <1>a, <2>1
  <2>7. Working' = Working \cup {w} /\ w \notin Working
    BY <2>1, <2>6 DEF Working
  <2>8. SearchTypeOK'
    <3>1. job' \in [Searchers -> 0 .. fed']
      BY <1>a, <2>1, <2>2
    <3>2. seeker' \in [Searchers -> {"off", "idle", "sweep", "refine", "mark", "done"}]
      BY <1>a, <2>1
    <3>. QED
      BY <1>a, <2>1, <2>2, <3>1, <3>2 DEF SearchTypeOK
  <2>9. InHand'
    <3>1. \A i \in Searched' : i <= fed'
      <4>1. ASSUME NEW i \in Searched PROVE i <= fed + 1
        <5>1. i \in Int /\ i <= fed
          BY <1>b DEF Searched
        <5>. QED
          BY <1>d, <5>1
      <4>. QED
        BY <2>1, <2>3, <4>1
    <3>2. \A v \in Searchers : seeker'[v] = "mark" => seeker[v] = "mark" /\ job'[v] = job[v]
      BY <2>6
    <3>. QED
      BY <1>b, <1>g, <2>1, <3>1, <3>2 DEF InHand
  <2>10. JobsAreOwned'
    <3>1. \A v \in Working : job'[v] = job[v] /\ job[v] \in 1 .. fed
      BY <1>c, <2>6, <2>7 DEF Working
    <3>2. \A v \in Working' : job'[v] \in 1 .. fed' /\ ~searched'[job'[v]]
      BY <1>c, <2>1, <2>2, <2>5, <2>6, <2>7, <3>1
    <3>3. \A u, v \in Working' : job'[u] = job'[v] => u = v
      BY <1>c, <2>2, <2>6, <2>7, <3>1
    <3>. QED
      BY <3>2, <3>3 DEF JobsAreOwned
  <2>11. SearchedIsComplete'
    BY <1>c, <1>g, <2>1, <2>3 DEF SearchedIsComplete
  <2>. QED
    BY <2>8, <2>9, <2>10, <2>11 DEF SearchInv
<1>3. ASSUME UNCHANGED <<query, specs, fed, seeker, job, finds, searched>>,
             handler' \in {"join", "answered", handler},
             expired' \in {TRUE, expired}
      PROVE  SearchInv'
  <2>1. SearchTypeOK'
    BY <1>a, <1>3 DEF SearchTypeOK
  <2>2. Searched' = Searched /\ Working' = Working
    BY <1>3 DEF Searched, Working
  <2>3. InHand'
    <3>1. handler' = "begin" => \A w \in Searchers : seeker'[w] = "off"
      BY <1>b, <1>3
    <3>2. ASSUME NEW w \in Searchers, seeker[w] = "mark", ~expired'
          PROVE  finds[job[w]] = ThrowsOf(specs[job[w]])'
      <4>1. ~expired
        BY <1>3, <3>2
      <4>. QED
        BY <1>b, <1>g, <1>3, <3>2, <4>1
    <3>3. \A i \in Searched' : i <= fed'
      BY <1>b, <1>3, <2>2
    <3>4. finds' = [i \in DOMAIN specs' |-> finds'[i]]
      BY <1>b, <1>3
    <3>. QED
      BY <1>b, <1>g, <1>3, <3>1, <3>2, <3>3, <3>4 DEF InHand
  <2>4. JobsAreOwned' /\ SearchedIsComplete'
    BY <1>c, <1>g, <1>3, <2>2 DEF JobsAreOwned, SearchedIsComplete
  <2>. QED
    BY <2>1, <2>3, <2>4 DEF SearchInv
<1>4. ASSUME NEW w \in Working, UNCHANGED <<query, specs, expired, handler, fed, job, searched>>,
             NEW then \in {"refine", "mark"}, seeker' = [seeker EXCEPT ![w] = then],
             NEW found, finds' = [finds EXCEPT ![job[w]] = found],
             then = "mark" /\ ~expired => found = ThrowsOf(specs[job[w]])
      PROVE  SearchInv'
  <2>1. /\ finds'[job[w]] = found
        /\ \A i \in DOMAIN specs : i # job[w] => finds'[i] = finds[i]
        /\ DOMAIN finds' = DOMAIN specs
        /\ finds' = [i \in DOMAIN specs |-> finds'[i]]
    BY <1>a, <1>b, <1>e, <1>4
  <2>2. w \in Searchers
    BY DEF Working
  <2>3. /\ seeker'[w] = then
        /\ \A v \in Searchers : v # w => seeker'[v] = seeker[v]
    BY <1>a, <1>4, <2>2
  <2>4. Working' = Working /\ Searched' = Searched
    BY <1>4, <2>2, <2>3 DEF Working, Searched
  <2>5. SearchTypeOK'
    <3>1. seeker' \in [Searchers -> {"off", "idle", "sweep", "refine", "mark", "done"}]
      BY <1>a, <1>4, <2>2
    <3>. QED
      BY <1>a, <1>4, <2>1, <3>1 DEF SearchTypeOK
  <2>6. InHand'
    <3>1. ASSUME NEW v \in Searchers, seeker'[v] = "mark", ~expired
          PROVE  finds'[job[v]] = ThrowsOf(specs[job[v]])
      <4>1. CASE v = w
        BY <1>4, <2>1, <2>3, <3>1, <4>1
      <4>2. CASE v # w
        <5>1. seeker[v] = "mark" /\ v \in Working
          BY <2>3, <3>1, <4>2 DEF Working
        <5>2. job[v] \in DOMAIN specs /\ job[v] # job[w]
          BY <1>c, <1>e, <4>2, <5>1
        <5>3. finds[job[v]] = ThrowsOf(specs[job[v]])
          BY <1>b, <3>1, <5>1
        <5>. QED
          BY <2>1, <5>2, <5>3
      <4>. QED
        BY <4>1, <4>2
    <3>2. handler # "begin"
      BY <1>b, <1>f, <2>2
    <3>3. \A i \in Searched' : i <= fed'
      BY <1>b, <1>4, <2>4
    <3>4. \A v \in Searchers :
            seeker'[v] = "mark" /\ ~expired => finds'[job[v]] = ThrowsOf(specs[job[v]])'
      BY <1>g, <1>4, <3>1
    <3>. QED
      BY <1>b, <1>4, <2>1, <3>2, <3>3, <3>4 DEF InHand
  <2>7. JobsAreOwned'
    BY <1>c, <1>4, <2>4 DEF JobsAreOwned
  <2>8. SearchedIsComplete'
    <3>1. \A i \in Searched : i \in DOMAIN specs /\ i # job[w]
      BY <1>e DEF Searched
    <3>. QED
      BY <1>c, <1>g, <1>4, <2>1, <2>4, <3>1 DEF SearchedIsComplete
  <2>. QED
    BY <2>5, <2>6, <2>7, <2>8 DEF SearchInv
<1>5. ASSUME NEW w \in Searchers, Sweep(w)
      PROVE  SearchInv'
  <2>1. /\ w \in Working
        /\ UNCHANGED <<query, specs, expired, handler, fed, job, searched>>
    BY <1>5 DEF Sweep, Working, setup
  <2>2. CASE expired
    BY <1>4, <1>5, <2>1, <2>2 DEF Sweep
  <2>3. CASE ~expired
    <3>1. finds' = finds /\ seeker' = [seeker EXCEPT ![w] = "refine"]
      BY <1>5, <2>3 DEF Sweep
    <3>2. finds' = [finds EXCEPT ![job[w]] = finds[job[w]]]
      BY <1>b, <3>1
    <3>. QED
      BY <1>4, <2>1, <3>1, <3>2
  <2>. QED
    BY <2>2, <2>3
<1>6. ASSUME NEW w \in Searchers, Refine(w)
      PROVE  SearchInv'
  <2>1. /\ w \in Working
        /\ UNCHANGED <<query, specs, expired, handler, fed, job, searched>>
        /\ seeker' = [seeker EXCEPT ![w] = "mark"]
    BY <1>6 DEF Refine, Working, setup
  <2>2. PICK found \in IF expired THEN RoughFinds ELSE {ThrowsOf(specs[job[w]])} :
          finds' = [finds EXCEPT ![job[w]] = found]
    BY <1>6 DEF Refine
  <2>3. ~expired => found = ThrowsOf(specs[job[w]])
    BY <2>2
  <2>. QED
    BY <1>4, <2>1, <2>2, <2>3
<1>7. ASSUME NEW w \in Searchers, Mark(w)
      PROVE  SearchInv'
  <2>1. /\ UNCHANGED <<query, specs, expired, handler, fed, job, finds>>
        /\ seeker[w] = "mark" /\ seeker' = [seeker EXCEPT ![w] = "idle"]
        /\ searched' = [searched EXCEPT ![job[w]] = ~expired]
    BY <1>7 DEF Mark, setup
  <2>2. w \in Working
    BY <2>1 DEF Working
  <2>3. /\ seeker'[w] = "idle"
        /\ \A v \in Searchers : v # w => seeker'[v] = seeker[v]
    BY <1>a, <2>1
  <2>4. Working' = Working \ {w}
    BY <2>2, <2>3 DEF Working
  <2>5. /\ job[w] \in DOMAIN specs
        /\ searched'[job[w]] = ~expired
        /\ \A i \in DOMAIN specs : i # job[w] => searched'[i] = searched[i]
    BY <1>a, <1>e, <2>1, <2>2
  <2>6. \A i \in Searched' : i \in Searched \/ (i = job[w] /\ ~expired)
    BY <2>1, <2>5 DEF Searched
  <2>7. SearchTypeOK'
    <3>1. searched' \in [DOMAIN specs -> BOOLEAN]
      BY <1>a, <2>1, <2>5
    <3>2. seeker' \in [Searchers -> {"off", "idle", "sweep", "refine", "mark", "done"}]
      BY <1>a, <2>1
    <3>. QED
      BY <1>a, <2>1, <3>1, <3>2 DEF SearchTypeOK
  <2>8. InHand'
    <3>1. \A i \in Searched' : i <= fed'
      BY <1>b, <1>e, <2>1, <2>2, <2>6
    <3>2. handler # "begin"
      BY <1>b, <2>1
    <3>3. \A v \in Searchers : seeker'[v] = "mark" => seeker[v] = "mark"
      BY <2>3
    <3>. QED
      BY <1>b, <1>g, <2>1, <3>1, <3>2, <3>3 DEF InHand
  <2>9. JobsAreOwned'
    <3>1. ASSUME NEW v \in Working'
          PROVE  ~searched'[job[v]]
      <4>1. v \in Working /\ v # w
        BY <2>4
      <4>2. job[v] # job[w] /\ job[v] \in DOMAIN specs
        BY <1>c, <1>e, <2>2, <4>1
      <4>. QED
        BY <1>c, <2>5, <4>1, <4>2
    <3>. QED
      BY <1>c, <2>1, <2>4, <3>1 DEF JobsAreOwned
  <2>10. SearchedIsComplete'
    <3>1. ~expired => finds[job[w]] = ThrowsOf(specs[job[w]])
      BY <1>b, <2>1
    <3>2. \A i \in Searched' : finds[i] = ThrowsOf(specs[i])
      BY <1>c, <2>6, <3>1
    <3>. QED
      BY <1>g, <2>1, <3>2 DEF SearchedIsComplete
  <2>. QED
    BY <2>7, <2>8, <2>9, <2>10 DEF SearchInv
<1>8. ASSUME NEW w \in Searchers, Leave(w)
      PROVE  SearchInv'
  <2>1. /\ UNCHANGED <<query, specs, expired, handler, fed, job, finds, searched>>
        /\ handler = "join" /\ seeker[w] = "idle"
        /\ seeker' = [seeker EXCEPT ![w] = "done"]
    BY <1>8 DEF Leave, setup
  <2>2. /\ seeker'[w] = "done"
        /\ \A v \in Searchers : v # w => seeker'[v] = seeker[v]
    BY <1>a, <2>1
  <2>3. Working' = Working /\ Searched' = Searched
    BY <2>1, <2>2 DEF Working, Searched
  <2>4. SearchTypeOK'
    <3>1. seeker' \in [Searchers -> {"off", "idle", "sweep", "refine", "mark", "done"}]
      BY <1>a, <2>1
    <3>. QED
      BY <1>a, <2>1, <3>1 DEF SearchTypeOK
  <2>5. InHand'
    BY <1>b, <1>g, <2>1, <2>2, <2>3 DEF InHand
  <2>6. JobsAreOwned' /\ SearchedIsComplete'
    BY <1>c, <1>g, <2>1, <2>3 DEF JobsAreOwned, SearchedIsComplete
  <2>. QED
    BY <2>4, <2>5, <2>6 DEF SearchInv
<1>9. CASE CloseJobs \/ JoinSearch \/ Expire
  BY <1>3, <1>9 DEF CloseJobs, JoinSearch, Expire, setup
<1>10. CASE UNCHANGED searchVars
  BY <1>3, <1>10 DEF searchVars, setup
<1>. QED
  BY <1>1, <1>2, <1>5, <1>6, <1>7, <1>8, <1>9, <1>10
     DEF SearchNext, SearchStep, SeekerStep

THEOREM SearchInvAlways == SearchSpec => []SearchInv
<1>1. SearchInit => SearchInv
  BY SearchInvInit
<1>2. SearchInv /\ [SearchNext]_searchVars => SearchInv'
  BY SearchInvStep
<1>. QED
  BY <1>1, <1>2, PTL DEF SearchSpec

\* Searched /= DOMAIN specs is what the count shows.
LEMMA SearchedCounts ==
    ASSUME SearchInv
    PROVE  Cardinality(Searched) < Len(specs) <=> Searched # DOMAIN specs
<1>1. Len(specs) \in Nat /\ DOMAIN specs = 1 .. Len(specs)
  BY DEF SearchInv, InHand
<1>2. IsFiniteSet(DOMAIN specs) /\ Cardinality(DOMAIN specs) = Len(specs)
  BY <1>1, OneTo
<1>3. Searched \in SUBSET DOMAIN specs
  BY DEF Searched
<1>4. /\ IsFiniteSet(Searched)
      /\ Cardinality(Searched) <= Cardinality(DOMAIN specs)
      /\ Cardinality(DOMAIN specs) = Cardinality(Searched) => DOMAIN specs = Searched
  BY <1>2, <1>3, FS_Subset
<1>5. Cardinality(Searched) \in Nat
  BY <1>4, FS_CardinalityType
<1>. QED
  BY <1>1, <1>2, <1>4, <1>5

\* Whatever the requests, the pool and the moment the budget ends: no spec is
\* in two hands, what counts as searched was searched to the end, and an answer
\* that is not truncated is the answer of a search without a budget.
THEOREM SearchAccounted == SearchSpec => []SearchIsAccountedFor
<1>1. SearchInv => SearchIsAccountedFor
  <2>. SUFFICES ASSUME SearchInv PROVE SearchIsAccountedFor
    OBVIOUS
  <2>1. SearchTypeOK /\ JobsAreOwned /\ SearchedIsComplete
    BY DEF SearchInv
  <2>2. Response.truncated <=> Searched # DOMAIN specs
    BY SearchedCounts DEF Response
  <2>3. ASSUME ~Response.truncated
        PROVE  finds = [i \in DOMAIN specs |-> ThrowsOf(specs[i])]
    <3>1. Searched = DOMAIN specs
      BY <2>2, <2>3
    <3>2. \A i \in DOMAIN specs : finds[i] = ThrowsOf(specs[i])
      BY <2>1, <3>1 DEF SearchedIsComplete
    <3>3. finds = [i \in DOMAIN specs |-> finds[i]]
      BY DEF SearchInv, InHand
    <3>. QED
      BY <3>2, <3>3
  <2>4. Response.candidates = Rank(All(finds), query.limit)
    BY DEF Response
  <2>5. TruncationIsTold
    BY <2>2, <2>3, <2>4 DEF TruncationIsTold
  <2>. QED
    BY <2>1, <2>5 DEF SearchIsAccountedFor
<1>. QED
  BY <1>1, SearchInvAlways, PTL

-----------------------------------------------------------------------------
(* The nearest first.                                                        *)

\* In time, every spec fed is searched or in hand, and no searcher goes back:
\* one of them holds, or last held, a spec at or after any that was fed.
FedAreInHand ==
    ~expired =>
      \A i \in 1 .. fed :
        /\ i \in Searched \/ \E w \in Working : job[w] = i
        /\ \E w \in Searchers : i <= job[w]

NearestSorts ==
    /\ Nearing(specs, query.target)
    /\ \A i \in DOMAIN specs : Distance(specs[i].at, query.target) \in Int

Farther(j) ==
    {i \in DOMAIN specs \ Searched :
        Distance(specs[i].at, query.target) < Distance(specs[j].at, query.target)}

\* In time, what is nearer than a searched spec and not searched is in the
\* hands of the searchers but one.
LEMMA NearerInHand ==
    SearchInv /\ NearestSorts /\ FedAreInHand /\ ~expired => NearestIsSearchedFirst
<1>. SUFFICES ASSUME SearchInv, NearestSorts, FedAreInHand, ~expired, NEW j \in Searched
              PROVE  Cardinality(Farther(j)) < Cardinality(Searchers)
  BY DEF NearestIsSearchedFirst, Farther
<1>0. /\ Nearing(specs, query.target)
      /\ \A i \in DOMAIN specs : Distance(specs[i].at, query.target) \in Int
  BY DEF NearestSorts
<1>1. /\ Len(specs) \in Nat /\ DOMAIN specs = 1 .. Len(specs)
      /\ j \in DOMAIN specs /\ j \in Nat /\ j <= fed
      /\ fed \in Nat /\ job \in [Searchers -> 0 .. fed]
  <2>1. Len(specs) \in Nat /\ DOMAIN specs = 1 .. Len(specs) /\ j <= fed
    BY DEF SearchInv, InHand
  <2>2. fed \in 0 .. Len(specs) /\ job \in [Searchers -> 0 .. fed]
    BY DEF SearchInv, SearchTypeOK
  <2>3. j \in DOMAIN specs
    BY DEF Searched
  <2>. QED
    BY <2>1, <2>2, <2>3
<1>2. j \in 1 .. fed
  BY <1>1
<1>3. PICK last \in Searchers : j <= job[last]
  BY <1>2 DEF FedAreInHand
<1> DEFINE Others == Searchers \ {last}
           held == [w \in Others |-> job[w]]
           Held == {held[w] : w \in Others}
<1>4. Farther(j) \in SUBSET Held
  <2>1. ASSUME NEW i \in Farther(j)
        PROVE  i \in Held
    <3>1. /\ i \in DOMAIN specs /\ i \notin Searched
          /\ Distance(specs[i].at, query.target) < Distance(specs[j].at, query.target)
      BY DEF Farther
    <3>2. i \in Nat /\ i < j
      <4>1. i \in Nat
        BY <1>1, <3>1
      <4>2. CASE j <= i
        <5>1. Distance(specs[j].at, query.target) <= Distance(specs[i].at, query.target)
          BY <1>0, <1>1, <3>1, <4>2 DEF Nearing
        <5>. QED
          BY <1>0, <1>1, <3>1, <5>1
      <4>. QED
        BY <1>1, <4>1, <4>2
    <3>3. i \in 1 .. fed
      BY <1>1, <3>1, <3>2
    <3>4. PICK w \in Working : job[w] = i
      BY <3>1, <3>3 DEF FedAreInHand
    <3>5. w \in Searchers
      BY DEF Working
    <3>6. w # last
      BY <1>1, <1>3, <3>2, <3>4, <3>5
    <3>. QED
      BY <3>4, <3>5, <3>6
  <2>. QED
    BY <2>1
<1>5. /\ IsFiniteSet(Searchers) /\ IsFiniteSet(Others)
      /\ Cardinality(Others) = Cardinality(Searchers) - 1
  BY SearchersAssumption, FS_RemoveElement
<1>6. held \in Surjection(Others, Held)
  BY DEF Surjection
<1>7. IsFiniteSet(Held) /\ Cardinality(Held) <= Cardinality(Others)
  BY <1>5, <1>6, FS_Surjection
<1>8. IsFiniteSet(Farther(j)) /\ Cardinality(Farther(j)) <= Cardinality(Held)
  BY <1>4, <1>7, FS_Subset
<1>9. /\ Cardinality(Farther(j)) \in Nat /\ Cardinality(Held) \in Nat
      /\ Cardinality(Others) \in Nat /\ Cardinality(Searchers) \in Nat
  BY <1>5, <1>7, <1>8, FS_CardinalityType
<1>. QED
  BY <1>5, <1>7, <1>8, <1>9

LEMMA NearestInit == SearchInit => NearestSorts /\ FedAreInHand /\ NearestIsSearchedFirst
<1>. SUFFICES ASSUME SearchInit PROVE NearestSorts /\ FedAreInHand /\ NearestIsSearchedFirst
  OBVIOUS
<1>1. query \in Requests /\ query.target \in Int
  BY RequestsAssumption DEF SearchInit
<1>2. stands \in Seq(Spots) /\ Nearing(stands, query.target)
  BY <1>1, NearestFirstSorts DEF SearchInit
<1>3. specs \in Seq([at : Int, kind : ThrowKinds]) /\ Nearing(specs, query.target)
  BY <1>1, <1>2, OnceType, SpecsInOrder DEF SearchInit
<1>4. \A i \in DOMAIN specs : Distance(specs[i].at, query.target) \in Int
  <2> DEFINE Aimed == [at : Int, kind : ThrowKinds]
  <2>1. \A i \in DOMAIN specs : specs[i] \in Aimed
    <3>1. specs \in Seq(Aimed)
      BY <1>3
    <3>. HIDE DEF Aimed
    <3>. QED
      BY <3>1
  <2>2. \A i \in DOMAIN specs : specs[i].at \in Int
    BY <2>1
  <2>. QED
    BY <1>1, <2>2 DEF Distance
<1>5. fed = 0 /\ searched = [i \in DOMAIN specs |-> FALSE]
  BY DEF SearchInit
<1>6. Searched = {} /\ 1 .. fed = {}
  BY <1>5 DEF Searched
<1>7. FedAreInHand /\ NearestIsSearchedFirst
  BY <1>6 DEF FedAreInHand, NearestIsSearchedFirst
<1>. QED
  BY <1>3, <1>4, <1>7 DEF NearestSorts

LEMMA FedAreInHandStep ==
    SearchInv /\ FedAreInHand /\ [SearchNext]_searchVars => FedAreInHand'
<1>. SUFFICES ASSUME SearchInv, FedAreInHand, [SearchNext]_searchVars, ~expired'
              PROVE  FedAreInHand'
  BY DEF FedAreInHand
<1>1. /\ fed \in 0 .. Len(specs) /\ fed \in Nat
      /\ seeker \in [Searchers -> {"off", "idle", "sweep", "refine", "mark", "done"}]
      /\ job \in [Searchers -> 0 .. fed]
      /\ searched \in [DOMAIN specs -> BOOLEAN]
      /\ handler = "begin" => \A w \in Searchers : seeker[w] = "off"
  BY DEF SearchInv, SearchTypeOK, InHand
<1>2. ASSUME ~expired, UNCHANGED <<fed, job>>, Working \subseteq Working',
             Searched \subseteq Searched'
      PROVE  FedAreInHand'
  <2>1. \A i \in 1 .. fed : /\ i \in Searched \/ \E w \in Working : job[w] = i
                            /\ \E w \in Searchers : i <= job[w]
    BY <1>2 DEF FedAreInHand
  <2>2. \A i \in 1 .. fed : /\ i \in Searched' \/ \E w \in Working' : job[w] = i
                            /\ \E w \in Searchers : i <= job[w]
    BY <1>2, <2>1
  <2>. QED
    BY <1>2, <2>2 DEF FedAreInHand
<1>3. CASE BeginSearch
  <2>1. ~expired /\ UNCHANGED <<specs, fed, job, searched>> /\ handler = "begin"
    BY <1>3 DEF BeginSearch
  <2>2. Working = {} /\ Searched' = Searched
    BY <1>1, <2>1 DEF Working, Searched
  <2>. QED
    BY <1>2, <2>1, <2>2
<1>4. ASSUME NEW w \in Searchers, FeedJob(w)
      PROVE  FedAreInHand'
  <2>1. /\ UNCHANGED <<specs, expired, searched>> /\ ~expired
        /\ seeker[w] = "idle" /\ fed' = fed + 1
        /\ job' = [job EXCEPT ![w] = fed + 1]
        /\ seeker' = [seeker EXCEPT ![w] = "sweep"]
    BY <1>4 DEF FeedJob, setup
  <2>2. /\ job'[w] = fed + 1 /\ seeker'[w] = "sweep"
        /\ \A v \in Searchers : v # w => job'[v] = job[v] /\ seeker'[v] = seeker[v]
    BY <1>1, <2>1
  <2>3. Searched' = Searched /\ Working' = Working \cup {w} /\ w \notin Working
    BY <2>1, <2>2 DEF Searched, Working
  <2>4. \A i \in 1 .. fed : /\ i \in Searched \/ \E v \in Working : job[v] = i
                            /\ \E v \in Searchers : i <= job[v]
    BY <2>1 DEF FedAreInHand
  <2>5. \A v \in Working : v \in Searchers /\ job'[v] = job[v]
    BY <2>2, <2>3 DEF Working
  <2>6. ASSUME NEW i \in 1 .. fed + 1
        PROVE  /\ i \in Searched' \/ \E v \in Working' : job'[v] = i
               /\ \E v \in Searchers : i <= job'[v]
    <3>1. i <= job'[w]
      BY <1>1, <2>2
    <3>2. CASE i = fed + 1
      BY <2>2, <2>3, <3>1, <3>2
    <3>3. CASE i # fed + 1
      <4>1. i \in 1 .. fed
        BY <1>1, <3>3
      <4>2. i \in Searched \/ \E v \in Working : job[v] = i
        BY <2>4, <4>1
      <4>. QED
        BY <2>3, <2>5, <3>1, <4>2
    <3>. QED
      BY <3>2, <3>3
  <2>. QED
    BY <2>1, <2>6 DEF FedAreInHand
<1>5. ASSUME NEW w \in Searchers, Sweep(w) \/ Refine(w)
      PROVE  FedAreInHand'
  <2>1. /\ UNCHANGED <<specs, expired, fed, job, searched>> /\ ~expired
        /\ \E then \in {"refine", "mark"} : seeker' = [seeker EXCEPT ![w] = then]
    BY <1>5 DEF Sweep, Refine, setup
  <2>2. Working \subseteq Working' /\ Searched' = Searched
    BY <1>1, <2>1 DEF Working, Searched
  <2>. QED
    BY <1>2, <2>1, <2>2
<1>6. ASSUME NEW w \in Searchers, Mark(w)
      PROVE  FedAreInHand'
  <2>1. /\ UNCHANGED <<specs, expired, fed, job>> /\ ~expired
        /\ seeker[w] = "mark" /\ seeker' = [seeker EXCEPT ![w] = "idle"]
        /\ searched' = [searched EXCEPT ![job[w]] = TRUE]
    BY <1>6 DEF Mark, setup
  <2>2. w \in Working /\ \A v \in Working : v # w => v \in Working'
    BY <1>1, <2>1 DEF Working
  <2>3. job[w] \in DOMAIN specs
    <3>1. /\ job[w] \in 1 .. fed /\ Len(specs) \in Nat
          /\ DOMAIN specs = 1 .. Len(specs)
      BY <2>2 DEF SearchInv, JobsAreOwned, InHand
    <3>. QED
      BY <1>1, <3>1
  <2>4. Searched \cup {job[w]} \subseteq Searched'
    BY <1>1, <2>1, <2>3 DEF Searched
  <2>5. \A i \in 1 .. fed : /\ i \in Searched \/ \E v \in Working : job[v] = i
                            /\ \E v \in Searchers : i <= job[v]
    BY <2>1 DEF FedAreInHand
  <2>6. \A i \in 1 .. fed : /\ i \in Searched' \/ \E v \in Working' : job[v] = i
                            /\ \E v \in Searchers : i <= job[v]
    BY <2>2, <2>4, <2>5
  <2>. QED
    BY <2>1, <2>6 DEF FedAreInHand
<1>7. ASSUME NEW w \in Searchers, Leave(w)
      PROVE  FedAreInHand'
  <2>1. /\ UNCHANGED <<specs, expired, fed, job, searched>> /\ ~expired
        /\ seeker[w] = "idle" /\ seeker' = [seeker EXCEPT ![w] = "done"]
    BY <1>7 DEF Leave, setup
  <2>2. Working \subseteq Working' /\ Searched' = Searched
    BY <1>1, <2>1 DEF Working, Searched
  <2>. QED
    BY <1>2, <2>1, <2>2
<1>8. CASE CloseJobs \/ JoinSearch \/ Expire \/ UNCHANGED searchVars
  <2>1. UNCHANGED <<specs, fed, job, seeker, searched>> /\ ~expired
    BY <1>8 DEF CloseJobs, JoinSearch, Expire, setup, searchVars
  <2>2. Working' = Working /\ Searched' = Searched
    BY <2>1 DEF Working, Searched
  <2>. QED
    BY <1>2, <2>1, <2>2
<1>. QED
  BY <1>3, <1>4, <1>5, <1>6, <1>7, <1>8 DEF SearchNext, SearchStep, SeekerStep

\* Once the budget is gone, no more is searched.
LEMMA LateIsNotSearched ==
    SearchInv /\ [SearchNext]_searchVars => UNCHANGED <<query, specs>> /\ (expired' => Searched' = Searched)
<1>. SUFFICES ASSUME SearchInv, [SearchNext]_searchVars
              PROVE  UNCHANGED <<query, specs>> /\ (expired' => Searched' = Searched)
  OBVIOUS
<1>1. searched \in [DOMAIN specs -> BOOLEAN]
  BY DEF SearchInv, SearchTypeOK
<1>2. CASE UNCHANGED <<query, specs, searched>>
  BY <1>2 DEF Searched
<1>3. ASSUME NEW w \in Searchers, Mark(w)
      PROVE  UNCHANGED <<query, specs>> /\ (expired' => Searched' = Searched)
  <2>1. /\ UNCHANGED <<query, specs>>
        /\ seeker[w] = "mark" /\ searched' = [searched EXCEPT ![job[w]] = ~expired]
    BY <1>3 DEF Mark, setup
  <2>2. w \in Working
    BY <2>1 DEF Working
  <2>3. ~searched[job[w]]
    BY <2>2 DEF SearchInv, JobsAreOwned
  <2>0. expired' = expired
    BY <1>3 DEF Mark
  <2>4. ASSUME expired, NEW i \in DOMAIN specs
        PROVE  searched'[i] = searched[i]
    <3>1. CASE i = job[w]
      BY <1>1, <2>1, <2>3, <2>4, <3>1
    <3>2. CASE i # job[w]
      BY <1>1, <2>1, <2>4, <3>2
    <3>. QED
      BY <3>1, <3>2
  <2>. QED
    BY <2>0, <2>1, <2>4 DEF Searched
<1>. QED
  BY <1>2, <1>3
     DEF SearchNext, SearchStep, SeekerStep, BeginSearch, CloseJobs, JoinSearch, Expire,
         FeedJob, Sweep, Refine, Leave, searchVars, setup

\* Whatever the pool and the moment the budget ends, fewer spots than there are
\* searchers are left out that are nearer the target than one searched.
THEOREM NearestFirstSearched == SearchSpec => []NearestIsSearchedFirst
<1>1. SearchInit => NearestSorts /\ FedAreInHand /\ NearestIsSearchedFirst
  BY NearestInit
<1>2. SearchInv /\ NearestSorts /\ [SearchNext]_searchVars => NearestSorts'
  BY LateIsNotSearched DEF NearestSorts, Nearing, Distance
<1>3. SearchInv /\ FedAreInHand /\ [SearchNext]_searchVars => FedAreInHand'
  BY FedAreInHandStep
<1>4. SearchInv /\ NearestIsSearchedFirst /\ [SearchNext]_searchVars
        => (expired' => NearestIsSearchedFirst')
  BY LateIsNotSearched DEF NearestIsSearchedFirst, Distance
<1>5. SearchInv /\ NearestSorts /\ FedAreInHand /\ ~expired => NearestIsSearchedFirst
  BY NearerInHand
<1>. QED
  BY <1>1, <1>2, <1>3, <1>4, <1>5, SearchInvAlways, PTL DEF SearchSpec

-----------------------------------------------------------------------------
LEMMA LeastOfTwo ==
  ASSUME NEW a \in Int, NEW b \in Int
  PROVE  /\ Min({a, b}) = IF a <= b THEN a ELSE b
         /\ Max({a, b}) = IF a <= b THEN b ELSE a
<1>1. \E x \in {a, b} : \A y \in {a, b} : x <= y
  <2>1. a <= b \/ b <= a
    OBVIOUS
  <2> QED
    BY <2>1
<1>2. Min({a, b}) \in {a, b} /\ \A y \in {a, b} : Min({a, b}) <= y
  BY <1>1 DEF Min
<1>3. \E x \in {a, b} : \A y \in {a, b} : x >= y
  <2>1. a <= b \/ b <= a
    OBVIOUS
  <2> QED
    BY <2>1
<1>4. Max({a, b}) \in {a, b} /\ \A y \in {a, b} : Max({a, b}) >= y
  BY <1>3 DEF Max
<1> QED
  BY <1>2, <1>4

-----------------------------------------------------------------------------
(* The floors of a column.                                                   *)

IsMap(column) == column \in SUBSET Slab /\ IsColumn(column)

LEMMA FacesAre ==
    ASSUME NEW column, IsMap(column)
    PROVE  /\ IsFiniteSet(FacesOf(column)) /\ FacesOf(column) \subseteq Int
           /\ \A z \in FacesOf(column) : \E s \in column : z = s.low \/ z = s.high
           /\ \A s \in column : s.low \in FacesOf(column) /\ s.high \in FacesOf(column)
<1> DEFINE Two(s) == {s.low, s.high}
           twos == {Two(s) : s \in column}
<1>1. FacesOf(column) = UNION twos
  BY DEF FacesOf
<1>2. IsFiniteSet(twos)
  <2> DEFINE f == [s \in column |-> Two(s)]
  <2>1. IsFiniteSet(column)
    BY DEF IsMap, IsColumn
  <2>. HIDE DEF Two
  <2>2. f \in Surjection(column, twos)
    BY DEF Surjection
  <2>. HIDE DEF f, twos
  <2>. QED
    BY <2>1, <2>2, FS_Surjection
<1>3. ASSUME NEW T \in twos PROVE IsFiniteSet(T)
  <2>1. PICK s \in column : T = {s.low} \cup {s.high}
    OBVIOUS
  <2>. QED
    BY <2>1, FS_Singleton, FS_Union
<1>4. IsFiniteSet(UNION twos)
  <2>. HIDE DEF twos
  <2>. QED
    BY <1>2, <1>3, FS_UNION
<1>5. \A s \in column : s.low \in Int /\ s.high \in Int
  BY DEF IsMap, Slab
<1>. QED
  BY <1>1, <1>4, <1>5

\* What a ray from top to bottom would meet, and in which order.
MetBy(column, top, bottom) == {z \in FacesOf(column) : bottom <= z /\ z <= top}

Downward(met) == {x \in met \X met : x[1] > x[2]}

\* A search that looks at enough faces looks at all; and whatever it has looked
\* at, it has looked at what is above.
LEMMA FacesDownIs ==
    ASSUME NEW column, IsMap(column), NEW top \in Int, NEW bottom \in Int
    PROVE  LET met == MetBy(column, top, bottom)
               faces == FacesDown(column, top, bottom)
           IN  /\ Range(faces) \subseteq met
               /\ \A z \in Range(faces) : \A y \in met : y > z => y \in Range(faces)
               /\ Cardinality(FacesOf(column)) <= MaxFaces => Range(faces) = met
               /\ \A i \in DOMAIN faces \cap {1} :
                    faces[i] \in met /\ \A y \in met : y <= faces[i]
<1> DEFINE met == MetBy(column, top, bottom)
           faces == FacesDown(column, top, bottom)
           R == Downward(met)
           c == Cardinality(met)
           at == Place(met, R)
           n == Min({c, MaxFaces})
<1>1. /\ IsFiniteSet(FacesOf(column)) /\ met \subseteq FacesOf(column)
      /\ \A z \in met : z \in Int
  BY FacesAre DEF MetBy
<1>2. IsFiniteSet(met) /\ c \in Nat /\ c <= Cardinality(FacesOf(column))
  BY <1>1, FS_Subset, FS_CardinalityType
<1>3. n \in Nat /\ n <= c /\ (c <= MaxFaces => n = c)
  <2>1. MaxFaces \in Nat
    BY FloorsAssumption
  <2>. QED
    BY <1>2, <2>1, LeastOfTwo
<1>4. \A x, y \in met : <<x, y>> \in R <=> x > y
  BY DEF Downward
<1>. HIDE DEF R
<1>5. TotalOrder(met, R)
  BY <1>1, <1>4 DEF TotalOrder
<1>6. /\ at \in [1 .. c -> met]
      /\ \A k, l \in 1 .. c : k < l => <<at[k], at[l]>> \in R
      /\ \A z \in met : \E k \in 1 .. c : at[k] = z
  BY <1>2, <1>5, PlaceIs
<1>7. faces = [k \in 1 .. n |-> at[k]]
  <2>1. ASSUME NEW k \in 1 .. n
        PROVE  (CHOOSE z \in met : Cardinality({y \in met : y > z}) = k - 1) = at[k]
    <3>1. ASSUME NEW z \in met PROVE {y \in met : y > z} = Preds(met, R, z)
      BY <1>4 DEF Preds
    <3>2. k \in 1 .. c
      BY <1>2, <1>3
    <3>3. at[k] = CHOOSE z \in met : Cardinality(Preds(met, R, z)) = k - 1
      BY <3>2 DEF Place
    <3>. HIDE DEF met, at
    <3>4. \A z \in met : Cardinality({y \in met : y > z}) = k - 1
                            <=> Cardinality(Preds(met, R, z)) = k - 1
      BY <3>1
    <3>. QED
      BY <3>3, <3>4
  <2>2. faces = [k \in 1 .. n |-> CHOOSE z \in met : Cardinality({y \in met : y > z}) = k - 1]
    BY DEF FacesDown, MetBy
  <2>. HIDE DEF faces, met, n, at
  <2>. QED
    BY <2>1, <2>2
<1>. HIDE DEF met, faces, c, at, n
<1>8. Range(faces) = {at[k] : k \in 1 .. n} /\ DOMAIN faces = 1 .. n
  BY <1>7 DEF Range
<1>9. \A k \in 1 .. n : k \in 1 .. c
  BY <1>2, <1>3
<1>10. Range(faces) \subseteq met
  BY <1>6, <1>8, <1>9
<1>11. ASSUME NEW k \in 1 .. n, NEW y \in met, y > at[k]
       PROVE  y \in Range(faces)
  <2>1. PICK l \in 1 .. c : at[l] = y
    BY <1>6
  <2>2. at[k] \in met /\ k \in 1 .. c
    BY <1>6, <1>9
  <2>3. l < k
    <3>1. CASE k < l
      <4>1. at[k] > at[l]
        BY <1>4, <1>6, <2>1, <2>2, <3>1
      <4>. QED
        BY <1>1, <1>11, <2>1, <2>2, <4>1
    <3>2. l # k
      BY <1>1, <1>11, <2>1, <2>2
    <3>. QED
      BY <1>2, <2>1, <2>2, <3>1, <3>2
  <2>4. l \in 1 .. n
    BY <1>2, <1>3, <2>1, <2>3
  <2>. QED
    BY <1>8, <2>1, <2>4
<1>12. ASSUME Cardinality(FacesOf(column)) <= MaxFaces PROVE Range(faces) = met
  <2>1. n = c
    <3>1. Cardinality(FacesOf(column)) \in Nat /\ MaxFaces \in Nat
      BY <1>1, FS_CardinalityType, FloorsAssumption
    <3>. QED
      BY <1>2, <1>3, <1>12, <3>1
  <2>. QED
    BY <1>6, <1>8, <1>10, <2>1
<1>13. ASSUME 1 \in DOMAIN faces
       PROVE  faces[1] \in met /\ \A y \in met : y <= faces[1]
  <2>1. 1 \in 1 .. n /\ 1 \in 1 .. c /\ faces[1] = at[1]
    BY <1>7, <1>8, <1>9, <1>13
  <2>2. ASSUME NEW y \in met PROVE y <= at[1]
    <3>1. PICK l \in 1 .. c : at[l] = y
      BY <1>6
    <3>2. CASE l = 1
      BY <1>1, <3>1, <3>2
    <3>3. CASE 1 < l
      <4>1. at[1] > at[l] /\ at[1] \in met
        BY <1>4, <1>6, <2>1, <3>1, <3>3
      <4>. QED
        BY <1>1, <3>1, <4>1
    <3>. QED
      BY <1>2, <3>1, <3>2, <3>3
  <2>. QED
    BY <1>6, <2>1, <2>2
<1>14. \A z \in Range(faces) : \A y \in met : y > z => y \in Range(faces)
  BY <1>8, <1>11
<1>. QED
  BY <1>10, <1>12, <1>13, <1>14 DEF met, faces

\* A face of a column that does not deceive is a slab's top, if there is
\* nothing, or enough air, up to the next face met.
LEMMA IsWalkable ==
    ASSUME NEW column, IsMap(column), NEW top \in Int, NEW z \in FacesOf(column),
           z <= top, ~Deceptive(column, top), LevelAt(column, z),
           \A f \in FacesOf(column) : z < f /\ f <= top => f - z >= FloorGap
    PROVE  z \in Walkable(column)
<1>1. FloorGap \in Nat \ {0} /\ z \in Int
  BY FloorsAssumption, FacesAre
<1>2. \A s \in column : s.low \in Int /\ s.high \in Int /\ s.low < s.high
  BY DEF IsMap, IsColumn, Slab
<1>3. PICK s \in column : z = s.low \/ z = s.high
  BY FacesAre
<1>4. \A q \in column : q.low \in FacesOf(column) /\ q.high \in FacesOf(column)
  BY FacesAre
<1>5. /\ \A q \in column : ~(q.low <= top /\ top < q.high) /\ ~(q.high - q.low >= FloorGap)
      /\ \A p, q \in column : ~(p.high <= top /\ top < q.low /\ q.low - p.high < FloorGap)
  BY DEF Deceptive
<1>6. z = s.high
  <2>1. ASSUME z = s.low PROVE FALSE
    <3>1. s.high <= top /\ z < s.high
      BY <1>1, <1>2, <1>5, <2>1
    <3>2. s.high - z >= FloorGap
      BY <1>4, <3>1
    <3>. QED
      BY <1>2, <1>5, <2>1, <3>2
  <2>. QED
    BY <1>3, <2>1
<1>7. s.level
  BY <1>6 DEF LevelAt
<1>8. ASSUME NEW q \in column, q.low > s.high PROVE q.low - s.high >= FloorGap
  <2>1. CASE q.low <= top
    BY <1>1, <1>2, <1>4, <1>6, <1>8, <2>1
  <2>2. CASE top < q.low
    BY <1>1, <1>2, <1>5, <1>6, <2>2
  <2>. QED
    BY <1>2, <2>1, <2>2
<1>. QED
  BY <1>6, <1>7, <1>8 DEF Walkable

LEMMA FloorsDownAre ==
    ASSUME NEW column, IsMap(column), NEW top \in Int, NEW bottom \in Int,
           NEW z \in FloorsDown(column, top, bottom)
    PROVE  /\ z \in FacesOf(column) /\ z \in Int /\ bottom <= z /\ z <= top
           /\ ~Deceptive(column, top) => z \in Walkable(column)
<1> DEFINE met == MetBy(column, top, bottom)
           faces == FacesDown(column, top, bottom)
<1>1. z \in Range(faces) /\ LevelAt(column, z) /\ AirAbove(faces, z)
  BY DEF FloorsDown
<1>2. /\ Range(faces) \subseteq met
      /\ \A x \in Range(faces) : \A y \in met : y > x => y \in Range(faces)
  BY FacesDownIs
<1>. HIDE DEF faces
<1>3. z \in FacesOf(column) /\ z \in Int /\ bottom <= z /\ z <= top
  BY <1>1, <1>2, FacesAre DEF MetBy
<1>4. ASSUME NEW f \in FacesOf(column), z < f, f <= top PROVE f - z >= FloorGap
  <2>1. f \in Int /\ f \in met
    BY <1>3, <1>4, FacesAre DEF MetBy
  <2>. QED
    BY <1>1, <1>2, <1>3, <1>4, <2>1 DEF AirAbove
<1>. QED
  BY <1>1, <1>3, <1>4, IsWalkable

LEMMA FloorsDownAll ==
    ASSUME NEW column, IsMap(column), NEW top \in Int, NEW bottom \in Int,
           Cardinality(FacesOf(column)) <= MaxFaces,
           NEW z \in Walkable(column), bottom <= z, z <= top
    PROVE  z \in FloorsDown(column, top, bottom)
<1> DEFINE met == MetBy(column, top, bottom)
           faces == FacesDown(column, top, bottom)
<1>1. PICK s \in column : /\ s.level /\ z = s.high
                          /\ \A q \in column : q.low > s.high => q.low - s.high >= FloorGap
  BY DEF Walkable
<1>2. \A q \in column : /\ q.low \in Int /\ q.high \in Int /\ q.low < q.high
                        /\ q = s \/ q.high < s.low \/ s.high < q.low
  BY DEF IsMap, IsColumn, Slab
<1>3. Range(faces) = met
  BY FacesDownIs
<1>. HIDE DEF faces
<1>4. z \in met
  BY <1>1, FacesAre DEF MetBy
<1>5. LevelAt(column, z)
  <2>1. ASSUME NEW q \in column, z = q.high PROVE q.level
    <3>1. /\ s.low \in Int /\ s.high \in Int /\ s.low < s.high
          /\ q.low \in Int /\ q.high \in Int /\ q.low < q.high
          /\ q = s \/ q.high < s.low \/ s.high < q.low
      BY <1>2
    <3>2. q.high = s.high
      BY <1>1, <2>1
    <3>3. q = s
      BY <3>1, <3>2
    <3>. QED
      BY <1>1, <3>3
  <2>. QED
    BY <2>1 DEF LevelAt
<1>6. ASSUME NEW f \in met, f > z PROVE f - z >= FloorGap
  <2>1. PICK q \in column : f = q.low \/ f = q.high
    BY FacesAre DEF MetBy
  <2>2. s.high < q.low
    BY <1>1, <1>2, <1>6, <2>1
  <2>3. FloorGap \in Nat /\ q.low - s.high >= FloorGap
    BY <1>1, <2>2, FloorsAssumption
  <2>. QED
    BY <1>1, <1>2, <2>1, <2>3
<1>. QED
  BY <1>3, <1>4, <1>5, <1>6 DEF FloorsDown, AirAbove, faces

LEMMA NearestIs ==
    ASSUME NEW floors \in SUBSET Int, NEW low \in Int, NEW high \in Int, NEW near \in Int,
           NEW z \in Nearest(floors, low, high, near)
    PROVE  /\ z \in floors /\ low <= z /\ z <= high
           /\ \A y \in floors : low <= y /\ y <= high => Distance(z, near) <= Distance(y, near)
<1>1. \A y \in floors : Distance(y, near) \in Int
  BY DEF Distance
<1>2. /\ z \in floors /\ low <= z /\ z <= high
      /\ \A y \in floors : low <= y /\ y <= high =>
           Distance(z, near) < Distance(y, near) \/ Distance(z, near) = Distance(y, near)
  BY DEF Nearest
<1>. QED
  BY <1>1, <1>2

LEMMA NearestThere ==
    ASSUME NEW floors \in SUBSET Int, IsFiniteSet(floors),
           NEW low \in Int, NEW high \in Int, NEW near \in Int,
           NEW x \in floors, low <= x, x <= high
    PROVE  Nearest(floors, low, high, near) # {}
<1> DEFINE P == {z \in floors : low <= z /\ z <= high}
           dist(z) == Distance(z, near)
           R == {p \in P \X P : dist(p[1]) < dist(p[2]) \/ (dist(p[1]) = dist(p[2]) /\ p[2] < p[1])}
<1>1. \A z \in P : z \in Int /\ dist(z) \in Int
  BY DEF Distance
<1>2. IsFiniteSet(P) /\ x \in P
  BY FS_Subset
<1>3. \A y, z \in P : <<y, z>> \in R <=> dist(y) < dist(z) \/ (dist(y) = dist(z) /\ z < y)
  OBVIOUS
<1>4. Nearest(floors, low, high, near)
        = {z \in P : \A y \in P : dist(z) < dist(y) \/ (dist(z) = dist(y) /\ y <= z)}
  BY DEF Nearest
<1>. HIDE DEF P, R, dist
<1>5. TotalOrder(P, R)
  BY <1>1, <1>3 DEF TotalOrder
<1>6. Cardinality(P) \in Nat /\ Cardinality(P) # 0
  BY <1>2, FS_CardinalityType, FS_EmptySet
<1>7. 0 \in 0 .. Cardinality(P) - 1
  BY <1>6
<1>8. PICK z \in P : Cardinality(Preds(P, R, z)) = 0
  BY <1>2, <1>5, <1>7, Ranked
<1>9. ASSUME NEW y \in P, <<y, z>> \in R PROVE FALSE
  <2>1. Cardinality(Preds(P, R, y)) < 0 /\ Cardinality(Preds(P, R, y)) \in 0 .. Cardinality(P) - 1
    BY <1>2, <1>5, <1>8, <1>9, Ranked
  <2>. QED
    BY <2>1
<1>10. ASSUME NEW y \in P
       PROVE  dist(z) < dist(y) \/ (dist(z) = dist(y) /\ y <= z)
  <2>1. z = y \/ <<z, y>> \in R
    BY <1>5, <1>9 DEF TotalOrder
  <2>. QED
    BY <1>1, <1>3, <2>1
<1>. QED
  BY <1>4, <1>10

LEMMA FloorNearIs ==
    ASSUME NEW column, IsMap(column), NEW guess \in Int, ~Deceptive(column, guess + SnapReach)
    PROVE  /\ FloorNear(column, guess) \subseteq WalkableNear(column, guess)
           /\ Cardinality(FacesOf(column)) <= MaxFaces =>
                /\ FloorNear(column, guess) = {} => WalkableNear(column, guess) = {}
                /\ \A z \in FloorNear(column, guess) : \A y \in WalkableNear(column, guess) :
                     Distance(z, guess) <= Distance(y, guess)
<1> DEFINE top == guess + SnapReach
           bottom == guess - SnapReach
           floors == FloorsDown(column, top, bottom)
<1>1. SnapReach \in Nat /\ top \in Int /\ bottom \in Int
  BY FloorsAssumption
<1>2. FloorNear(column, guess) = Nearest(floors, bottom, top, guess)
  BY DEF FloorNear
<1>3. \A z \in Int : Distance(z, guess) <= SnapReach <=> bottom <= z /\ z <= top
  BY <1>1 DEF Distance
<1>4. \A z \in Walkable(column) : z \in Int
  BY DEF Walkable, IsMap, Slab
<1>. HIDE DEF top, bottom
<1>5. \A z \in floors : z \in Int /\ bottom <= z /\ z <= top /\ z \in Walkable(column)
  BY <1>1, FloorsDownAre DEF top
<1>6. floors \in SUBSET Int /\ IsFiniteSet(floors)
  <2>1. floors \subseteq FacesOf(column)
    BY <1>1, FloorsDownAre
  <2>. QED
    BY <1>5, <2>1, FacesAre, FS_Subset
<1>7. Cardinality(FacesOf(column)) <= MaxFaces =>
        \A y \in WalkableNear(column, guess) : y \in floors /\ bottom <= y /\ y <= top
  BY <1>1, <1>3, <1>4, FloorsDownAll DEF WalkableNear
<1>. HIDE DEF floors
<1>8. ASSUME NEW z \in FloorNear(column, guess)
      PROVE  /\ z \in WalkableNear(column, guess)
             /\ \A y \in floors : bottom <= y /\ y <= top => Distance(z, guess) <= Distance(y, guess)
  <2>1. z \in Nearest(floors, bottom, top, guess)
    BY <1>2
  <2>2. /\ z \in floors
        /\ \A y \in floors : bottom <= y /\ y <= top => Distance(z, guess) <= Distance(y, guess)
    BY <1>1, <1>6, <2>1, NearestIs
  <2>3. z \in Walkable(column) /\ Distance(z, guess) <= SnapReach
    BY <1>3, <1>5, <2>2
  <2>. QED
    BY <2>2, <2>3 DEF WalkableNear
<1>9. ASSUME NEW y \in floors, bottom <= y, y <= top PROVE FloorNear(column, guess) # {}
  BY <1>1, <1>2, <1>6, <1>9, NearestThere
<1>. QED
  BY <1>7, <1>8, <1>9

LEMMA FirstFloorIs ==
    ASSUME NEW column, IsMap(column), NEW low \in Int, NEW high \in Int,
           ~Deceptive(column, high + PlayerHeight),
           NEW z \in FirstFloor(column, low, high)
    PROVE  z \in Walkable(column) /\ low - Slack <= z /\ z <= high + Slack
<1> DEFINE top == high + PlayerHeight
           bottom == low - Slack
           met == MetBy(column, top, bottom)
           faces == FacesDown(column, top, bottom)
<1>1. top \in Int /\ bottom \in Int
  BY FloorsAssumption
<1>2. PICK i \in DOMAIN faces \cap {1} : z = faces[i]
  BY DEF FirstFloor
<1>3. LevelAt(column, z) /\ z <= high + Slack
  BY DEF FirstFloor
<1>4. z \in met /\ \A y \in met : y <= z
  <2>. HIDE DEF top, bottom
  <2>. QED
    BY <1>1, <1>2, FacesDownIs
<1>. HIDE DEF faces
<1>5. z \in FacesOf(column) /\ bottom <= z /\ z <= top /\ z \in Int
  BY <1>4, FacesAre DEF MetBy
<1>6. ASSUME NEW f \in FacesOf(column), z < f, f <= top PROVE FALSE
  <2>1. f \in Int
    BY FacesAre
  <2>2. f \in met
    BY <1>1, <1>5, <1>6, <2>1 DEF MetBy
  <2>. QED
    BY <1>4, <1>5, <1>6, <2>1, <2>2
<1>. QED
  BY <1>1, <1>3, <1>5, <1>6, IsWalkable

\* The feet a spot is taken for are on a floor of one of its columns.
LEMMA FeetAreWalkable ==
    ASSUME NEW columns, \A c \in Range(columns) : IsMap(c), NEW low \in Int, NEW high \in Int,
           NEW snap \in BOOLEAN,
           \A c \in Range(columns) : ~Deceptive(c, high + PlayerHeight),
           NEW z \in FeetAt(columns, low, high, snap)
    PROVE  /\ low - Slack <= z /\ z <= high + Slack
           /\ \E c \in Range(columns) : z \in Walkable(c)
<1>1. PICK c \in Range(columns) :
        z \in IF snap THEN NearestFloor(c, low, high, (low + high) \div 2)
                      ELSE FirstFloor(c, low, high)
  BY DEF FeetAt
<1>2. IsMap(c) /\ ~Deceptive(c, high + PlayerHeight)
  OBVIOUS
<1>3. /\ low - Slack \in Int /\ high + Slack \in Int /\ high + PlayerHeight \in Int
      /\ (low + high) \div 2 \in Int
  BY FloorsAssumption
<1>4. CASE snap
  <2> DEFINE floors == FloorsDown(c, high + PlayerHeight, low - Slack)
  <2>1. z \in Nearest(floors, low - Slack, high + Slack, (low + high) \div 2)
    BY <1>1, <1>4 DEF NearestFloor
  <2>2. \A y \in floors : y \in Int /\ y \in Walkable(c)
    BY <1>2, <1>3, FloorsDownAre
  <2>. HIDE DEF floors
  <2>3. z \in floors /\ low - Slack <= z /\ z <= high + Slack
    BY <1>3, <2>1, <2>2, NearestIs
  <2>. QED
    BY <2>2, <2>3
<1>5. CASE ~snap
  <2>1. z \in FirstFloor(c, low, high)
    BY <1>1, <1>5
  <2>. QED
    BY <1>2, <2>1, FirstFloorIs
<1>. QED
  BY <1>4, <1>5

-----------------------------------------------------------------------------
(* What is searched for a request.                                           *)

Apart(places) == \A i, j \in DOMAIN places : places[i].at = places[j].at => i = j

Stood(r, p) ==
    /\ ~p.walled
    /\ \E z \in FeetAt(p.columns, r.low, r.high, r.snap) : Headroom(Head(p.columns), z)

Standing(r) == {p \in Range(r.spots) : Stood(r, p)}

LEMMA RequestIs ==
    ASSUME NEW r \in Requests
    PROVE  /\ r.snap \in BOOLEAN
           /\ r.guess \in Int /\ r.target \in Int /\ r.low \in Int /\ r.high \in Int
           /\ r.limit \in Nat \ {0}
           /\ IsMap(r.column)
           /\ r.spots \in Seq(Spots) /\ Apart(r.spots)
           /\ \A p \in Range(r.spots) : \A c \in Range(p.columns) : IsMap(c)
           /\ r.asked \in Seq(ThrowKinds)
           /\ \A p \in Range(r.spots) : \A k \in ThrowKinds : r.throws[p.at, k] \in Seq(Find)
<1>1. r.spots \in Seq(Spots)
  BY RequestsAssumption
<1>2. ASSUME NEW i \in DOMAIN r.spots, NEW c \in Range(r.spots[i].columns) PROVE IsMap(c)
  <2>1. r.spots[i] \in Spots
    BY <1>1
  <2>2. r.spots[i].columns \in Seq(SUBSET Slab)
    BY <2>1 DEF Spots
  <2>3. c \in SUBSET Slab
    BY <2>2 DEF Range
  <2>. QED
    BY <2>3, RequestsAssumption DEF IsMap
<1>3. \A p \in Range(r.spots) : \E i \in DOMAIN r.spots : p = r.spots[i]
  BY DEF Range
<1>4. Apart(r.spots)
  BY RequestsAssumption DEF Apart
<1>. QED
  BY <1>1, <1>2, <1>3, <1>4, RequestsAssumption DEF IsMap

LEMMA StepsApart ==
    ASSUME NEW d \in Nat \ {0}, NEW l \in Nat, l > d, NEW a \in Nat, NEW b \in Nat, a < b
    PROVE  (a * l) \div d < (b * l) \div d
<1>1. a * l \in Nat /\ b * l \in Nat /\ a * l + l <= b * l
  <2>1. b * l = a * l + (b - a) * l
    OBVIOUS
  <2>2. (b - a) * l >= l
    <3>1. b - a \in Nat /\ b - a >= 1
      OBVIOUS
    <3>. QED
      BY <3>1
  <2>. QED
    BY <2>1, <2>2
<1>2. a * l + d <= b * l
  BY <1>1
<1>3. ASSUME NEW x \in Nat, NEW y \in Nat, x + d <= y PROVE x \div d < y \div d
  <2>1. (x + d) \div d = x \div d + 1
    OBVIOUS
  <2>2. (x + d) \div d <= y \div d
    BY <1>3, DivMonotone
  <2>3. x \div d \in Nat /\ y \div d \in Nat
    BY <1>3, DivMonotone
  <2>. QED
    BY <2>1, <2>2, <2>3
<1>. QED
  BY <1>1, <1>2, <1>3

\* As many places as elements are all of them.
LEMMA AsMany ==
    ASSUME NEW S, NEW s \in Seq(S), \A i, j \in DOMAIN s : s[i] = s[j] => i = j
    PROVE  Cardinality(Range(s)) = Len(s)
<1>1. Len(s) \in Nat /\ DOMAIN s = 1 .. Len(s)
  OBVIOUS
<1>2. s \in Bijection(DOMAIN s, Range(s))
  BY DEF Bijection, Injection, Surjection, IsInjective, Range
<1>3. IsFiniteSet(1 .. Len(s)) /\ Cardinality(1 .. Len(s)) = Len(s)
  BY <1>1, OneTo
<1>4. ExistsBijection(1 .. Len(s), Range(s))
  BY <1>1, <1>2 DEF ExistsBijection
<1>. QED
  BY <1>3, <1>4, FS_Bijection

\* standsIn takes spots that can be stood on, and all unless there are too many.
LEMMA StandsAre ==
    ASSUME NEW r \in Requests
    PROVE  /\ Apart(StandsIn(r))
           /\ Range(StandsIn(r)) \subseteq Standing(r)
           /\ Cardinality(Standing(r)) <= MaxStands => Range(StandsIn(r)) = Standing(r)
<1> DEFINE s == r.spots
           P == {i \in DOMAIN s :
                   /\ ~s[i].walled
                   /\ \E feet \in FeetAt(s[i].columns, r.low, r.high, r.snap) :
                          Headroom(Head(s[i].columns), feet)}
           fit == SubSequence(s, P)
           L == Len(fit)
           at == InOrder(P)
           M == MaxStands
           thin == [k \in 1 .. M |-> fit[((k - 1) * L) \div M + 1]]
<1>1. s \in Seq(Spots) /\ Apart(s) /\ M \in Nat \ {0}
  BY RequestIs, StandsAssumption
<1>2. StandsIn(r) = IF L > M THEN thin ELSE fit
  BY DEF StandsIn
<1>3. P \subseteq DOMAIN s /\ \A i \in DOMAIN s : i \in P <=> Stood(r, s[i])
  BY DEF Stood
<1>. HIDE DEF P, s, M
<1>4. Selection(Spots, fit, s, P, at)
  BY <1>1, <1>3, SubSequenceIs
<1>. HIDE DEF at, fit
<1>5. /\ fit \in Seq(Spots) /\ L \in Nat /\ DOMAIN fit = 1 .. L
      /\ at \in [1 .. L -> P]
      /\ \A k \in 1 .. L : fit[k] = s[at[k]]
      /\ \A k, l \in 1 .. L : k < l => at[k] < at[l]
      /\ \A i \in P : \E k \in 1 .. L : at[k] = i
  BY <1>4 DEF Selection
<1>6. DOMAIN s \subseteq Nat
  BY <1>1
<1>. HIDE DEF L
<1>7. ASSUME NEW k \in 1 .. L, NEW l \in 1 .. L, fit[k].at = fit[l].at PROVE k = l
  <2>1. at[k] \in P /\ at[l] \in P /\ at[k] \in DOMAIN s /\ at[l] \in DOMAIN s
    BY <1>3, <1>5
  <2>2. at[k] = at[l]
    BY <1>1, <1>5, <1>7, <2>1 DEF Apart
  <2>3. at[k] \in Nat /\ at[l] \in Nat /\ ~(at[k] < at[l]) /\ ~(at[l] < at[k])
    BY <1>6, <2>1, <2>2
  <2>. QED
    BY <1>5, <2>3
<1>8. Range(fit) = Standing(r)
  <2>1. ASSUME NEW k \in 1 .. L PROVE fit[k] \in Standing(r)
    <3>1. at[k] \in P /\ at[k] \in DOMAIN s
      BY <1>3, <1>5
    <3>. QED
      BY <1>3, <1>5, <3>1 DEF Standing, Range, s
  <2>2. ASSUME NEW p \in Standing(r) PROVE \E k \in 1 .. L : fit[k] = p
    <3>1. PICK i \in DOMAIN s : p = s[i]
      BY DEF Standing, Range, s
    <3>2. i \in P
      BY <1>3, <3>1 DEF Standing
    <3>. QED
      BY <1>5, <3>1, <3>2
  <2>. QED
    BY <1>5, <2>1, <2>2 DEF Range
<1>9. Cardinality(Standing(r)) = L
  <2>1. \A i, j \in DOMAIN fit : fit[i] = fit[j] => i = j
    BY <1>5, <1>7
  <2>. QED
    BY <1>5, <1>8, <2>1, AsMany DEF L
<1>10. CASE L > M
  <2>1. StandsIn(r) = thin
    BY <1>2, <1>10
  <2> DEFINE pick(k) == ((k - 1) * L) \div M + 1
  <2>2. ASSUME NEW k \in 1 .. M, NEW l \in 1 .. M, k < l PROVE pick(k) < pick(l)
    <3>1. ((k - 1) * L) \div M < ((l - 1) * L) \div M
      <4>1. k - 1 \in Nat /\ l - 1 \in Nat /\ k - 1 < l - 1
        BY <1>1, <2>2
      <4>. QED
        BY <1>1, <1>5, <1>10, <4>1, StepsApart
    <3>2. ((k - 1) * L) \div M \in Int /\ ((l - 1) * L) \div M \in Int
      BY <1>1, <1>5
    <3>. QED
      BY <3>1, <3>2
  <2>3. \A k \in 1 .. M : pick(k) \in 1 .. L
    BY <1>1, <1>5, <1>10, ThinPlace
  <2>4. thin = [k \in 1 .. M |-> fit[pick(k)]]
    OBVIOUS
  <2>. HIDE DEF pick, thin
  <2>5. ASSUME NEW k \in 1 .. M, NEW l \in 1 .. M, thin[k].at = thin[l].at PROVE k = l
    <3>1. pick(k) = pick(l)
      BY <1>7, <2>3, <2>4, <2>5
    <3>2. pick(k) \in Int /\ pick(l) \in Int /\ ~(pick(k) < pick(l)) /\ ~(pick(l) < pick(k))
      BY <2>3, <3>1
    <3>. QED
      BY <1>1, <2>2, <3>2
  <2>6. Apart(thin)
    BY <2>4, <2>5 DEF Apart
  <2>7. Range(thin) \subseteq Range(fit)
    BY <1>5, <2>3, <2>4 DEF Range
  <2>8. ~(Cardinality(Standing(r)) <= M)
    BY <1>1, <1>5, <1>9, <1>10
  <2>. QED
    BY <1>8, <2>1, <2>6, <2>7, <2>8 DEF M
<1>11. CASE ~(L > M)
  <2>1. StandsIn(r) = fit
    BY <1>2, <1>11
  <2>2. Apart(fit)
    BY <1>5, <1>7 DEF Apart
  <2>. QED
    BY <1>8, <2>1, <2>2
<1>. QED
  BY <1>10, <1>11

LEMMA NearestFirstAre ==
    ASSUME NEW r \in Requests
    PROVE  /\ Apart(NearestFirst(r))
           /\ Range(NearestFirst(r)) = Range(StandsIn(r))
<1> DEFINE s == StandsIn(r)
           R == {x \in (DOMAIN s) \X (DOMAIN s) : Before(s, r.target, x[1], x[2])}
           at == Place(DOMAIN s, R)
           t == NearestFirst(r)
<1>1. /\ s \in Seq(Spots) /\ TotalOrder(DOMAIN s, R)
      /\ Arrangement(Spots, t, s, R, at)
  BY NearestFirstIs
<1>2. Apart(s)
  BY StandsAre
<1>. HIDE DEF s, R, at, t
<1>3. /\ Len(s) \in Nat /\ DOMAIN s = 1 .. Len(s) /\ DOMAIN t = 1 .. Len(s)
      /\ at \in [1 .. Len(s) -> 1 .. Len(s)]
      /\ \A k \in 1 .. Len(s) : t[k] = s[at[k]]
      /\ \A k, l \in 1 .. Len(s) : k < l => <<at[k], at[l]>> \in R
      /\ \A i \in 1 .. Len(s) : \E k \in 1 .. Len(s) : at[k] = i
  BY <1>1 DEF Arrangement
<1>4. ASSUME NEW k \in 1 .. Len(s), NEW l \in 1 .. Len(s), t[k].at = t[l].at PROVE k = l
  <2>a. at[k] \in DOMAIN s /\ at[l] \in DOMAIN s /\ t[k] = s[at[k]] /\ t[l] = s[at[l]]
    BY <1>3
  <2>b. s[at[k]].at = s[at[l]].at
    BY <1>4, <2>a
  <2>1. at[k] = at[l] /\ at[k] \in DOMAIN s
    BY <1>2, <2>a, <2>b DEF Apart
  <2>2. <<at[k], at[l]>> \notin R /\ <<at[l], at[k]>> \notin R
    BY <1>1, <2>1 DEF TotalOrder
  <2>. QED
    BY <1>3, <2>2
<1>5. Apart(t)
  BY <1>3, <1>4 DEF Apart
<1>6. Range(t) = Range(s)
  <2>1. ASSUME NEW k \in 1 .. Len(s) PROVE t[k] \in Range(s)
    BY <1>3 DEF Range
  <2>2. ASSUME NEW i \in 1 .. Len(s) PROVE s[i] \in Range(t)
    <3>1. PICK k \in 1 .. Len(s) : at[k] = i
      BY <1>3
    <3>2. s[i] = t[k] /\ k \in DOMAIN t
      BY <1>3, <3>1
    <3>. QED
      BY <3>2 DEF Range
  <2>. QED
    BY <1>3, <2>1, <2>2 DEF Range
<1>. QED
  BY <1>5, <1>6 DEF s, t

\* Once leaves each value in one place, its first.
LEMMA OnceIs ==
    ASSUME NEW S, NEW s \in Seq(S)
    PROVE  /\ Once(s) \in Seq(S) /\ Range(Once(s)) = Range(s)
           /\ \A i, j \in DOMAIN Once(s) : Once(s)[i] = Once(s)[j] => i = j
<1> DEFINE P == {i \in DOMAIN s : \A j \in DOMAIN s : j < i => s[j] # s[i]}
           t == SubSequence(s, P)
           at == InOrder(P)
<1>1. Once(s) = t
  BY DEF Once
<1>2. Selection(S, t, s, P, at)
  BY SubSequenceIs
<1>. HIDE DEF at, t
<1>3. DOMAIN s = 1 .. Len(s) /\ Len(s) \in Nat
  OBVIOUS
<1>a. \A i \in P : i \in DOMAIN s /\ \A j \in DOMAIN s : j < i => s[j] # s[i]
  OBVIOUS
<1>b. \A i \in DOMAIN s : (\A j \in DOMAIN s : j < i => s[j] # s[i]) => i \in P
  OBVIOUS
<1>. HIDE DEF P
<1>4. /\ t \in Seq(S) /\ Len(t) \in Nat /\ DOMAIN t = 1 .. Len(t)
      /\ at \in [1 .. Len(t) -> P]
      /\ \A k \in 1 .. Len(t) : t[k] = s[at[k]]
      /\ \A k, l \in 1 .. Len(t) : k < l => at[k] < at[l]
      /\ \A i \in P : \E k \in 1 .. Len(t) : at[k] = i
  BY <1>2 DEF Selection
<1>5. ASSUME NEW k \in 1 .. Len(t), NEW l \in 1 .. Len(t), k < l PROVE t[k] # t[l]
  <2>1. at[k] < at[l] /\ at[k] \in DOMAIN s /\ at[l] \in P
    BY <1>4, <1>5, <1>a
  <2>2. s[at[k]] # s[at[l]]
    BY <1>a, <2>1
  <2>. QED
    BY <1>4, <2>2
<1>6. ASSUME NEW i \in DOMAIN s PROVE \E p \in P : s[p] = s[i]
  <2> DEFINE Same == {j \in DOMAIN s : s[j] = s[i]}
  <2>1. Same \in SUBSET Nat /\ i \in Same
    BY <1>3
  <2>2. PICK p \in Same : \A y \in Same : p <= y
    <3>. HIDE DEF Same
    <3>. QED
      BY <2>1, HasLeast
  <2>3. p \in DOMAIN s /\ p \in Nat /\ s[p] = s[i]
    BY <2>1, <2>2
  <2>4. ASSUME NEW j \in DOMAIN s, j < p PROVE s[j] # s[p]
    BY <1>3, <2>2, <2>3, <2>4
  <2>. QED
    BY <1>b, <2>3, <2>4
<1>7. \A p \in P : p \in DOMAIN s
  BY <1>a
<1>8. Range(t) = Range(s)
  <2>1. ASSUME NEW v \in Range(t) PROVE v \in Range(s)
    <3>1. PICK k \in 1 .. Len(t) : v = t[k]
      BY <1>4 DEF Range
    <3>2. at[k] \in DOMAIN s /\ v = s[at[k]]
      BY <1>4, <1>7, <3>1
    <3>. QED
      BY <3>2 DEF Range
  <2>2. ASSUME NEW v \in Range(s) PROVE v \in Range(t)
    <3>1. PICK i \in DOMAIN s : v = s[i]
      BY DEF Range
    <3>2. PICK p \in P : s[p] = v
      BY <1>6, <3>1
    <3>3. PICK k \in 1 .. Len(t) : at[k] = p
      BY <1>4
    <3>. QED
      BY <1>4, <3>2, <3>3 DEF Range
  <2>. QED
    BY <2>1, <2>2
<1>9. \A k, l \in DOMAIN t : t[k] = t[l] => k = l
  BY <1>4, <1>5
<1>. QED
  BY <1>1, <1>4, <1>8, <1>9

LEMMA DivMod ==
    ASSUME NEW a \in Nat, NEW d \in Nat \ {0}
    PROVE  a = d * (a \div d) + (a % d)
OBVIOUS

LEMMA RowAndColumn ==
    ASSUME NEW n \in Nat, NEW d \in Nat \ {0}, NEW m \in 1 .. n, NEW k \in 1 .. d
    PROVE  /\ (m - 1) * d + k \in 1 .. n * d
           /\ ((m - 1) * d + k - 1) \div d = m - 1
           /\ ((m - 1) * d + k - 1) % d = k - 1
<1> DEFINE x == (m - 1) * d
<1>1. x \in Nat /\ x + d = m * d /\ m * d <= n * d /\ n * d \in Nat
  <2>1. m * d <= n * d
    <3>1. n * d = m * d + (n - m) * d /\ (n - m) * d \in Nat
      OBVIOUS
    <3>. QED
      BY <3>1
  <2>. QED
    BY <2>1
<1>2. x + k \in 1 .. n * d
  <2>. HIDE DEF x
  <2>. QED
    BY <1>1
<1>3. (x + k - 1) \div d = m - 1 /\ (x + k - 1) % d = k - 1
  OBVIOUS
<1>. QED
  BY <1>2, <1>3

\* Every spot with every kind of throw, once.
LEMMA SpecsAre ==
    ASSUME NEW places \in Seq(Spots), Apart(places),
           NEW kinds \in Seq(ThrowKinds), \A i, j \in DOMAIN kinds : kinds[i] = kinds[j] => i = j
    PROVE  LET s == SpecsOf(places, kinds)
           IN  /\ \A i, j \in DOMAIN s : s[i] = s[j] => i = j
               /\ Range(s) = {[at |-> p.at, kind |-> k] : p \in Range(places), k \in Range(kinds)}
<1> DEFINE K == Len(kinds)
           M == Len(places)
           s == SpecsOf(places, kinds)
           spot(i) == ((i - 1) \div K) + 1
           throw(i) == ((i - 1) % K) + 1
<1>1. /\ K \in Nat /\ M \in Nat /\ M * K \in Nat
      /\ DOMAIN places = 1 .. M /\ DOMAIN kinds = 1 .. K
  OBVIOUS
<1>2. s = [i \in 1 .. M * K |-> [at |-> places[spot(i)].at, kind |-> kinds[throw(i)]]]
  BY DEF SpecsOf
<1>3. ASSUME NEW i \in 1 .. M * K
      PROVE  K # 0 /\ spot(i) \in 1 .. M /\ throw(i) \in 1 .. K
  <2>. HIDE DEF K, M
  <2>1. K # 0 /\ i - 1 \in Nat
    BY <1>1
  <2>. QED
    BY <1>1, <2>1, DivBound, ModBound
<1>4. ASSUME NEW i \in 1 .. M * K, NEW j \in 1 .. M * K, s[i] = s[j] PROVE i = j
  <2>1. spot(i) = spot(j) /\ throw(i) = throw(j)
    <3>1. /\ s[i].at = places[spot(i)].at /\ s[i].kind = kinds[throw(i)]
          /\ s[j].at = places[spot(j)].at /\ s[j].kind = kinds[throw(j)]
      <4>. HIDE DEF s, spot, throw, K, M
      <4>. QED
        BY <1>2
    <3>. HIDE DEF s, spot, throw, K, M
    <3>. QED
      BY <1>1, <1>3, <1>4, <3>1 DEF Apart
  <2>2. K \in Nat \ {0} /\ i - 1 \in Nat /\ j - 1 \in Nat
    <3>. HIDE DEF K, M, s, spot, throw
    <3>. QED
      BY <1>1, <1>3
  <2>. HIDE DEF K, M, s
  <2>3. (i - 1) \div K \in Int /\ (j - 1) \div K \in Int /\ (i - 1) % K \in Int /\ (j - 1) % K \in Int
    BY <2>2
  <2>4. (i - 1) \div K = (j - 1) \div K /\ (i - 1) % K = (j - 1) % K
    BY <2>1, <2>3
  <2>5. i - 1 = j - 1
    BY <2>2, <2>4, DivMod
  <2>. QED
    BY <1>1, <2>5
<1>5. ASSUME NEW m \in 1 .. M, NEW k \in 1 .. K
      PROVE  \E i \in 1 .. M * K : spot(i) = m /\ throw(i) = k
  <2>. HIDE DEF K, M, s
  <2>1. K \in Nat \ {0}
    BY <1>1
  <2> DEFINE i == (m - 1) * K + k
  <2>2. i \in 1 .. M * K /\ (i - 1) \div K = m - 1 /\ (i - 1) % K = k - 1
    BY <1>1, <2>1, RowAndColumn
  <2>3. m \in Int /\ k \in Int
    BY <1>1
  <2>. HIDE DEF i
  <2>. QED
    BY <2>2, <2>3
<1>. HIDE DEF K, M, s, spot, throw
<1>6. DOMAIN s = 1 .. M * K
  BY <1>2
<1>7. \A i \in 1 .. M * K : s[i] = [at |-> places[spot(i)].at, kind |-> kinds[throw(i)]]
  BY <1>2
<1> DEFINE all == {[at |-> p.at, kind |-> k] : p \in Range(places), k \in Range(kinds)}
<1>8. ASSUME NEW i \in 1 .. M * K PROVE s[i] \in all
  <2> DEFINE p == places[spot(i)]
             k == kinds[throw(i)]
  <2>1. p \in Range(places) /\ k \in Range(kinds)
    BY <1>1, <1>3 DEF Range
  <2>2. s[i] = [at |-> p.at, kind |-> k]
    BY <1>7
  <2>. HIDE DEF p, k
  <2>. QED
    BY <2>1, <2>2
<1>9. ASSUME NEW p \in Range(places), NEW k \in Range(kinds)
      PROVE  \E i \in 1 .. M * K : s[i] = [at |-> p.at, kind |-> k]
  <2>1. PICK m \in 1 .. M : p = places[m]
    BY <1>1 DEF Range
  <2>2. PICK n \in 1 .. K : k = kinds[n]
    BY <1>1 DEF Range
  <2>3. PICK i \in 1 .. M * K : spot(i) = m /\ throw(i) = n
    BY <1>5
  <2>. QED
    BY <1>7, <2>1, <2>2, <2>3
<1>10. Range(s) = all
  BY <1>6, <1>8, <1>9 DEF Range
<1>11. \A i, j \in DOMAIN s : s[i] = s[j] => i = j
  BY <1>4, <1>6
<1>. QED
  BY <1>10, <1>11 DEF s

-----------------------------------------------------------------------------
(* What is answered.                                                         *)

Candidate == [at : Int, kind : ThrowKinds, spread : Nat, aim : Int]

LEMMA InRange ==
    ASSUME NEW f
    PROVE  \A v : v \in Range(f) <=> \E x \in DOMAIN f : v = f[x]
BY DEF Range

LEMMA FlattenIs ==
    ASSUME NEW S, NEW ss \in Seq(Seq(S))
    PROVE  FlattenSeq(ss) \in Seq(S)
<1> DEFINE n == Len(ss)
           m == n - 1
           Body(f) == [i \in 1 .. n |-> IF i = 1 THEN ss[i] ELSE f[i - 1] \o ss[i]]
           flat == CHOOSE f : f = Body(f)
           g == [i \in 1 .. m |-> [x \in Seq(S) |-> x \o ss[i + 1]]]
<1>1. n \in Nat /\ \A i \in 1 .. n : ss[i] \in Seq(S)
  OBVIOUS
<1>2. CASE n = 0
  <2>1. ss = <<>>
    BY <1>2
  <2>. QED
    BY <1>2, <2>1 DEF FlattenSeq
<1>3. CASE n # 0
  <2>1. FlattenSeq(ss) = flat[n]
    BY <1>3 DEF FlattenSeq
  <2>2. m \in Nat /\ n = m + 1 /\ \A i \in 1 .. m : i + 1 \in 1 .. n
    BY <1>1, <1>3
  <2>. HIDE DEF n, m
  <2>3. g \in Strides(m, Seq(S))
    <3>1. ASSUME NEW i \in 1 .. m, NEW x \in Seq(S) PROVE x \o ss[i + 1] \in Seq(S)
      BY <1>1, <2>2
    <3>. QED
      BY <3>1 DEF Strides
  <2>4. ss[1] \in Seq(S)
    BY <1>1, <2>2
  <2>5. PICK f : IsWalk(m, Seq(S), ss[1], g, f)
    <3>. HIDE DEF g
    <3>. QED
      BY <2>2, <2>3, <2>4, Walk
  <2>6. /\ f \in [0 .. m -> Seq(S)] /\ f[0] = ss[1]
        /\ \A i \in 1 .. m : f[i] = g[i][f[i - 1]]
    BY <2>5 DEF IsWalk
  <2>7. ASSUME NEW i \in 1 .. m PROVE f[i] = f[i - 1] \o ss[i + 1]
    <3>1. i - 1 \in 0 .. m
      BY <2>2
    <3>2. f[i - 1] \in Seq(S)
      BY <2>6, <3>1
    <3>. QED
      BY <2>6, <3>2
  <2> DEFINE h == [i \in 1 .. n |-> f[i - 1]]
  <2>8. h = Body(h)
    <3>1. ASSUME NEW i \in 1 .. n PROVE f[i - 1] = IF i = 1 THEN ss[i] ELSE h[i - 1] \o ss[i]
      <4>1. CASE i = 1
        BY <2>6, <4>1
      <4>2. CASE i # 1
        <5>1. i - 1 \in 1 .. m /\ i - 1 \in 1 .. n /\ (i - 1) + 1 = i
          BY <2>2, <4>2
        <5>2. h[i - 1] = f[i - 1 - 1]
          BY <5>1
        <5>. QED
          BY <2>7, <4>2, <5>1, <5>2
      <4>. QED
        BY <4>1, <4>2
    <3>. QED
      BY <3>1
  <2>9. flat = Body(flat)
    <3>. HIDE DEF Body, h
    <3>. QED
      BY <2>8
  <2>10. flat[1] = ss[1] /\ \A i \in 1 .. m : flat[i + 1] = flat[i] \o ss[i + 1]
    <3>. HIDE DEF flat
    <3>1. 1 \in 1 .. n
      BY <2>2
    <3>2. ASSUME NEW i \in 1 .. m PROVE flat[i + 1] = flat[i] \o ss[i + 1]
      <4>1. i + 1 \in 1 .. n /\ i + 1 # 1 /\ (i + 1) - 1 = i
        BY <2>2
      <4>. QED
        BY <2>9, <4>1
    <3>. QED
      BY <2>9, <3>1, <3>2
  <2>. HIDE DEF flat
  <2> DEFINE T == {i \in 0 .. m : flat[i + 1] \in Seq(S)}
  <2>11. 0 \in T
    BY <2>2, <2>4, <2>10
  <2>12. ASSUME NEW i \in 1 .. m, i - 1 \in T PROVE i \in T
    <3>1. flat[i] \in Seq(S) /\ i \in 0 .. m
      BY <2>2, <2>12
    <3>2. flat[i] \o ss[i + 1] \in Seq(S)
      BY <1>1, <2>2, <3>1
    <3>. QED
      BY <2>10, <3>1, <3>2
  <2>. HIDE DEF T
  <2>13. 0 .. m \subseteq T
    BY <2>2, <2>11, <2>12, UpTo
  <2>14. m \in T
    BY <2>2, <2>13
  <2>. QED
    BY <2>1, <2>2, <2>14 DEF T
<1>. QED
  BY <1>2, <1>3

LEMMA AllAre ==
    ASSUME specs \in Seq([at : Int, kind : ThrowKinds]),
           NEW found \in [DOMAIN specs -> Seq(Find)]
    PROVE  All(found) \in Seq(Candidate)
<1> DEFINE one(i, d) == [at |-> specs[i].at, kind |-> specs[i].kind,
                         spread |-> found[i][d].spread, aim |-> found[i][d].aim]
           row(i) == [d \in DOMAIN found[i] |-> one(i, d)]
           rows == [i \in DOMAIN specs |-> row(i)]
<1>1. ASSUME NEW i \in DOMAIN specs PROVE row(i) \in Seq(Candidate)
  <2>1. specs[i] \in [at : Int, kind : ThrowKinds]
    <3>1. DOMAIN specs = 1 .. Len(specs)
      OBVIOUS
    <3>. QED
      BY <3>1, ElementOfSeq
  <2>2. found[i] \in Seq(Find)
    OBVIOUS
  <2>3. ASSUME NEW d \in DOMAIN found[i] PROVE one(i, d) \in Candidate
    <3>1. found[i][d] \in Find
      BY <2>2
    <3>2. specs[i].at \in Int /\ specs[i].kind \in ThrowKinds
      BY <2>1
    <3>3. found[i][d].spread \in Nat /\ found[i][d].aim \in Int
      BY <3>1 DEF Find
    <3>. QED
      BY <3>2, <3>3 DEF Candidate
  <2> DEFINE n == Len(found[i])
             f == row(i)
  <2>4. n \in Nat /\ DOMAIN found[i] = 1 .. n
    BY <2>2
  <2>5. f = [d \in 1 .. n |-> one(i, d)]
    BY <2>4
  <2>6. \A d \in 1 .. n : f[d] \in Candidate
    BY <2>3, <2>4, <2>5
  <2>7. f = [d \in 1 .. n |-> f[d]]
    BY <2>5
  <2>. HIDE DEF f, n
  <2>8. f \in Seq(Candidate)
    BY <2>4, <2>6, <2>7, ASeqOf
  <2>. QED
    BY <2>8 DEF f
<1>2. rows \in Seq(Seq(Candidate))
  <2>1. DOMAIN specs = 1 .. Len(specs) /\ Len(specs) \in Nat
    OBVIOUS
  <2>. HIDE DEF row
  <2>. QED
    BY <1>1, <2>1
<1>3. All(found) = FlattenSeq(rows)
  BY DEF All
<1>. QED
  BY <1>2, <1>3, FlattenIs

\* The candidates rank keeps are what one goes through them and leaves out
\* near-copies of what one has kept.
LEMMA KeptThere ==
    ASSUME NEW s, NEW n \in Nat, DOMAIN s = 1 .. n
    PROVE  \E K \in SUBSET DOMAIN s : IsKept(s, K)
<1> DEFINE Keeps(m, K) == \A i \in 1 .. m :
             i \in K <=> \A j \in K : j < i => ~NearCopies(s[j], s[i])
           T == {m \in 0 .. n : \E K \in SUBSET (1 .. m) : Keeps(m, K)}
<1>1. 0 \in T
  <2>1. {} \in SUBSET (1 .. 0) /\ Keeps(0, {})
    OBVIOUS
  <2>. HIDE DEF Keeps
  <2>. QED
    BY <2>1
<1>2. ASSUME NEW m \in 1 .. n, m - 1 \in T PROVE m \in T
  <2>1. PICK K \in SUBSET (1 .. m - 1) : Keeps(m - 1, K)
    BY <1>2
  <2>2. m \in Nat /\ \A i \in 1 .. m : i \in Int /\ i <= m /\ (i = m \/ i \in 1 .. m - 1)
    OBVIOUS
  <2>3. \A j \in K : j \in Int /\ j < m /\ j \in 1 .. m
    OBVIOUS
  <2> DEFINE alike == \E j \in K : NearCopies(s[j], s[m])
             J == IF alike THEN K ELSE K \cup {m}
  <2>4. J \in SUBSET (1 .. m)
    BY <2>2, <2>3
  <2>5. ASSUME NEW i \in 1 .. m
        PROVE  i \in J <=> \A j \in J : j < i => ~NearCopies(s[j], s[i])
    <3>1. CASE i = m
      <4>1. m \in J <=> ~alike
        BY <2>3
      <4>2. (\A j \in J : j < m => ~NearCopies(s[j], s[m])) <=> ~alike
        BY <2>2, <2>3
      <4>. QED
        BY <3>1, <4>1, <4>2
    <3>2. CASE i # m
      <4>1. i \in 1 .. m - 1 /\ i \in Int /\ i < m
        BY <2>2, <3>2
      <4>2. i \in J <=> i \in K
        BY <3>2
      <4>3. (\A j \in J : j < i => ~NearCopies(s[j], s[i]))
              <=> (\A j \in K : j < i => ~NearCopies(s[j], s[i]))
        BY <2>2, <2>3, <4>1
      <4>. QED
        BY <2>1, <4>1, <4>2, <4>3
    <3>. QED
      BY <3>1, <3>2
  <2>6. Keeps(m, J)
    BY <2>5
  <2>7. m \in 0 .. n
    OBVIOUS
  <2>. HIDE DEF Keeps, J
  <2>. QED
    BY <2>4, <2>6, <2>7
<1>. HIDE DEF T
<1>3. 0 .. n \subseteq T
  BY <1>1, <1>2, UpTo
<1>4. n \in T
  BY <1>3
<1>. QED
  BY <1>4 DEF T, IsKept

\* The first of some places, up to a limit: all, or as many as the limit.
Few(K, limit) == {i \in K : Cardinality({j \in K : j < i}) < limit}

LEMMA FirstFew ==
    ASSUME NEW S, NEW s \in Seq(S), NEW K \in SUBSET DOMAIN s, NEW limit \in Nat \ {0}
    PROVE  /\ Cardinality(Few(K, limit)) <= limit
           /\ \A m \in K \ Few(K, limit) :
                /\ Cardinality(Few(K, limit)) = limit
                /\ \A p \in Few(K, limit) : p < m
<1> DEFINE R == {x \in K \X K : x[1] < x[2]}
           Smaller(i) == {j \in K : j < i}
           n == Cardinality(K)
           P == Few(K, limit)
<1>1. /\ IsFiniteSet(K) /\ K \subseteq Nat /\ TotalOrder(K, R)
      /\ \A i \in K : Preds(K, R, i) = Smaller(i)
  BY PlacesInOrder
<1>2. \A i, j \in K : <<i, j>> \in R <=> i < j
  OBVIOUS
<1>3. P = {i \in K : Cardinality(Smaller(i)) < limit}
  BY DEF Few
<1>. HIDE DEF R, P
<1>4. /\ n \in Nat
      /\ \A m \in 0 .. n - 1 : \E i \in K : Cardinality(Preds(K, R, i)) = m
      /\ \A i, j \in K : Cardinality(Preds(K, R, i)) < Cardinality(Preds(K, R, j)) <=> <<i, j>> \in R
      /\ \A i \in K : Cardinality(Preds(K, R, i)) \in 0 .. n - 1
  BY <1>1, Ranked
<1>. HIDE DEF Smaller, n
<1>5. /\ \A m \in 0 .. n - 1 : \E i \in K : Cardinality(Smaller(i)) = m
      /\ \A i, j \in K : Cardinality(Smaller(i)) < Cardinality(Smaller(j)) <=> i < j
      /\ \A i \in K : Cardinality(Smaller(i)) \in 0 .. n - 1
  BY <1>1, <1>2, <1>4
<1>6. CASE n <= limit
  <2>1. ASSUME NEW i \in K PROVE Cardinality(Smaller(i)) < limit
    BY <1>4, <1>5, <1>6
  <2>2. P = K
    BY <1>3, <2>1
  <2>. QED
    BY <1>6, <2>2 DEF n, P
<1>7. CASE n > limit
  <2>1. limit \in 0 .. n - 1
    BY <1>4, <1>7
  <2>2. PICK x \in K : Cardinality(Smaller(x)) = limit
    BY <1>5, <2>1
  <2>3. P = Smaller(x)
    <3>1. \A i \in K : i \in P <=> i < x
      BY <1>3, <1>5, <2>2
    <3>. QED
      BY <1>3, <3>1 DEF Smaller
  <2>4. Cardinality(P) = limit
    BY <2>2, <2>3
  <2>5. ASSUME NEW m \in K \ P, NEW p \in P PROVE p < m
    <3>1. ~(m < x) /\ p < x /\ p \in K /\ m \in K
      BY <2>3, <2>5 DEF Smaller
    <3>. QED
      BY <1>1, <3>1
  <2>6. Cardinality(P) <= limit
    BY <2>4
  <2>. QED
    BY <2>4, <2>5, <2>6 DEF P
<1>. QED
  BY <1>4, <1>6, <1>7

\* What an answer of rank is worth.
Ranks(kept, all, limit) ==
    /\ Len(kept) <= limit
    /\ Range(kept) \subseteq Range(all)
    /\ \A i, j \in DOMAIN kept :
         i < j => ~Easier(kept[j], kept[i]) /\ ~NearCopies(kept[i], kept[j])
    /\ \A c \in Range(all) \ Range(kept) :
         \/ \E k \in Range(kept) : NearCopies(k, c) /\ ~Easier(c, k)
         \/ Len(kept) = limit /\ \A k \in Range(kept) : ~Easier(c, k)

LEMMA EasierFirst ==
    ASSUME NEW all \in Seq(Candidate)
    PROVE  LET R == {x \in (DOMAIN all) \X (DOMAIN all) :
                       \/ Easier(all[x[1]], all[x[2]])
                       \/ ~Easier(all[x[2]], all[x[1]]) /\ x[1] < x[2]}
           IN  /\ TotalOrder(DOMAIN all, R)
               /\ \A i, j \in DOMAIN all : <<i, j>> \in R => ~Easier(all[j], all[i])
<1> DEFINE D == DOMAIN all
           R == {x \in D \X D : \/ Easier(all[x[1]], all[x[2]])
                                \/ ~Easier(all[x[2]], all[x[1]]) /\ x[1] < x[2]}
           e(i) == all[i].spread
           p(i) == all[i].at
           a(i) == all[i].aim
<1>1. \A i \in D : i \in Nat /\ e(i) \in Int /\ p(i) \in Int /\ a(i) \in Int
  <2>1. \A i \in D : i \in Nat /\ all[i] \in Candidate
    OBVIOUS
  <2>. QED
    BY <2>1 DEF Candidate
<1>2. \A i, j \in D : <<i, j>> \in R <=> \/ Easier(all[i], all[j])
                                         \/ ~Easier(all[j], all[i]) /\ i < j
  OBVIOUS
<1>3. \A i, j \in D : Easier(all[i], all[j]) <=> \/ e(i) < e(j)
                                                 \/ e(i) = e(j) /\ p(i) < p(j)
                                                 \/ e(i) = e(j) /\ p(i) = p(j) /\ a(i) < a(j)
  BY DEF Easier
<1>. HIDE DEF D, R, e, p, a
<1>4. ASSUME NEW i \in D, NEW j \in D
      PROVE  <<i, j>> \in R <=> \/ e(i) < e(j)
                                \/ e(i) = e(j) /\ p(i) < p(j)
                                \/ e(i) = e(j) /\ p(i) = p(j) /\ a(i) < a(j)
                                \/ e(i) = e(j) /\ p(i) = p(j) /\ a(i) = a(j) /\ i < j
  <2>1. /\ i \in Nat /\ e(i) \in Int /\ p(i) \in Int /\ a(i) \in Int
        /\ j \in Nat /\ e(j) \in Int /\ p(j) \in Int /\ a(j) \in Int
    BY <1>1
  <2>2. <<i, j>> \in R <=> Easier(all[i], all[j]) \/ (~Easier(all[j], all[i]) /\ i < j)
    BY <1>2
  <2>3. Easier(all[i], all[j]) <=> \/ e(i) < e(j)
                                   \/ e(i) = e(j) /\ p(i) < p(j)
                                   \/ e(i) = e(j) /\ p(i) = p(j) /\ a(i) < a(j)
    BY <1>3
  <2>4. Easier(all[j], all[i]) <=> \/ e(j) < e(i)
                                   \/ e(j) = e(i) /\ p(j) < p(i)
                                   \/ e(j) = e(i) /\ p(j) = p(i) /\ a(j) < a(i)
    BY <1>3
  <2>. QED
    BY <2>1, <2>2, <2>3, <2>4
<1>5. TotalOrder(D, R)
  <2>1. \A i \in D : <<i, i>> \notin R
    BY <1>1, <1>4
  <2>2. ASSUME NEW i \in D, NEW j \in D, NEW k \in D, <<i, j>> \in R, <<j, k>> \in R
        PROVE  <<i, k>> \in R
    BY <1>1, <1>4, <2>2
  <2>3. \A i, j \in D : i # j => <<i, j>> \in R \/ <<j, i>> \in R
    BY <1>1, <1>4
  <2>. QED
    BY <2>1, <2>2, <2>3 DEF TotalOrder
<1>6. \A i, j \in D : <<i, j>> \in R => ~Easier(all[j], all[i])
  BY <1>1, <1>3, <1>4
<1>. QED
  BY <1>5, <1>6 DEF D, R

LEMMA RankIs ==
    ASSUME NEW all \in Seq(Candidate), NEW limit \in Nat \ {0}
    PROVE  Ranks(Rank(all, limit), all, limit)
<1> DEFINE D == DOMAIN all
           n == Len(all)
           R == {x \in D \X D : \/ Easier(all[x[1]], all[x[2]])
                                \/ ~Easier(all[x[2]], all[x[1]]) /\ x[1] < x[2]}
           s == Ordered(all, R)
           at == Place(D, R)
           K == CHOOSE J \in SUBSET D : IsKept(s, J)
           P == Few(K, limit)
           t == SubSequence(s, P)
           to == InOrder(P)
<1>1. Rank(all, limit) = t
  BY DEF Rank, Few
<1>2. /\ TotalOrder(D, R)
      /\ \A i, j \in D : <<i, j>> \in R => ~Easier(all[j], all[i])
  BY EasierFirst
<1>3. D = 1 .. n /\ n \in Nat
  OBVIOUS
<1>. HIDE DEF R, at
<1>4. Arrangement(Candidate, s, all, R, at)
  BY <1>2, OrderedIs DEF at
<1>. HIDE DEF s
<1>5. /\ s \in Seq(Candidate) /\ DOMAIN s = 1 .. n
      /\ at \in [1 .. n -> 1 .. n]
      /\ \A k \in 1 .. n : s[k] = all[at[k]]
      /\ \A k, l \in 1 .. n : k < l => <<at[k], at[l]>> \in R
      /\ \A i \in 1 .. n : \E k \in 1 .. n : at[k] = i
  BY <1>3, <1>4 DEF Arrangement
<1>6. \A k, l \in 1 .. n : k < l => ~Easier(s[l], s[k])
  <2>1. ASSUME NEW k \in 1 .. n, NEW l \in 1 .. n, k < l PROVE ~Easier(s[l], s[k])
    <3>1. at[k] \in D /\ at[l] \in D /\ <<at[k], at[l]>> \in R
      BY <1>3, <1>5, <2>1
    <3>. QED
      BY <1>2, <1>5, <3>1
  <2>. QED
    BY <2>1
<1>7. Range(s) = Range(all)
  <2>1. ASSUME NEW k \in 1 .. n PROVE s[k] \in Range(all)
    BY <1>3, <1>5, InRange DEF D
  <2>2. ASSUME NEW i \in 1 .. n PROVE all[i] \in Range(s)
    <3>1. PICK k \in 1 .. n : at[k] = i
      BY <1>5
    <3>. QED
      BY <1>5, <3>1, InRange
  <2>3. Range(s) \subseteq Range(all)
    BY <1>5, <2>1, InRange
  <2>4. Range(all) \subseteq Range(s)
    BY <1>3, <2>2, InRange DEF D
  <2>. QED
    BY <2>3, <2>4
<1>8. K \in SUBSET DOMAIN s /\ IsKept(s, K)
  <2>1. \E J \in SUBSET DOMAIN s : IsKept(s, J)
    BY <1>3, <1>5, KeptThere
  <2>2. DOMAIN s = D
    BY <1>3, <1>5
  <2>. HIDE DEF D
  <2>. QED
    BY <2>1, <2>2
<1>. HIDE DEF K, D, n
<1>9. /\ K \subseteq 1 .. n
      /\ \A i \in 1 .. n : i \in K <=> \A j \in K : j < i => ~NearCopies(s[j], s[i])
  BY <1>5, <1>8 DEF IsKept
<1>10. /\ Cardinality(P) <= limit
       /\ \A m \in K \ P : Cardinality(P) = limit /\ \A p \in P : p < m
  BY <1>5, <1>8, FirstFew
<1>11. P \subseteq K
  BY DEF Few
<1>. HIDE DEF P
<1>12. Selection(Candidate, t, s, P, to)
  <2>1. P \in SUBSET DOMAIN s
    BY <1>8, <1>11
  <2>. QED
    BY <1>5, <2>1, SubSequenceIs
<1>. HIDE DEF t, to
<1> DEFINE c == Cardinality(P)
<1>13. /\ c \in Nat /\ Len(t) = c /\ DOMAIN t = 1 .. c
       /\ to \in [1 .. c -> P]
       /\ \A k \in 1 .. c : t[k] = s[to[k]]
       /\ \A k, l \in 1 .. c : k < l => to[k] < to[l]
       /\ \A i \in P : \E k \in 1 .. c : to[k] = i
  BY <1>12 DEF Selection
<1>. HIDE DEF c
<1>14. P \subseteq 1 .. n
  BY <1>9, <1>11
<1>15. \A v : v \in Range(t) <=> \E p \in P : v = s[p]
  <2>1. \A k \in 1 .. c : t[k] = s[to[k]] /\ to[k] \in P
    BY <1>13
  <2>2. \A p \in P : \E k \in 1 .. c : s[p] = t[k]
    BY <1>13
  <2>. QED
    BY <1>13, <2>1, <2>2, InRange
<1>16. \A v : v \in Range(s) <=> \E m \in 1 .. n : v = s[m]
  <2>1. DOMAIN s = 1 .. n
    BY <1>5
  <2>. QED
    BY <2>1 DEF Range
<1>17. Range(t) \subseteq Range(all)
  BY <1>7, <1>14, <1>15, <1>16
<1>18. ASSUME NEW i \in DOMAIN t, NEW j \in DOMAIN t, i < j
       PROVE  ~Easier(t[j], t[i]) /\ ~NearCopies(t[i], t[j])
  <2>1. /\ to[i] \in P /\ to[j] \in P /\ to[i] < to[j]
        /\ t[i] = s[to[i]] /\ t[j] = s[to[j]]
    BY <1>13, <1>18
  <2>2. to[i] \in 1 .. n /\ to[j] \in 1 .. n /\ to[i] \in K /\ to[j] \in K
    BY <1>11, <1>14, <2>1
  <2>. QED
    BY <1>6, <1>9, <2>1, <2>2
<1>19. ASSUME NEW m \in K \ P, NEW l \in 1 .. n, m <= l
       PROVE  Len(t) = limit /\ \A k \in Range(t) : ~Easier(s[l], k)
  <2>1. ASSUME NEW p \in P PROVE ~Easier(s[l], s[p])
    <3>1. p < m /\ p \in 1 .. n /\ m \in 1 .. n
      BY <1>9, <1>10, <1>14
    <3>2. p < l
      BY <1>3, <1>19, <3>1
    <3>. QED
      BY <1>6, <3>1, <3>2
  <2>. QED
    BY <1>10, <1>13, <1>15, <1>19, <2>1 DEF c
<1>20. ASSUME NEW v \in Range(all) \ Range(t)
       PROVE  \/ \E k \in Range(t) : NearCopies(k, v) /\ ~Easier(v, k)
              \/ Len(t) = limit /\ \A k \in Range(t) : ~Easier(v, k)
  <2>1. PICK m \in 1 .. n : v = s[m]
    BY <1>7, <1>16
  <2>2. m \notin P
    BY <1>15, <2>1
  <2>3. CASE m \in K
    BY <1>3, <1>19, <2>1, <2>2, <2>3
  <2>4. CASE m \notin K
    <3>1. PICK j \in K : j < m /\ NearCopies(s[j], s[m])
      BY <1>9, <2>4
    <3>2. j \in 1 .. n /\ ~Easier(s[m], s[j])
      BY <1>6, <1>9, <3>1
    <3>3. CASE j \in P
      BY <1>15, <2>1, <3>1, <3>2, <3>3
    <3>4. CASE j \notin P
      <4>1. j <= m
        BY <1>3, <3>1, <3>2
      <4>. QED
        BY <1>19, <2>1, <3>4, <4>1
    <3>. QED
      BY <3>3, <3>4
  <2>. QED
    BY <2>3, <2>4
<1>21. Len(t) <= limit
  BY <1>10, <1>13 DEF c
<1>. QED
  BY <1>1, <1>17, <1>18, <1>20, <1>21 DEF Ranks

-----------------------------------------------------------------------------
(* A request has been taken up as it is, its target is on the floor near it, *)
(* and what is found is found for its specs.                                 *)
TakenUp ==
    /\ query \in Requests
    /\ stands = NearestFirst(query)
    /\ specs = SpecsOf(stands, Once(query.asked))
    /\ handler = "refused" /\ query.meshed /\ query.valid =>
         query.snap /\ FloorNear(query.column, query.guess) = {}
    /\ handler \in {"feed", "join", "answered"} /\ query.snap =>
         aimedAt \in FloorNear(query.column, query.guess)

FindsInv == finds \in [DOMAIN specs -> Seq(Find)]

LEMMA TakenUpAre ==
    ASSUME TakenUp
    PROVE  /\ stands \in Seq(Spots) /\ Apart(stands)
           /\ Range(stands) \subseteq Standing(query)
           /\ Cardinality(Standing(query)) <= MaxStands => Range(stands) = Standing(query)
           /\ specs \in Seq([at : Int, kind : ThrowKinds])
           /\ \A i, j \in DOMAIN specs : specs[i] = specs[j] => i = j
           /\ Range(specs) = {[at |-> p.at, kind |-> k] :
                                p \in Range(stands), k \in Range(query.asked)}
           /\ \A i \in DOMAIN specs : ThrowsOf(specs[i]) \in Seq(Find)
<1> DEFINE kinds == Once(query.asked)
<1>1. query \in Requests /\ stands = NearestFirst(query) /\ specs = SpecsOf(stands, kinds)
  BY DEF TakenUp
<1>2. query.target \in Int /\ query.asked \in Seq(ThrowKinds)
  BY <1>1, RequestIs
<1>3. stands \in Seq(Spots) /\ Nearing(stands, query.target)
  BY <1>1, NearestFirstSorts
<1>4. /\ Apart(stands) /\ Range(stands) \subseteq Standing(query)
      /\ Cardinality(Standing(query)) <= MaxStands => Range(stands) = Standing(query)
  BY <1>1, NearestFirstAre, StandsAre
<1>5. /\ kinds \in Seq(ThrowKinds) /\ Range(kinds) = Range(query.asked)
      /\ \A i, j \in DOMAIN kinds : kinds[i] = kinds[j] => i = j
  BY <1>2, OnceIs
<1>. HIDE DEF kinds
<1>6. specs \in Seq([at : Int, kind : ThrowKinds])
  BY <1>1, <1>2, <1>3, <1>5, SpecsInOrder
<1>7. /\ \A i, j \in DOMAIN specs : specs[i] = specs[j] => i = j
      /\ Range(specs) = {[at |-> p.at, kind |-> k] : p \in Range(stands), k \in Range(kinds)}
  BY <1>1, <1>3, <1>4, <1>5, SpecsAre
<1>8. ASSUME NEW i \in DOMAIN specs PROVE ThrowsOf(specs[i]) \in Seq(Find)
  <2>1. specs[i] \in Range(specs)
    BY DEF Range
  <2>2. PICK p \in Range(stands), k \in Range(kinds) : specs[i] = [at |-> p.at, kind |-> k]
    BY <1>7, <2>1
  <2>3. p \in Range(query.spots) /\ k \in ThrowKinds
    BY <1>2, <1>4, <1>5, <2>2 DEF Standing, Range
  <2>4. query.throws[p.at, k] \in Seq(Find)
    BY <1>1, <2>3, RequestIs
  <2>5. specs[i].at = p.at /\ specs[i].kind = k
    BY <2>2
  <2>. QED
    BY <2>4, <2>5 DEF ThrowsOf
<1>. QED
  BY <1>3, <1>4, <1>5, <1>6, <1>7, <1>8

LEMMA TakenUpInit == SearchInit => TakenUp /\ FindsInv
<1>. SUFFICES ASSUME SearchInit PROVE TakenUp /\ FindsInv
  OBVIOUS
<1>1. TakenUp
  BY DEF SearchInit, TakenUp
<1>2. finds = [i \in DOMAIN specs |-> <<>>]
  BY DEF SearchInit
<1>. QED
  BY <1>1, <1>2 DEF FindsInv

LEMMA TakenUpStep == TakenUp /\ FindsInv /\ [SearchNext]_searchVars => TakenUp' /\ FindsInv'
<1>. SUFFICES ASSUME TakenUp, FindsInv, [SearchNext]_searchVars PROVE TakenUp' /\ FindsInv'
  OBVIOUS
<1>1. CASE BeginSearch
  <2>1. /\ UNCHANGED <<query, stands, specs, finds>>
        /\ handler' \in {"refused", "feed"}
        /\ handler' = "refused" => ~query.meshed \/ ~query.valid
                       \/ (query.snap /\ FloorNear(query.column, query.guess) = {})
        /\ handler' = "feed" /\ query.snap => aimedAt' \in FloorNear(query.column, query.guess)
    BY <1>1 DEF BeginSearch
  <2>2. TakenUp'
    BY <2>1 DEF TakenUp
  <2>. QED
    BY <2>1, <2>2 DEF FindsInv
<1>2. ASSUME UNCHANGED <<query, aimedAt, stands, specs>>,
             \/ UNCHANGED handler
             \/ handler \in {"feed", "join"} /\ handler' \in {"join", "answered"}
      PROVE  TakenUp'
  BY <1>2 DEF TakenUp
<1>3. ASSUME NEW w \in Searchers, SeekerStep(w) PROVE TakenUp' /\ FindsInv'
  <2>1. UNCHANGED <<query, aimedAt, stands, specs, handler>>
    BY <1>3 DEF SeekerStep, FeedJob, Sweep, Refine, Mark, Leave, setup
  <2>2. TakenUp'
    BY <1>2, <2>1
  <2>3. CASE UNCHANGED finds
    BY <2>1, <2>2, <2>3 DEF FindsInv
  <2>4. CASE Sweep(w)
    <3>1. \/ UNCHANGED finds
          \/ finds' = [finds EXCEPT ![job[w]] = <<>>]
      BY <2>4 DEF Sweep
    <3>2. <<>> \in Seq(Find)
      OBVIOUS
    <3>. QED
      BY <2>1, <2>2, <2>3, <3>1, <3>2 DEF FindsInv
  <2>5. CASE Refine(w)
    <3>1. PICK found \in IF expired THEN RoughFinds ELSE {ThrowsOf(specs[job[w]])} :
            finds' = [finds EXCEPT ![job[w]] = found]
      BY <2>5 DEF Refine
    <3>2. job[w] \in DOMAIN specs => found \in Seq(Find)
      BY TakenUpAre, RoughAssumption, <3>1
    <3>3. finds' \in [DOMAIN specs -> Seq(Find)]
      BY <3>1, <3>2 DEF FindsInv
    <3>. QED
      BY <2>1, <2>2, <3>3 DEF FindsInv
  <2>. QED
    BY <1>3, <2>2, <2>3, <2>4, <2>5 DEF SeekerStep, FeedJob, Mark, Leave
<1>4. CASE CloseJobs \/ JoinSearch \/ Expire
  <2>1. /\ UNCHANGED <<query, aimedAt, stands, specs, finds>>
        /\ \/ UNCHANGED handler
           \/ handler \in {"feed", "join"} /\ handler' \in {"join", "answered"}
    BY <1>4 DEF CloseJobs, JoinSearch, Expire, setup
  <2>. QED
    BY <1>2, <2>1 DEF FindsInv
<1>5. CASE UNCHANGED searchVars
  BY <1>5 DEF searchVars, setup, TakenUp, FindsInv
<1>. QED
  BY <1>1, <1>3, <1>4, <1>5 DEF SearchNext, SearchStep

LEMMA FloorsHold == TakenUp => FloorsAreWalkable
<1>. SUFFICES ASSUME TakenUp PROVE FloorsAreWalkable
  OBVIOUS
<1>1. query \in Requests
  BY DEF TakenUp
<1>2. ASSUME query.snap, ~Deceptive(query.column, query.guess + SnapReach)
      PROVE  LET floors == WalkableNear(query.column, query.guess)
             IN  /\ handler = "answered" => aimedAt \in floors
                 /\ Cardinality(FacesOf(query.column)) <= MaxFaces =>
                      /\ handler = "refused" /\ query.meshed /\ query.valid => floors = {}
                      /\ handler = "answered" => \A z \in floors :
                            Distance(aimedAt, query.guess) <= Distance(z, query.guess)
  <2>1. IsMap(query.column) /\ query.guess \in Int
    BY <1>1, RequestIs
  <2>2. /\ FloorNear(query.column, query.guess) \subseteq WalkableNear(query.column, query.guess)
        /\ Cardinality(FacesOf(query.column)) <= MaxFaces =>
             /\ FloorNear(query.column, query.guess) = {} => WalkableNear(query.column, query.guess) = {}
             /\ \A z \in FloorNear(query.column, query.guess) :
                  \A y \in WalkableNear(query.column, query.guess) :
                     Distance(z, query.guess) <= Distance(y, query.guess)
    BY <1>2, <2>1, FloorNearIs
  <2>. QED
    BY <1>2, <2>2 DEF TakenUp
<1>3. ASSUME NEW i \in DOMAIN stands,
             \A c \in Range(stands[i].columns) : ~Deceptive(c, query.high + PlayerHeight)
      PROVE  \E z \in FeetAt(stands[i].columns, query.low, query.high, query.snap) :
               /\ query.low - Slack <= z /\ z <= query.high + Slack
               /\ \E c \in Range(stands[i].columns) : z \in Walkable(c)
  <2> DEFINE p == stands[i]
  <2>1. p \in Standing(query) /\ p \in Range(query.spots)
    <3>1. p \in Range(stands)
      BY InRange
    <3>2. p \in Standing(query)
      BY <3>1, TakenUpAre
    <3>. QED
      BY <3>2 DEF Standing
  <2>2. PICK z \in FeetAt(p.columns, query.low, query.high, query.snap) : TRUE
    BY <2>1 DEF Standing, Stood
  <2>3. /\ \A c \in Range(p.columns) : IsMap(c)
        /\ query.low \in Int /\ query.high \in Int /\ query.snap \in BOOLEAN
    BY <1>1, <2>1, RequestIs
  <2>4. \A c \in Range(p.columns) : ~Deceptive(c, query.high + PlayerHeight)
    BY <1>3
  <2>. HIDE DEF p
  <2>5. /\ query.low - Slack <= z /\ z <= query.high + Slack
        /\ \E c \in Range(p.columns) : z \in Walkable(c)
    BY <2>2, <2>3, <2>4, FeetAreWalkable
  <2>. QED
    BY <2>2, <2>5 DEF p
<1>. QED
  BY <1>2, <1>3 DEF FloorsAreWalkable

LEMMA SpecsHold == TakenUp => SpecsAreTheRequest
<1>. SUFFICES ASSUME TakenUp PROVE SpecsAreTheRequest
  OBVIOUS
<1> DEFINE standing == {p \in Range(query.spots) :
                          /\ ~p.walled
                          /\ \E z \in FeetAt(p.columns, query.low, query.high, query.snap) :
                                 Headroom(Head(p.columns), z)}
           pairs == {[at |-> p.at, kind |-> k] : p \in standing, k \in Range(query.asked)}
<1>1. standing = Standing(query)
  BY DEF Standing, Stood
<1>. HIDE DEF standing
<1>2. IsInjective(specs)
  BY TakenUpAre DEF IsInjective
<1>3. Range(specs) \subseteq pairs
  BY <1>1, TakenUpAre
<1>4. ASSUME Cardinality(standing) <= MaxStands PROVE Range(specs) = pairs
  BY <1>1, <1>4, TakenUpAre
<1>. QED
  BY <1>2, <1>3, <1>4 DEF SpecsAreTheRequest, standing

LEMMA RanksHold == TakenUp /\ FindsInv => RankKeepsTheEasiest
<1>. SUFFICES ASSUME TakenUp, FindsInv PROVE RankKeepsTheEasiest
  OBVIOUS
<1>1. All(finds) \in Seq(Candidate)
  BY TakenUpAre, AllAre DEF FindsInv
<1>2. query.limit \in Nat \ {0}
  BY RequestIs DEF TakenUp
<1>3. Ranks(Response.candidates, All(finds), query.limit)
  BY <1>1, <1>2, RankIs DEF Response
<1>. QED
  BY <1>3 DEF Ranks, RankKeepsTheEasiest

\* The answer to a request is to that request: it is aimed at a floor that is
\* there, thrown from spots that can be stood on, each with each kind of throw,
\* and has the easiest of what was found.
THEOREM AnswersTheRequest == SearchSpec => []AnswerIsToTheRequest
<1>1. TakenUp /\ FindsInv => AnswerIsToTheRequest
  BY FloorsHold, SpecsHold, RanksHold DEF AnswerIsToTheRequest
<1>. QED
  BY <1>1, TakenUpInit, TakenUpStep, PTL DEF SearchSpec

-----------------------------------------------------------------------------
(* SmokeSim. *)

-----------------------------------------------------------------------------
(* The grid.                                                                 *)

\* A set of numbers that is not empty has a least.
LEMMA LeastOf ==
    ASSUME NEW S \in SUBSET Nat, S # {}
    PROVE  Min(S) \in S
BY HasLeast DEF Min

LEMMA VoxelsAreNumbers == Voxels \subseteq Nat
BY DEF Voxels

\* A place in the grid is a voxel's.
LEMMA PlaceIsVoxel ==
    ASSUME NEW at, InGrid(at)
    PROVE  Interleave3(at) \in Voxels
<1>1. at[1] \in Coordinates /\ at[2] \in Coordinates /\ at[3] \in Coordinates
  BY DEF InGrid
<1>2. Interleave3(at) = Interleave3(<<at[1], at[2], at[3]>>)
  BY DEF Interleave3
<1> QED
  BY <1>1, <1>2, MortonAssumption

LEMMA SideIsVoxel ==
    ASSUME NEW m, NEW k, HasSide(m, k)
    PROVE  Beside(m, k) \in Voxels
BY PlaceIsVoxel DEF HasSide, Beside

LEMMA AroundIsVoxels == \A at : Around(at) \subseteq Voxels
BY PlaceIsVoxel DEF Around

-----------------------------------------------------------------------------
(* What a simulation is made of.                                             *)

Densities == [Buffers -> [Voxels -> Int]]
Flows     == [Buffers -> [Voxels -> Int \X Int]]

Simulations ==
    [solid : SUBSET Voxels, frames : Seq(Seq(Emitters)), step : Nat,
     emitters : Seq(Emitters), pass : {"rest", "emit", "flow"}, turn : Nat \ {0},
     most : Int, cur : Buffers, reached : [Buffers -> SUBSET Voxels],
     density : Densities, flow : Flows]

LEMMA Constants ==
    /\ {GridDim, EmitRate, BurstRate, FullDensity, EmitterSlots} \subseteq Nat \ {0}
    /\ {WakeDensity, Loss, NearEmitter} \subseteq Nat
BY SmokeAssumption

LEMMA BuffersAre ==
    ASSUME NEW s \in Simulations
    PROVE  /\ s.cur \in Buffers /\ Other(s) \in Buffers /\ Other(s) # s.cur
           /\ \A b \in Buffers : b = s.cur \/ b = Other(s)
BY DEF Simulations, Other, Buffers

\* What a full voxel may take from an empty one is nothing.
LEMMA TakeType ==
    ASSUME NEW s \in Simulations, NEW m \in Voxels, NEW k \in 1 .. 6
    PROVE  /\ Take(s, m, k) \in Int
           /\ s.density[s.cur][Beside(m, k)] = 0 => Take(s, m, k) = 0
<1> DEFINE n == Beside(m, k)
           pull == Pull(k, s.flow[s.cur][n])
           room == FullDensity - Unit(s.density[Other(s)][m])
           d == s.density[s.cur][n]
<1>1. CASE k \in OpenSides(s, m)
  <2>1. n \in Voxels
    BY <1>1, SideIsVoxel DEF OpenSides
  <2>2. d \in Int
    BY <2>1, BuffersAre DEF Simulations, Densities
  <2>3. room \in Int
    <3>1. s.density[Other(s)][m] \in Int
      <4>1. s.density \in Densities
        BY DEF Simulations
      <4> QED
        BY <4>1, BuffersAre DEF Densities
    <3> QED
      BY <3>1, Constants DEF Unit
  <2>4. pull \in Int
    BY DEF Pull, PullBelow, PullAbove, PullToward, PullAside
  <2>5. Take(s, m, k) = (room * pull * d) \div (600 * FullDensity)
    BY <1>1 DEF Take
  <2>6. 600 * FullDensity \in Nat \ {0}
    BY Constants
  <2>7. room * pull \in Int
    BY <2>3, <2>4
  <2>8. \A a, x \in Int, f \in Nat \ {0} :
           (a * x) \div f \in Int /\ (x = 0 => (a * x) \div f = 0)
    OBVIOUS
  <2> HIDE DEF d, room, pull
  <2> QED
    BY <2>2, <2>5, <2>6, <2>7, <2>8 DEF d, n
<1>2. CASE k \notin OpenSides(s, m)
  BY <1>2 DEF Take
<1> QED
  BY <1>1, <1>2

LEMMA TakenType ==
    ASSUME NEW s \in Simulations, NEW m \in Voxels
    PROVE  Taken(s, m) \in Int
<1>1. \A k \in 1 .. 6 : Take(s, m, k) \in Int
  BY TakeType
<1> QED
  BY <1>1 DEF Taken

\* What a buffer says of a voxel.
LEMMA CellType ==
    ASSUME NEW s \in Simulations, NEW b \in Buffers, NEW v \in Voxels
    PROVE  s.density[b][v] \in Int /\ s.flow[b][v] \in Int \X Int
<1>1. s.density \in Densities /\ s.flow \in Flows
  BY DEF Simulations
<1> QED
  BY <1>1 DEF Densities, Flows

LEMMA KeptType ==
    ASSUME NEW s \in Simulations, NEW m \in Voxels
    PROVE  Kept(s, m) \in Int /\ (m \in s.solid => Kept(s, m) = 0)
<1> DEFINE d == s.density[Other(s)][m]
<1>1. d \in Int
  BY BuffersAre, CellType
<1>2. (d * EdgeKeep) \div 100 \in Int
  BY <1>1 DEF EdgeKeep
<1>3. NotBelow0(d + Taken(s, m) - Loss) \in Int
  BY <1>1, TakenType, Constants DEF NotBelow0
<1> QED
  BY <1>2, <1>3 DEF Kept

LEMMA GradientType ==
    ASSUME NEW s \in Simulations, NEW m \in Voxels
    PROVE  Gradient(s, m) \in Int \X Int
<1> DEFINE side(k) == s.density[s.cur][Beside(m, k)]
           across(k) == IF {k, k + 1} \subseteq OpenSides(s, m) THEN side(k) - side(k + 1) ELSE 0
<1>1. ASSUME NEW k \in OpenSides(s, m) PROVE side(k) \in Int
  BY SideIsVoxel, BuffersAre, CellType DEF OpenSides
<1>2. \A k : across(k) \in Int
  BY <1>1
<1>3. Gradient(s, m) = <<across(1), across(3)>>
  BY DEF Gradient
<1> HIDE DEF across
<1> QED
  BY <1>2, <1>3

\* A voxel gives what is taken from it, which is nothing if it is empty.
LEMMA GivingType ==
    ASSUME NEW s \in Simulations, NEW m \in Voxels, NEW v \in Voxels,
           NEW i \in OpenSides(s, m), Beside(m, i) = v
    PROVE  /\ LeftBeside(s, m, v) \in Int
           /\ s.density[s.cur][v] = 0 /\ s.density[Other(s)][v] = 0 => LeftBeside(s, m, v) = 0
<1> DEFINE k == CHOOSE j \in OpenSides(s, m) : Beside(m, j) = v
<1>1. k \in OpenSides(s, m) /\ Beside(m, k) = v
  OBVIOUS
<1>2. k \in 1 .. 6
  BY <1>1 DEF OpenSides
<1>3. /\ Take(s, m, k) \in Int
      /\ s.density[s.cur][v] = 0 => Take(s, m, k) = 0
  BY <1>1, <1>2, TakeType
<1>4. s.density[Other(s)][v] \in Int
  BY BuffersAre, CellType
<1>5. LeftBeside(s, m, v) = NotBelow0(s.density[Other(s)][v] - Take(s, m, k))
  BY DEF LeftBeside
<1> HIDE DEF k
<1> QED
  BY <1>3, <1>4, <1>5 DEF NotBelow0

LEMMA WakesAre ==
    ASSUME NEW s \in Simulations, NEW m \in Voxels
    PROVE  Wakes(s, m) \subseteq Voxels \ s.reached[s.cur]
BY SideIsVoxel DEF Wakes, OpenSides

\* The sides of a voxel that its visit changes.
Sides(s, m) == IF m \in s.solid THEN {} ELSE {Beside(m, k) : k \in OpenSides(s, m)}

\* The density of the buffer that is written, after a visit.
Passed(s, m) == [v \in Voxels |-> IF v = m THEN Kept(s, m)
                                  ELSE IF v \in Sides(s, m) THEN LeftBeside(s, m, v)
                                  ELSE s.density[Other(s)][v]]

LEMMA PassedIs ==
    ASSUME NEW s \in Simulations, NEW m \in Voxels
    PROVE  /\ Passed(s, m) \in [Voxels -> Int]
           /\ m \in s.solid => Passed(s, m)[m] = 0
           /\ \A v \in Voxels \ {m} :
                /\ s.density[s.cur][v] = 0 /\ s.density[Other(s)][v] = 0 => Passed(s, m)[v] = 0
                /\ v \in s.solid => Passed(s, m)[v] = s.density[Other(s)][v]
<1>1. Kept(s, m) \in Int /\ (m \in s.solid => Kept(s, m) = 0)
  BY KeptType
<1>2. ASSUME NEW v \in Voxels, v \in Sides(s, m)
      PROVE  /\ LeftBeside(s, m, v) \in Int
             /\ s.density[s.cur][v] = 0 /\ s.density[Other(s)][v] = 0 => LeftBeside(s, m, v) = 0
             /\ v \notin s.solid
  <2>1. PICK i \in OpenSides(s, m) : Beside(m, i) = v
    BY <1>2 DEF Sides
  <2> QED
    BY <2>1, GivingType DEF OpenSides
<1>3. \A v \in Voxels : s.density[Other(s)][v] \in Int
  BY BuffersAre, CellType
<1> QED
  BY <1>1, <1>2, <1>3 DEF Passed

\* A visit: what it leaves alone, and what it does to the buffer it writes.
LEMMA FlowedIs ==
    ASSUME NEW s \in Simulations, NEW m \in Voxels, NEW f, f = Flowed(s, m)
    PROVE  /\ f \in Simulations
           /\ f.solid = s.solid /\ f.step = s.step /\ f.pass = s.pass /\ f.cur = s.cur
           /\ f.reached = [s.reached EXCEPT ![Other(s)] = @ \cup Wakes(s, m)]
           /\ f.density = [s.density EXCEPT ![Other(s)] = Passed(s, m)]
           /\ f.flow[s.cur] = s.flow[s.cur]
           /\ \A v \in Voxels \ {m} : f.flow[Other(s)][v] = s.flow[Other(s)][v]
<1> DEFINE o == Other(s)
           gradient == IF m \in s.solid \/ AtEdge(m) THEN s.flow[o][m] ELSE Gradient(s, m)
           density == [s.density EXCEPT ![o] = Passed(s, m)]
           flow == [s.flow EXCEPT ![o] = [s.flow[o] EXCEPT ![m] = gradient]]
           reached == [s.reached EXCEPT ![o] = s.reached[o] \cup Wakes(s, m)]
<1>1. f = [s EXCEPT !.density = density, !.flow = flow, !.reached = reached]
  BY DEF Flowed, Passed, Sides
<1>2. density \in Densities
  BY BuffersAre, PassedIs DEF Simulations, Densities
<1>3. flow \in Flows
  <2>1. s.flow \in Flows
    BY DEF Simulations
  <2>2. gradient \in Int \X Int
    BY BuffersAre, CellType, GradientType
  <2> HIDE DEF gradient
  <2> QED
    BY <2>1, <2>2, BuffersAre DEF Flows
<1>4. reached \in [Buffers -> SUBSET Voxels]
  BY BuffersAre, WakesAre DEF Simulations
<1>5. /\ flow[s.cur] = s.flow[s.cur]
      /\ \A v \in Voxels \ {m} : flow[o][v] = s.flow[o][v]
  <2>1. s.flow \in Flows
    BY DEF Simulations
  <2> HIDE DEF gradient
  <2> QED
    BY <2>1, BuffersAre DEF Flows
<1> HIDE DEF density, flow, reached
<1>6. f \in Simulations
  BY <1>1, <1>2, <1>3, <1>4 DEF Simulations
<1>7. /\ f.solid = s.solid /\ f.step = s.step /\ f.pass = s.pass /\ f.cur = s.cur
      /\ f.reached = reached /\ f.density = density /\ f.flow = flow
  BY <1>1 DEF Simulations
<1> QED
  BY <1>5, <1>6, <1>7 DEF density, reached

-----------------------------------------------------------------------------
(* An emitter's turn.                                                        *)

LEMMA EmitterType ==
    ASSUME NEW s \in Simulations, s.turn <= Len(s.emitters)
    PROVE  s.turn \in DOMAIN s.emitters /\ s.emitters[s.turn] \in Emitters
<1>1. s.turn \in Nat \ {0} /\ s.emitters \in Seq(Emitters)
  BY DEF Simulations
<1> QED
  BY <1>1

LEMMA ReachesAre ==
    ASSUME NEW s \in Simulations
    PROVE  Reaches(s) \subseteq Voxels
BY PlaceIsVoxel, AroundIsVoxels DEF Reaches, Fresh

BuffersAlike(s) == s.density[0] = s.density[1] /\ s.flow[0] = s.flow[1]

\* What burst and emit leave alone, in f.
LeavesAlone(s, f) ==
    /\ f \in Simulations
    /\ f.solid = s.solid /\ f.step = s.step /\ f.pass = s.pass /\ f.cur = s.cur
    /\ f.turn = s.turn /\ f.reached = s.reached
    /\ \A b \in Buffers, v \in Voxels \ Reaches(s) :
         f.density[b][v] = s.density[b][v] /\ f.flow[b][v] = s.flow[b][v]
    /\ BuffersAlike(s) => BuffersAlike(f)

LEMMA BurstIs ==
    ASSUME NEW s \in Simulations, NEW f, f = Burst(s)
    PROVE  LeavesAlone(s, f)
<1> DEFINE filled == Reaches(s) \cap Fresh(s)
           fill(b) == [v \in Voxels |-> IF v \in filled THEN BurstRate + s.density[s.cur][v]
                                        ELSE s.density[b][v]]
           density == [b \in Buffers |-> fill(b)]
<1>1. f = [s EXCEPT !.density = density]
  BY DEF Burst
<1>2. density \in Densities
  <2>1. ASSUME NEW b \in Buffers, NEW v \in Voxels
        PROVE  s.density[b][v] \in Int /\ BurstRate + s.density[s.cur][v] \in Int
    BY CellType, BuffersAre, Constants
  <2>2. \A b \in Buffers : fill(b) \in [Voxels -> Int]
    BY <2>1
  <2> HIDE DEF fill
  <2> QED
    BY <2>2 DEF Densities
<1>3. \A b \in Buffers, v \in Voxels \ Reaches(s) : density[b][v] = s.density[b][v]
  OBVIOUS
<1>4. s.density[0] = s.density[1] => density[0] = density[1]
  BY DEF Buffers
<1> HIDE DEF density
<1>5. f \in Simulations
  BY <1>1, <1>2 DEF Simulations
<1>6. /\ f.solid = s.solid /\ f.step = s.step /\ f.pass = s.pass /\ f.cur = s.cur
      /\ f.turn = s.turn /\ f.reached = s.reached /\ f.flow = s.flow /\ f.density = density
  BY <1>1 DEF Simulations
<1> QED
  BY <1>3, <1>4, <1>5, <1>6 DEF LeavesAlone, BuffersAlike

LEMMA HoldType ==
    ASSUME NEW s \in Simulations, NEW e \in Emitters
    PROVE  HoldAndShare(s, e)[1] \in Int /\ HoldAndShare(s, e)[2] \in Int
<1>1. e.hold \in Int
  BY DEF Emitters
<1>2. (e.hold * 8) \div 10 \in Int
  BY <1>1
<1> QED
  BY <1>1, <1>2 DEF HoldAndShare

LEMMA EmissionIs ==
    ASSUME NEW s \in Simulations, s.turn <= Len(s.emitters), s.step # 0,
           NEW f, f = Emission(s)
    PROVE  LeavesAlone(s, f)
<1> DEFINE e == s.emitters[s.turn]
           m == Interleave3(e.at)
           given == HoldAndShare(s, e)
           full == (given[2] * EmitRate) \div 100 + s.density[s.cur][m]
           capped == IF full > s.most THEN s.most ELSE full
           held == [e EXCEPT !.hold = given[1]]
           emitters == [s.emitters EXCEPT ![s.turn] = held]
           density == [b \in Buffers |-> [s.density[b] EXCEPT ![m] = capped]]
           o == Other(s)
           flow == [s.flow EXCEPT ![o] = [s.flow[o] EXCEPT ![m] = s.flow[s.cur][m]]]
<1>1. CASE ~InGrid(e.at)
  BY <1>1 DEF Emission, LeavesAlone
<1>2. CASE InGrid(e.at)
  <2>1. m \in Voxels /\ Reaches(s) = {m}
    BY <1>2, PlaceIsVoxel DEF Reaches
  <2>2. f = [s EXCEPT !.emitters = emitters, !.density = density, !.flow = flow]
    BY <1>2 DEF Emission
  <2>3. e \in Emitters /\ s.turn \in DOMAIN s.emitters
    BY EmitterType
  <2>4. given[1] \in Int /\ given[2] \in Int
    BY <2>3, HoldType
  <2>5. emitters \in Seq(Emitters)
    <3>1. s.emitters \in Seq(Emitters)
      BY DEF Simulations
    <3>2. held \in Emitters
      BY <2>3, <2>4 DEF Emitters
    <3> HIDE DEF held
    <3> QED
      BY <2>3, <3>1, <3>2
  <2>6. capped \in Int
    <3>1. s.density[s.cur][m] \in Int /\ s.most \in Int
      BY <2>1, BuffersAre, CellType DEF Simulations
    <3>2. (given[2] * EmitRate) \div 100 \in Int
      BY <2>4, Constants
    <3> HIDE DEF given
    <3> QED
      BY <3>1, <3>2
  <2>7. density \in Densities
    <3>1. s.density \in Densities
      BY DEF Simulations
    <3> HIDE DEF capped, m
    <3> QED
      BY <2>1, <2>6, <3>1 DEF Densities
  <2>8. flow \in Flows
    <3>1. s.flow \in Flows
      BY DEF Simulations
    <3> HIDE DEF m
    <3> QED
      BY <2>1, <3>1, BuffersAre DEF Flows
  <2>9. \A b \in Buffers, v \in Voxels \ {m} :
          density[b][v] = s.density[b][v] /\ flow[b][v] = s.flow[b][v]
    <3>1. s.density \in Densities /\ s.flow \in Flows
      BY DEF Simulations
    <3> HIDE DEF capped, m
    <3> QED
      BY <3>1, BuffersAre DEF Densities, Flows
  <2>10. BuffersAlike(s) => density[0] = density[1] /\ flow[0] = flow[1]
    <3>1. s.flow \in Flows
      BY DEF Simulations
    <3> HIDE DEF capped, m
    <3>2. BuffersAlike(s) => density[0] = density[1]
      BY DEF BuffersAlike, Buffers
    <3>3. BuffersAlike(s) => flow = s.flow
      <4>1. SUFFICES ASSUME BuffersAlike(s) PROVE flow[o] = s.flow[o]
        BY <3>1, BuffersAre DEF Flows
      <4>2. s.flow[s.cur] = s.flow[o]
        BY <4>1, BuffersAre DEF BuffersAlike, Buffers
      <4> QED
        BY <2>1, <3>1, <4>2, BuffersAre DEF Flows
    <3> QED
      BY <3>2, <3>3 DEF BuffersAlike
  <2> HIDE DEF emitters, density, flow
  <2>11. f \in Simulations
    BY <2>2, <2>5, <2>7, <2>8 DEF Simulations
  <2>12. /\ f.solid = s.solid /\ f.step = s.step /\ f.pass = s.pass /\ f.cur = s.cur
         /\ f.turn = s.turn /\ f.reached = s.reached /\ f.flow = flow /\ f.density = density
    BY <2>2 DEF Simulations
  <2> HIDE DEF m
  <2> QED
    BY <2>1, <2>9, <2>10, <2>11, <2>12 DEF LeavesAlone, BuffersAlike
<1> QED
  BY <1>1, <1>2

\* A turn: what it leaves alone, besides what it reaches.
LEMMA EmitterRanIs ==
    ASSUME NEW s \in Simulations, s.turn <= Len(s.emitters), NEW f, f = EmitterRan(s)
    PROVE  /\ f \in Simulations
           /\ f.solid = s.solid /\ f.step = s.step /\ f.pass = s.pass /\ f.cur = s.cur
           /\ f.reached = [s.reached EXCEPT ![s.cur] = @ \cup Reaches(s)]
           /\ \A b \in Buffers, v \in Voxels \ Reaches(s) :
                f.density[b][v] = s.density[b][v] /\ f.flow[b][v] = s.flow[b][v]
           /\ BuffersAlike(s) => BuffersAlike(f)
<1> DEFINE given == IF s.step = 0 THEN Burst(s) ELSE Emission(s)
           reached == [s.reached EXCEPT ![s.cur] = s.reached[s.cur] \cup Reaches(s)]
<1>1. LeavesAlone(s, given)
  BY BurstIs, EmissionIs
<1>2. f = [given EXCEPT !.reached = [given.reached EXCEPT ![s.cur] = @ \cup Reaches(s)],
                        !.turn = given.turn + 1]
  BY DEF EmitterRan
<1> HIDE DEF given
<1>3. f = [given EXCEPT !.reached = reached, !.turn = s.turn + 1]
  BY <1>1, <1>2 DEF LeavesAlone
<1>4. reached \in [Buffers -> SUBSET Voxels] /\ s.turn + 1 \in Nat \ {0}
  BY ReachesAre, BuffersAre DEF Simulations
<1> HIDE DEF reached
<1>5. given \in Simulations
  BY <1>1 DEF LeavesAlone
<1>6. f \in Simulations
  BY <1>3, <1>4, <1>5 DEF Simulations
<1>7. /\ f.solid = given.solid /\ f.step = given.step /\ f.pass = given.pass
      /\ f.cur = given.cur /\ f.reached = reached
      /\ f.density = given.density /\ f.flow = given.flow
  BY <1>3, <1>5 DEF Simulations
<1> QED
  BY <1>1, <1>6, <1>7 DEF LeavesAlone, BuffersAlike, reached

-----------------------------------------------------------------------------
(* The ends of a step.                                                       *)

LEMMA NewSimIs ==
    ASSUME NEW log \in Smokes, NEW f, f = NewSim(log)
    PROVE  /\ f \in Simulations
           /\ f.step = 0 /\ f.pass = "rest" /\ f.cur = 0
           /\ f.reached = [b \in Buffers |-> {}]
           /\ f.density = [b \in Buffers |-> [v \in Voxels |-> 0]]
           /\ f.flow = [b \in Buffers |-> [v \in Voxels |-> NoFlow]]
<1>1. log.solid \in SUBSET Voxels /\ log.frames \in Seq(Seq(Emitters))
  BY LogsAssumption
<1>2. [b \in Buffers |-> [v \in Voxels |-> 0]] \in Densities
  BY DEF Densities
<1>3. [b \in Buffers |-> [v \in Voxels |-> NoFlow]] \in Flows
  BY DEF Flows, NoFlow
<1>4. [b \in Buffers |-> {}] \in [Buffers -> SUBSET Voxels]
  OBVIOUS
<1>5. <<>> \in Seq(Emitters) /\ 0 \in Buffers
  BY DEF Buffers
<1> QED
  BY <1>1, <1>2, <1>3, <1>4, <1>5 DEF NewSim, Simulations

LEMMA MostType ==
    ASSUME NEW emitters \in Seq(Emitters)
    PROVE  Most(emitters) \in Int
<1> DEFINE on == Cardinality({i \in DOMAIN emitters : emitters[i].hold < EmitterOn})
           boosted == ((EmitterSlots - on) * EarlyBoost * FullDensity) \div (10 * EmitterSlots)
<1>1. on \in Nat
  <2>1. DOMAIN emitters = 1 .. Len(emitters) /\ Len(emitters) \in Nat
    OBVIOUS
  <2>2. IsFiniteSet(DOMAIN emitters)
    BY <2>1, FS_Interval
  <2> QED
    BY <2>2, FS_Subset, FS_CardinalityType
<1> HIDE DEF on
<1>2. (EmitterSlots - on) * EarlyBoost * FullDensity \in Int
  BY <1>1, Constants DEF EarlyBoost
<1>3. 10 * EmitterSlots \in Nat \ {0}
  BY Constants
<1>4. \A a \in Int, d \in Nat \ {0} : a \div d \in Int
  OBVIOUS
<1>5. boosted \in Int
  BY <1>2, <1>3, <1>4
<1>6. Most(emitters) = IF boosted <= FullDensity THEN FullDensity ELSE boosted
  BY DEF Most, on
<1> HIDE DEF boosted
<1> QED
  BY <1>5, <1>6, Constants

LEMMA BeganIs ==
    ASSUME NEW s \in Simulations, s.step < Len(s.frames), NEW f, f = Began(s)
    PROVE  /\ f \in Simulations
           /\ f.solid = s.solid /\ f.step = s.step /\ f.pass = "emit" /\ f.cur = s.cur
           /\ f.reached = s.reached /\ f.density = s.density /\ f.flow = s.flow
<1> DEFINE said == s.frames[s.step + 1]
           emitters == IF said = <<>> THEN s.emitters ELSE said
<1>1. emitters \in Seq(Emitters)
  <2>1. s.step + 1 \in 1 .. Len(s.frames) /\ s.frames \in Seq(Seq(Emitters))
    BY DEF Simulations
  <2>2. said \in Seq(Emitters) /\ s.emitters \in Seq(Emitters)
    BY <2>1 DEF Simulations
  <2> QED
    BY <2>2
<1>2. f = [s EXCEPT !.emitters = emitters, !.pass = "emit", !.turn = 1, !.most = Most(emitters)]
  BY DEF Began
<1> HIDE DEF emitters
<1>3. Most(emitters) \in Int
  BY <1>1, MostType
<1> DEFINE most == Most(emitters)
<1> HIDE DEF most
<1>4. f = [s EXCEPT !.emitters = emitters, !.pass = "emit", !.turn = 1, !.most = most]
  BY <1>2 DEF most
<1>5. most \in Int
  BY <1>3 DEF most
<1>6. f \in Simulations
  <2>1. 1 \in Nat \ {0}
    OBVIOUS
  <2>2. f = [solid |-> s.solid, frames |-> s.frames, step |-> s.step, emitters |-> emitters,
             pass |-> "emit", turn |-> 1, most |-> most, cur |-> s.cur,
             reached |-> s.reached, density |-> s.density, flow |-> s.flow]
    BY <1>4 DEF Simulations
  <2> QED
    BY <1>1, <1>5, <2>1, <2>2 DEF Simulations
<1> QED
  BY <1>4, <1>6 DEF Simulations

\* The end of a step. Copying all is copying what is listed, if the others are
\* the same in both buffers.
LEMMA SteppedIs ==
    ASSUME NEW s \in Simulations, NEW listed \in SUBSET Voxels,
           NEW reached \in [Buffers -> SUBSET Voxels],
           \A v \in Voxels \ listed : /\ s.density[0][v] = s.density[1][v]
                                      /\ s.flow[0][v] = s.flow[1][v],
           NEW f, f = Stepped(s, listed, reached)
    PROVE  /\ f = Stepped(s, Voxels, reached)
           /\ f \in Simulations
           /\ f.solid = s.solid /\ f.step = s.step + 1 /\ f.pass = "rest"
           /\ f.cur = Other(s) /\ f.reached = reached
           /\ \A b \in Buffers : /\ f.density[b] = s.density[Other(s)]
                                 /\ f.flow[b] = s.flow[Other(s)]
<1> DEFINE o == Other(s)
           density == [v \in Voxels |-> IF v \in listed THEN s.density[o][v] ELSE s.density[s.cur][v]]
           flow == [v \in Voxels |-> IF v \in listed THEN s.flow[o][v] ELSE s.flow[s.cur][v]]
           densities == [s.density EXCEPT ![s.cur] = s.density[o]]
           flows == [s.flow EXCEPT ![s.cur] = s.flow[o]]
<1>1. s.density \in Densities /\ s.flow \in Flows
  BY DEF Simulations
<1>2. ASSUME NEW v \in Voxels \ listed
      PROVE  s.density[s.cur][v] = s.density[o][v] /\ s.flow[s.cur][v] = s.flow[o][v]
  BY BuffersAre DEF Buffers
<1>3. density = s.density[o]
  <2>1. s.density[o] \in [Voxels -> Int]
    BY <1>1, BuffersAre DEF Densities
  <2> QED
    BY <1>2, <2>1
<1>4. flow = s.flow[o]
  <2>1. s.flow[o] \in [Voxels -> Int \X Int]
    BY <1>1, BuffersAre DEF Flows
  <2> QED
    BY <1>2, <2>1
<1>5. f = [s EXCEPT !.density = [s.density EXCEPT ![s.cur] = density],
                    !.flow = [s.flow EXCEPT ![s.cur] = flow],
                    !.reached = reached, !.cur = o, !.step = s.step + 1, !.pass = "rest"]
  BY DEF Stepped
<1>6. f = [s EXCEPT !.density = densities, !.flow = flows,
                    !.reached = reached, !.cur = o, !.step = s.step + 1, !.pass = "rest"]
  BY <1>3, <1>4, <1>5
<1>7. f = Stepped(s, Voxels, reached)
  <2>1. [v \in Voxels |-> IF v \in Voxels THEN s.density[o][v] ELSE s.density[s.cur][v]] = s.density[o]
    BY <1>1, BuffersAre DEF Densities
  <2>2. [v \in Voxels |-> IF v \in Voxels THEN s.flow[o][v] ELSE s.flow[s.cur][v]] = s.flow[o]
    BY <1>1, BuffersAre DEF Flows
  <2>3. Stepped(s, Voxels, reached)
          = [s EXCEPT
               !.density = [s.density EXCEPT ![s.cur] =
                  [v \in Voxels |-> IF v \in Voxels THEN s.density[o][v] ELSE s.density[s.cur][v]]],
               !.flow = [s.flow EXCEPT ![s.cur] =
                  [v \in Voxels |-> IF v \in Voxels THEN s.flow[o][v] ELSE s.flow[s.cur][v]]],
               !.reached = reached, !.cur = o, !.step = s.step + 1, !.pass = "rest"]
    BY DEF Stepped
  <2> QED
    BY <1>6, <2>1, <2>2, <2>3
<1>8. densities \in Densities /\ \A b \in Buffers : densities[b] = s.density[o]
  BY <1>1, BuffersAre DEF Densities
<1>9. flows \in Flows /\ \A b \in Buffers : flows[b] = s.flow[o]
  BY <1>1, BuffersAre DEF Flows
<1>10. o \in Buffers /\ s.step + 1 \in Nat
  <2>1. s.step \in Nat
    BY DEF Simulations
  <2> QED
    BY <2>1, BuffersAre
<1> HIDE DEF densities, flows, o
<1>11. f \in Simulations
  <2> DEFINE later == s.step + 1
  <2> HIDE DEF later
  <2>1. f = [s EXCEPT !.density = densities, !.flow = flows,
                      !.reached = reached, !.cur = o, !.step = later, !.pass = "rest"]
    BY <1>6 DEF later
  <2>2. later \in Nat
    BY <1>10 DEF later
  <2> QED
    BY <1>8, <1>9, <1>10, <2>1, <2>2 DEF Simulations
<1>12. /\ f.solid = s.solid /\ f.step = s.step + 1 /\ f.pass = "rest"
       /\ f.cur = o /\ f.reached = reached /\ f.density = densities /\ f.flow = flows
  BY <1>6 DEF Simulations
<1> QED
  BY <1>7, <1>8, <1>9, <1>11, <1>12 DEF o

-----------------------------------------------------------------------------
(* The lists and the cells.                                                  *)

\* The list of a set: each of its voxels once.
OnceEach(S) == [v \in Voxels |-> IF v \in S THEN 1 ELSE 0]

LEMMA ListedOnce ==
    ASSUME NEW S \in SUBSET Voxels
    PROVE  Listed(OnceEach(S)) = S
BY DEF Listed, OnceEach

LEMMA MergedOnce ==
    ASSUME NEW S \in SUBSET Voxels, NEW T \in SUBSET Voxels, S \cap T = {}
    PROVE  MergeSorted(OnceEach(S), OnceEach(T)) = OnceEach(S \cup T)
BY DEF MergeSorted, OnceEach

Here  == sim.reached[sim.cur]
There == sim.reached[Other(sim)]

\* Emission marks the buffer that is read and the flow the other one; a voxel
\* that only one has reached is in the list of what marked it.
ListsInv ==
    /\ emitted = OnceEach(Here \ There)
    /\ woke = OnceEach(There \ Here)
    /\ active = OnceEach(IF sim.pass = "flow" THEN Here ELSE Here \cap There)
    /\ \E left \in SUBSET Here :
         visits = OnceEach(left) /\ (sim.pass # "flow" => left = {})
    /\ sim.pass # "flow" => There \subseteq Here
    /\ sim.pass = "rest" => Here \subseteq There

\* Nothing is where the cloud has not come; between the passes the buffers are
\* the same, but for what they have reached; and the flow empties the walls.
CellsInv ==
    /\ \A b \in Buffers, v \in Voxels \ Here :
         sim.density[b][v] = 0 /\ sim.flow[b][v] = NoFlow
    /\ sim.pass # "flow" => BuffersAlike(sim)
    /\ sim.pass = "flow" =>
         \A v \in sim.solid \ Listed(visits) : sim.density[Other(sim)][v] = 0
    /\ sim.pass = "rest" /\ sim.step > 0 =>
         \A v \in sim.solid : sim.density[sim.cur][v] = 0

SimInv == sim \in Simulations /\ ListsInv /\ CellsInv

LEMMA HereAndThere ==
    ASSUME sim \in Simulations
    PROVE  /\ Here \in SUBSET Voxels /\ There \in SUBSET Voxels
           /\ sim.reached[0] \cup sim.reached[1] = Here \cup There
<1>1. sim.reached \in [Buffers -> SUBSET Voxels]
  BY DEF Simulations
<1>2. \/ sim.cur = 0 /\ Other(sim) = 1
      \/ sim.cur = 1 /\ Other(sim) = 0
  BY DEF Simulations, Buffers, Other
<1> QED
  BY <1>1, <1>2 DEF Here, There, Buffers

LEMMA ReachOnce ==
    ASSUME sim \in Simulations, NEW S \in SUBSET (Here \cup There), NEW T \in SUBSET Voxels, NEW b
    PROVE  Reach(OnceEach(S), T, b) = OnceEach(S \cup (T \ (Here \cup There)))
<1>1. sim.reached[0] \cup sim.reached[1] = Here \cup There
  BY HereAndThere
<1>2. Reach(OnceEach(S), T, b)
        = [v \in Voxels |-> OnceEach(S)[v] + IF v \in T /\ v \notin Here \cup There THEN 1 ELSE 0]
  BY <1>1 DEF Reach
<1>3. \A v \in Voxels : OnceEach(S)[v] = IF v \in S THEN 1 ELSE 0
  BY DEF OnceEach
<1> QED
  BY <1>2, <1>3 DEF OnceEach

LEMMA NoneOnce == NoneListed = OnceEach({})
BY DEF NoneListed, OnceEach

LEMMA SimInvInit == SimInit => SimInv
<1> SUFFICES ASSUME SimInit PROVE SimInv
  OBVIOUS
<1>1. PICK log \in Smokes : sim = NewSim(log)
  BY DEF SimInit
<1>2. /\ sim \in Simulations /\ sim.step = 0 /\ sim.pass = "rest" /\ sim.cur = 0
      /\ sim.reached = [b \in Buffers |-> {}]
      /\ sim.density = [b \in Buffers |-> [v \in Voxels |-> 0]]
      /\ sim.flow = [b \in Buffers |-> [v \in Voxels |-> NoFlow]]
  BY <1>1, NewSimIs
<1>3. Here = {} /\ There = {}
  BY <1>2, BuffersAre DEF Here, There
<1>4. ListsInv
  BY <1>2, <1>3, NoneOnce DEF SimInit, ListsInv
<1>5. CellsInv
  BY <1>2, <1>3 DEF CellsInv, BuffersAlike, Buffers
<1> QED
  BY <1>2, <1>4, <1>5 DEF SimInv

LEMMA AdvanceKeeps ==
    ASSUME SimInv, Advance
    PROVE  SimInv'
<1>1. /\ sim' \in Simulations
      /\ sim'.solid = sim.solid /\ sim'.step = sim.step /\ sim'.pass = "emit"
      /\ sim'.cur = sim.cur /\ sim'.reached = sim.reached
      /\ sim'.density = sim.density /\ sim'.flow = sim.flow
  BY BeganIs DEF SimInv, Advance
<1>2. Here' = Here /\ There' = There /\ (Listed(visits))' = Listed(visits)
  BY <1>1 DEF Here, There, Other, Advance, Listed
<1>3. ListsInv'
  BY <1>1, <1>2 DEF SimInv, ListsInv, Advance
<1>4. CellsInv'
  BY <1>1, <1>2 DEF SimInv, CellsInv, BuffersAlike, Advance
<1> QED
  BY <1>1, <1>3, <1>4 DEF SimInv

LEMMA EmitKeeps ==
    ASSUME SimInv, Emit
    PROVE  SimInv'
<1> DEFINE R == Reaches(sim)
<1>1. /\ sim' \in Simulations
      /\ sim'.solid = sim.solid /\ sim'.step = sim.step /\ sim'.pass = sim.pass
      /\ sim'.cur = sim.cur
      /\ sim'.reached = [sim.reached EXCEPT ![sim.cur] = @ \cup R]
      /\ \A b \in Buffers, v \in Voxels \ R :
           sim'.density[b][v] = sim.density[b][v] /\ sim'.flow[b][v] = sim.flow[b][v]
      /\ BuffersAlike(sim) => BuffersAlike(sim')
  BY EmitterRanIs DEF SimInv, Emit
<1>2. R \in SUBSET Voxels /\ sim.pass = "emit"
  BY ReachesAre DEF SimInv, Emit
<1>3. Here \in SUBSET Voxels /\ There \in SUBSET Voxels
  BY HereAndThere DEF SimInv
<1>4. Here' = Here \cup R /\ There' = There
  <2>1. sim.reached \in [Buffers -> SUBSET Voxels]
    BY DEF SimInv, Simulations
  <2> QED
    BY <1>1, <2>1, BuffersAre DEF Here, There, Other, SimInv
<1>5. emitted' = OnceEach((Here \cup R) \ There)
  <2>1. emitted' = Reach(OnceEach(Here \ There), R, sim.cur)
    BY DEF SimInv, ListsInv, Emit
  <2>2. emitted' = OnceEach((Here \ There) \cup (R \ (Here \cup There)))
    BY <1>2, <1>3, <2>1, ReachOnce DEF SimInv
  <2>3. (Here \ There) \cup (R \ (Here \cup There)) = (Here \cup R) \ There
    OBVIOUS
  <2> QED
    BY <2>2, <2>3
<1>6. There \subseteq Here
  BY <1>2 DEF SimInv, ListsInv
<1>7. ListsInv'
  <2>1. emitted' = OnceEach(Here' \ There')
    BY <1>4, <1>5
  <2>2. woke' = OnceEach(There' \ Here')
    <3>1. There' \ Here' = There \ Here
      BY <1>4, <1>6
    <3> QED
      BY <3>1 DEF SimInv, ListsInv, Emit
  <2>3. active' = OnceEach(Here' \cap There')
    <3>1. Here' \cap There' = Here \cap There
      BY <1>4, <1>6
    <3> QED
      BY <1>2, <3>1 DEF SimInv, ListsInv, Emit
  <2>4. visits' = OnceEach({})
    BY <1>2 DEF SimInv, ListsInv, Emit
  <2> QED
    BY <1>1, <1>2, <1>4, <1>6, <2>1, <2>2, <2>3, <2>4 DEF ListsInv
<1>8. CellsInv'
  BY <1>1, <1>2, <1>4 DEF SimInv, CellsInv
<1> QED
  BY <1>1, <1>7, <1>8 DEF SimInv

LEMMA BeginFlowKeeps ==
    ASSUME SimInv, BeginFlow
    PROVE  SimInv' /\ Listed(visits)' = Here
<1>1. /\ sim' \in Simulations
      /\ sim'.solid = sim.solid /\ sim'.step = sim.step /\ sim'.pass = "flow"
      /\ sim'.cur = sim.cur /\ sim'.reached = sim.reached
      /\ sim'.density = sim.density /\ sim'.flow = sim.flow
  BY DEF SimInv, BeginFlow, Simulations
<1>2. Here \in SUBSET Voxels /\ There \in SUBSET Voxels
  BY HereAndThere DEF SimInv
<1>3. Here' = Here /\ There' = There /\ Other(sim') = Other(sim)
  BY <1>1 DEF Here, There, Other
<1>4. There \subseteq Here /\ active = OnceEach(Here \cap There) /\ emitted = OnceEach(Here \ There)
  BY DEF SimInv, ListsInv, BeginFlow
<1>5. MergeSorted(active, emitted) = OnceEach(Here)
  <2>1. MergeSorted(active, emitted) = OnceEach((Here \cap There) \cup (Here \ There))
    BY <1>2, <1>4, MergedOnce
  <2>2. (Here \cap There) \cup (Here \ There) = Here
    OBVIOUS
  <2> QED
    BY <2>1, <2>2
<1>6. active' = OnceEach(Here) /\ visits' = OnceEach(Here)
  BY <1>5 DEF BeginFlow
<1>7. Listed(visits)' = Here
  BY <1>2, <1>6, ListedOnce DEF Listed
<1>8. ListsInv'
  <2>1. woke = OnceEach(There \ Here) /\ UNCHANGED <<emitted, woke>>
    BY DEF SimInv, ListsInv, BeginFlow
  <2> QED
    BY <1>1, <1>3, <1>4, <1>6, <2>1 DEF ListsInv
<1>9. CellsInv'
  <2>1. Other(sim) \in Buffers /\ sim.solid \in SUBSET Voxels
    BY BuffersAre DEF SimInv, Simulations
  <2>2. \A b \in Buffers, v \in Voxels \ Here : sim.density[b][v] = 0 /\ sim.flow[b][v] = NoFlow
    BY DEF SimInv, CellsInv
  <2> QED
    BY <1>1, <1>3, <1>7, <2>1, <2>2 DEF CellsInv
<1> QED
  BY <1>1, <1>7, <1>8, <1>9 DEF SimInv

\* The voxel a visit is of.
Visited == Min(Listed(visits))

LEMMA FlowKeeps ==
    ASSUME SimInv, Flow
    PROVE  /\ SimInv'
           /\ sim' = Flowed(sim, Visited)
           /\ Listed(visits)' = Listed(visits) \ {Visited}
<1> DEFINE m == Visited
           W == Wakes(sim, m)
<1>1. Here \in SUBSET Voxels /\ There \in SUBSET Voxels
  BY HereAndThere DEF SimInv
<1>2. PICK left \in SUBSET Here : visits = OnceEach(left)
  BY DEF SimInv, ListsInv
<1>3. Listed(visits) = left
  BY <1>1, <1>2, ListedOnce
<1>4. m \in left /\ m \in Voxels
  <2>1. left \in SUBSET Nat /\ left # {}
    BY <1>1, <1>3, VoxelsAreNumbers DEF Flow
  <2> QED
    BY <1>1, <1>3, <2>1, LeastOf DEF Visited
<1>5. sim' = Flowed(sim, m) /\ sim.pass = "flow"
  BY DEF Flow, Visited
<1>6. /\ sim' \in Simulations
      /\ sim'.solid = sim.solid /\ sim'.step = sim.step /\ sim'.pass = "flow"
      /\ sim'.cur = sim.cur
      /\ sim'.reached = [sim.reached EXCEPT ![Other(sim)] = @ \cup W]
      /\ sim'.density = [sim.density EXCEPT ![Other(sim)] = Passed(sim, m)]
      /\ sim'.flow[sim.cur] = sim.flow[sim.cur]
      /\ \A v \in Voxels \ {m} : sim'.flow[Other(sim)][v] = sim.flow[Other(sim)][v]
  BY <1>4, <1>5, FlowedIs DEF SimInv
<1>7. W \subseteq Voxels \ Here
  BY <1>4, WakesAre DEF SimInv, Here
<1>8. Here' = Here /\ There' = There \cup W /\ Other(sim') = Other(sim)
  <2>1. sim.reached \in [Buffers -> SUBSET Voxels]
    BY DEF SimInv, Simulations
  <2> QED
    BY <1>6, <2>1, BuffersAre DEF Here, There, Other, SimInv
<1>9. visits' = OnceEach(left \ {m})
  <2>1. visits' = [visits EXCEPT ![m] = @ - 1]
    BY DEF Flow, Visited
  <2> HIDE DEF m
  <2> QED
    BY <1>2, <1>4, <2>1 DEF OnceEach
<1>10. Listed(visits)' = left \ {m}
  <2>1. left \ {m} \in SUBSET Voxels
    BY <1>1
  <2> QED
    BY <1>9, <2>1, ListedOnce DEF Listed
<1>11. ListsInv'
  <2>1. woke' = OnceEach(There' \ Here')
    <3>1. woke' = Reach(OnceEach(There \ Here), W, Other(sim))
      BY DEF SimInv, ListsInv, Flow, Visited
    <3>2. woke' = OnceEach((There \ Here) \cup (W \ (Here \cup There)))
      BY <1>1, <1>7, <3>1, ReachOnce DEF SimInv
    <3>3. (There \ Here) \cup (W \ (Here \cup There)) = (There \cup W) \ Here
      BY <1>7
    <3> QED
      BY <1>8, <3>2, <3>3
  <2>2. emitted' = OnceEach(Here' \ There')
    <3>1. Here \ (There \cup W) = Here \ There
      BY <1>7
    <3> QED
      BY <1>8, <3>1 DEF SimInv, ListsInv, Flow
  <2>3. active' = OnceEach(Here')
    BY <1>5, <1>8 DEF SimInv, ListsInv, Flow
  <2>4. left \ {m} \in SUBSET Here'
    BY <1>8
  <2> QED
    BY <1>6, <1>9, <2>1, <2>2, <2>3, <2>4 DEF ListsInv
<1>12. CellsInv'
  <2>1. ASSUME NEW b \in Buffers, NEW v \in Voxels \ Here
        PROVE  sim'.density[b][v] = 0 /\ sim'.flow[b][v] = NoFlow
    <3>1. sim.density[sim.cur][v] = 0 /\ sim.density[Other(sim)][v] = 0
          /\ sim.flow[sim.cur][v] = NoFlow /\ sim.flow[Other(sim)][v] = NoFlow
      BY BuffersAre DEF SimInv, CellsInv
    <3>2. v # m
      BY <1>4
    <3>3. Passed(sim, m)[v] = 0
      BY <1>4, <3>1, <3>2, PassedIs DEF SimInv
    <3>4. sim'.density[sim.cur][v] = 0 /\ sim'.density[Other(sim)][v] = 0
      <4>1. sim.density \in Densities
        BY DEF SimInv, Simulations
      <4> QED
        BY <1>6, <3>1, <3>3, <4>1, BuffersAre DEF Densities, SimInv
    <3>5. sim'.flow[sim.cur][v] = NoFlow /\ sim'.flow[Other(sim)][v] = NoFlow
      BY <1>6, <3>1, <3>2
    <3> QED
      BY <3>4, <3>5, BuffersAre DEF SimInv
  <2>2. ASSUME NEW v \in sim.solid \ (left \ {m})
        PROVE  sim'.density[Other(sim)][v] = 0
    <3>1. v \in Voxels
      BY DEF SimInv, Simulations
    <3>2. sim'.density[Other(sim)][v] = Passed(sim, m)[v]
      <4>1. sim.density \in Densities
        BY DEF SimInv, Simulations
      <4> QED
        BY <1>6, <4>1, BuffersAre DEF Densities, SimInv
    <3>3. CASE v = m
      BY <1>4, <3>2, <3>3, PassedIs DEF SimInv
    <3>4. CASE v # m
      <4>1. sim.density[Other(sim)][v] = 0
        BY <1>3, <1>5, <3>4 DEF SimInv, CellsInv
      <4> QED
        BY <1>4, <3>1, <3>2, <3>4, <4>1, PassedIs DEF SimInv
    <3> QED
      BY <3>3, <3>4
  <2> QED
    BY <1>6, <1>8, <1>10, <2>1, <2>2 DEF CellsInv
<1> QED
  BY <1>3, <1>5, <1>6, <1>10, <1>11, <1>12 DEF SimInv

\* Both buffers end the step reached wherever either was.
Either == [b \in Buffers |-> sim.reached[0] \cup sim.reached[1]]

LEMMA EndStepKeeps ==
    ASSUME SimInv, EndStep
    PROVE  /\ SimInv'
           /\ sim' = Stepped(sim, Voxels, Either)
<1>1. Here \in SUBSET Voxels /\ There \in SUBSET Voxels
      /\ sim.reached[0] \cup sim.reached[1] = Here \cup There
  BY HereAndThere DEF SimInv
<1>2. /\ sim.pass = "flow" /\ Listed(visits) = {}
      /\ emitted = OnceEach(Here \ There) /\ woke = OnceEach(There \ Here)
      /\ active = OnceEach(Here)
  BY DEF SimInv, ListsInv, EndStep
<1>3. /\ Listed(active) = Here
      /\ Listed(emitted) = Here \ There /\ Listed(woke) = There \ Here
  BY <1>1, <1>2, ListedOnce
<1>4. ReachedByEither = Either
  <2>1. ASSUME NEW b \in Buffers
        PROVE  sim.reached[b] \cup Listed(IF b = sim.cur THEN woke ELSE emitted) = Here \cup There
    <3>1. CASE b = sim.cur
      BY <1>3, <3>1 DEF Here
    <3>2. CASE b = Other(sim) /\ b # sim.cur
      BY <1>3, <3>2 DEF There
    <3> QED
      BY <3>1, <3>2, BuffersAre DEF SimInv
  <2> QED
    BY <1>1, <2>1 DEF ReachedByEither, Either
<1>5. Either \in [Buffers -> SUBSET Voxels]
  BY <1>1 DEF Either
<1>6. \A v \in Voxels \ Here : /\ sim.density[0][v] = sim.density[1][v]
                               /\ sim.flow[0][v] = sim.flow[1][v]
  BY DEF SimInv, CellsInv, Buffers
<1>7. sim' = Stepped(sim, Here, Either)
  BY <1>3, <1>4 DEF EndStep
<1>8. /\ sim' = Stepped(sim, Voxels, Either)
      /\ sim' \in Simulations
      /\ sim'.solid = sim.solid /\ sim'.step = sim.step + 1 /\ sim'.pass = "rest"
      /\ sim'.cur = Other(sim) /\ sim'.reached = Either
      /\ \A b \in Buffers : /\ sim'.density[b] = sim.density[Other(sim)]
                            /\ sim'.flow[b] = sim.flow[Other(sim)]
  BY <1>1, <1>5, <1>6, <1>7, SteppedIs DEF SimInv
<1>9. Here' = Here \cup There /\ There' = Here \cup There
  <2>1. sim'.cur \in Buffers /\ Other(sim') \in Buffers
    BY <1>8, BuffersAre
  <2> QED
    BY <1>1, <1>8, <2>1 DEF Here, There, Either
<1>10. ListsInv'
  <2>1. active' = OnceEach(Here \cup There)
    <3>1. active' = MergeSorted(OnceEach(Here), OnceEach(There \ Here))
      BY <1>2 DEF EndStep
    <3>2. active' = OnceEach(Here \cup (There \ Here))
      BY <1>1, <3>1, MergedOnce
    <3>3. Here \cup (There \ Here) = Here \cup There
      OBVIOUS
    <3> QED
      BY <3>2, <3>3
  <2>2. emitted' = OnceEach({}) /\ woke' = OnceEach({})
    BY NoneOnce DEF EndStep
  <2>3. visits' = OnceEach({})
    <3>1. PICK left \in SUBSET Here : visits = OnceEach(left)
      BY DEF SimInv, ListsInv
    <3>2. left = {}
      BY <1>1, <1>2, <3>1, ListedOnce
    <3> QED
      BY <3>1, <3>2 DEF EndStep
  <2>4. Here' \ There' = {} /\ There' \ Here' = {} /\ Here' \cap There' = Here \cup There
    BY <1>9
  <2>5. There' \subseteq Here' /\ Here' \subseteq There' /\ {} \in SUBSET Here'
    BY <1>9
  <2> QED
    BY <1>8, <2>1, <2>2, <2>3, <2>4, <2>5 DEF ListsInv
<1>11. CellsInv'
  <2>1. 0 \in Buffers /\ 1 \in Buffers /\ Other(sim) \in Buffers /\ sim'.cur \in Buffers
    BY <1>8, BuffersAre DEF SimInv, Buffers
  <2>2. \A v \in Voxels \ Here : /\ sim.density[Other(sim)][v] = 0
                                 /\ sim.flow[Other(sim)][v] = NoFlow
    BY <2>1 DEF SimInv, CellsInv
  <2>3. \A v \in sim.solid : sim.density[Other(sim)][v] = 0
    BY <1>2 DEF SimInv, CellsInv
  <2>4. BuffersAlike(sim')
    BY <1>8, <2>1 DEF BuffersAlike
  <2> QED
    BY <1>8, <1>9, <2>1, <2>2, <2>3, <2>4 DEF CellsInv
<1> QED
  BY <1>8, <1>10, <1>11 DEF SimInv

LEMMA SimInvStep == SimInv /\ [SimNext]_simVars => SimInv'
<1> SUFFICES ASSUME SimInv, [SimNext]_simVars PROVE SimInv'
  OBVIOUS
<1>1. CASE Advance
  BY <1>1, AdvanceKeeps
<1>2. CASE Emit
  BY <1>2, EmitKeeps
<1>3. CASE BeginFlow
  BY <1>3, BeginFlowKeeps
<1>4. CASE Flow
  BY <1>4, FlowKeeps
<1>5. CASE EndStep
  BY <1>5, EndStepKeeps
<1>6. CASE UNCHANGED simVars
  BY <1>6 DEF simVars, SimInv, ListsInv, CellsInv, Here, There, Listed
<1> QED
  BY <1>1, <1>2, <1>3, <1>4, <1>5, <1>6 DEF SimNext

\* What the lists hold and the buffers agree on, at every moment of a step.
THEOREM SimInvAlways == SimSpec => []SimInv
BY SimInvInit, SimInvStep, PTL DEF SimSpec

\* After every step the buffers are one, every voxel the cloud has reached is
\* listed once, and neither the others nor the walls hold anything.
THEOREM SmokeStaysInReach == SimSpec => []SmokeIsInReach
<1>1. SimInv => SmokeIsInReach
  <2> SUFFICES ASSUME SimInv, sim.step > 0, sim.pass = "rest"
               PROVE  /\ sim.reached[0] = sim.reached[1]
                      /\ BuffersAlike(sim)
                      /\ \A v \in Voxels :
                           /\ active[v] = IF v \in sim.reached[0] THEN 1 ELSE 0
                           /\ v \notin sim.reached[0] \/ v \in sim.solid => sim.density[0][v] = 0
    BY DEF SmokeIsInReach, BuffersAlike
  <2>1. Here = There
    BY DEF SimInv, ListsInv
  <2>2. sim.reached[0] = Here /\ sim.reached[1] = Here
    <3>1. \/ sim.cur = 0 /\ Other(sim) = 1
          \/ sim.cur = 1 /\ Other(sim) = 0
      BY DEF SimInv, Simulations, Buffers, Other
    <3> QED
      BY <2>1, <3>1 DEF Here, There
  <2>3. BuffersAlike(sim)
    BY DEF SimInv, CellsInv
  <2>4. active = OnceEach(Here)
    BY <2>1 DEF SimInv, ListsInv
  <2>5. \A v \in Voxels \ Here : sim.density[0][v] = 0
    BY DEF SimInv, CellsInv, Buffers
  <2>6. \A v \in sim.solid : sim.density[0][v] = 0
    <3>1. sim.cur = 0 \/ sim.cur = 1
      BY DEF SimInv, Simulations, Buffers
    <3> QED
      BY <2>3, <3>1 DEF SimInv, CellsInv, BuffersAlike
  <2> QED
    BY <2>2, <2>3, <2>4, <2>5, <2>6 DEF OnceEach
<1> QED
  BY <1>1, SimInvAlways, PTL

-----------------------------------------------------------------------------
(* The refinement. The instance has its own names for the operators of      *)
(* SmokeCells, which are the same.                                           *)

LEMMA SameGrid ==
    /\ Grid!Voxels = Voxels /\ Grid!Buffers = Buffers
    /\ \A at : Grid!InGrid(at) = InGrid(at) /\ Grid!Interleave3(at) = Interleave3(at)
    /\ \A m : Grid!Deinterleave3(m) = Deinterleave3(m)
    /\ \A m, k : Grid!Beside(m, k) = Beside(m, k) /\ Grid!HasSide(m, k) = HasSide(m, k)
    /\ \A at : Grid!Around(at) = Around(at)
    /\ \A s : Grid!Other(s) = Other(s)
    /\ \A d : Grid!Unit(d) = Unit(d) /\ Grid!NotBelow0(d) = NotBelow0(d)
BY DEF Grid!Voxels, Grid!Buffers, Grid!InGrid, Grid!Interleave3, Grid!Deinterleave3,
       Grid!Beside, Grid!HasSide, Grid!Around, Grid!Other, Grid!Unit, Grid!NotBelow0,
       Grid!Coordinates, Grid!Spread, Grid!Lane, Grid!Shifted, Grid!Six,
       Voxels, Buffers, InGrid, Interleave3, Deinterleave3,
       Beside, HasSide, Around, Other, Unit, NotBelow0,
       Coordinates, Spread, Lane, Shifted, Six

LEMMA SameNew ==
    ASSUME NEW log
    PROVE  Grid!NewSim(log) = NewSim(log)
BY DEF Grid!NewSim, Grid!Voxels, Grid!Buffers, Grid!NoFlow, NewSim, Voxels, Buffers, NoFlow

LEMMA SameMost ==
    ASSUME NEW emitters
    PROVE  Grid!Most(emitters) = Most(emitters)
<1>1. \A S : Grid!Cardinality(S) = Cardinality(S)
  BY DEF Grid!Cardinality, Cardinality
<1> QED
  BY <1>1 DEF Grid!Most, Grid!EmitterOn, Grid!EarlyBoost, Most, EmitterOn, EarlyBoost

LEMMA SameBegan ==
    ASSUME NEW s
    PROVE  Grid!Began(s) = Began(s)
BY SameMost DEF Grid!Began, Began

LEMMA SameStepped ==
    ASSUME NEW s, NEW listed, NEW reached
    PROVE  Grid!Stepped(s, listed, reached) = Stepped(s, listed, reached)
BY DEF Grid!Stepped, Grid!Voxels, Grid!Other, Stepped, Voxels, Other

LEMMA SameReaches ==
    ASSUME NEW s
    PROVE  Grid!Fresh(s) = Fresh(s) /\ Grid!Reaches(s) = Reaches(s)
BY SameGrid DEF Grid!Fresh, Grid!Reaches, Fresh, Reaches

LEMMA SameBurst ==
    ASSUME NEW s
    PROVE  Grid!Burst(s) = Burst(s)
BY SameGrid, SameReaches DEF Grid!Burst, Burst

LEMMA SameHold ==
    ASSUME NEW s, NEW e
    PROVE  Grid!HoldAndShare(s, e) = HoldAndShare(s, e)
<1>1. Grid!FromMiddle(e.at) = FromMiddle(e.at)
  BY DEF Grid!FromMiddle, FromMiddle
<1>2. Grid!FullnessAround(s, e.at) = FullnessAround(s, e.at)
  BY SameGrid DEF Grid!FullnessAround, FullnessAround
<1>3. Grid!ReachedSum = ReachedSum
  BY DEF Grid!ReachedSum, ReachedSum
<1> QED
  BY <1>1, <1>2, <1>3 DEF Grid!HoldAndShare, HoldAndShare

LEMMA SameEmitterRan ==
    ASSUME NEW s
    PROVE  Grid!EmitterRan(s) = EmitterRan(s)
<1>1. Grid!Emission(s) = Emission(s)
  BY SameGrid, SameHold DEF Grid!Emission, Emission
<1> QED
  BY <1>1, SameBurst, SameReaches DEF Grid!EmitterRan, EmitterRan

LEMMA SameTake ==
    ASSUME NEW s, NEW m
    PROVE  /\ Grid!OpenSides(s, m) = OpenSides(s, m)
           /\ \A k : Grid!Take(s, m, k) = Take(s, m, k)
<1>1. Grid!OpenSides(s, m) = OpenSides(s, m)
  BY SameGrid DEF Grid!OpenSides, OpenSides
<1>2. \A k, f : Grid!Pull(k, f) = Pull(k, f)
  BY DEF Grid!Pull, Grid!Towards, Grid!Six, Pull, Towards, Six, Grid!PullBelow, Grid!PullAbove,
         Grid!PullToward, Grid!PullAside, PullBelow, PullAbove, PullToward, PullAside
<1> QED
  BY <1>1, <1>2, SameGrid DEF Grid!Take, Take

LEMMA SameFlowed ==
    ASSUME NEW s, NEW m
    PROVE  Grid!Flowed(s, m) = Flowed(s, m)
<1>1. Grid!AtEdge(m) = AtEdge(m)
  BY SameGrid DEF Grid!AtEdge, AtEdge
<1>2. Grid!Kept(s, m) = Kept(s, m)
  <2>1. Grid!Taken(s, m) = Taken(s, m)
    BY SameTake DEF Grid!Taken, Taken
  <2>2. Grid!EdgeKeep = EdgeKeep
    BY DEF Grid!EdgeKeep, EdgeKeep
  <2> QED
    BY <1>1, <2>1, <2>2, SameGrid DEF Grid!Kept, Kept
<1>3. \A v : Grid!LeftBeside(s, m, v) = LeftBeside(s, m, v)
  BY SameTake, SameGrid DEF Grid!LeftBeside, LeftBeside
<1>4. Grid!Gradient(s, m) = Gradient(s, m)
  BY SameTake, SameGrid DEF Grid!Gradient, Gradient
<1>5. Grid!Wakes(s, m) = Wakes(s, m)
  BY SameTake, SameGrid DEF Grid!Wakes, Wakes
<1>6. (IF m \in s.solid THEN {} ELSE {Grid!Beside(m, k) : k \in Grid!OpenSides(s, m)}) = Sides(s, m)
  BY SameTake, SameGrid DEF Sides
<1> DEFINE o == Other(s)
           sides == IF m \in s.solid THEN {} ELSE {Grid!Beside(m, k) : k \in Grid!OpenSides(s, m)}
           passed == [v \in Grid!Voxels |-> IF v = m THEN Grid!Kept(s, m)
                                            ELSE IF v \in sides THEN Grid!LeftBeside(s, m, v)
                                            ELSE s.density[Grid!Other(s)][v]]
           gradient == IF m \in s.solid \/ AtEdge(m) THEN s.flow[o][m] ELSE Gradient(s, m)
           density == [s.density EXCEPT ![o] = Passed(s, m)]
           flow == [s.flow EXCEPT ![o] = [s.flow[o] EXCEPT ![m] = gradient]]
           reached == [s.reached EXCEPT ![o] = s.reached[o] \cup Wakes(s, m)]
<1>7. passed = Passed(s, m)
  <2>1. sides = Sides(s, m)
    BY <1>6
  <2> HIDE DEF sides
  <2> QED
    BY <1>2, <1>3, <2>1, SameGrid DEF Passed
<1>8. Flowed(s, m) = [s EXCEPT !.density = density, !.flow = flow, !.reached = reached]
  BY DEF Flowed, Passed, Sides
<1>9. Grid!Flowed(s, m)
        = [s EXCEPT !.density = [s.density EXCEPT ![Grid!Other(s)] = passed],
                    !.flow = [s.flow EXCEPT ![Grid!Other(s)] = [s.flow[Grid!Other(s)] EXCEPT ![m] =
                       IF m \in s.solid \/ Grid!AtEdge(m) THEN s.flow[Grid!Other(s)][m]
                       ELSE Grid!Gradient(s, m)]],
                    !.reached = [s.reached EXCEPT ![Grid!Other(s)] =
                       s.reached[Grid!Other(s)] \cup Grid!Wakes(s, m)]]
  BY DEF Grid!Flowed
<1>10. Grid!Other(s) = o
  BY SameGrid
<1> HIDE DEF passed, o
<1> QED
  BY <1>1, <1>4, <1>5, <1>7, <1>8, <1>9, <1>10

\* Every step of the simulation is one of the walk, or none.
LEMMA StepsWalk ==
    SimInv /\ [SimNext]_simVars => [Grid!GridNext]_<<sim, Listed(visits)>>
<1> SUFFICES ASSUME SimInv, [SimNext]_simVars
             PROVE  [Grid!GridNext]_<<sim, Listed(visits)>>
  OBVIOUS
<1>1. CASE Advance
  <2>1. Listed(visits)' = Listed(visits)
    BY <1>1 DEF Advance, Listed
  <2>2. Grid!GridBegin
    BY <1>1, <2>1, SameBegan DEF Advance, Grid!GridBegin
  <2> QED
    BY <2>2 DEF Grid!GridNext
<1>2. CASE Emit
  <2>1. Listed(visits)' = Listed(visits)
    BY <1>2 DEF Emit, Listed
  <2>2. Grid!GridEmit
    BY <1>2, <2>1, SameEmitterRan DEF Emit, Grid!GridEmit
  <2> QED
    BY <2>2 DEF Grid!GridNext
<1>3. CASE BeginFlow
  <2>1. Listed(visits)' = sim.reached[sim.cur]
    BY <1>3, BeginFlowKeeps DEF Here
  <2>2. Grid!GridWalk
    BY <1>3, <2>1 DEF BeginFlow, Grid!GridWalk
  <2> QED
    BY <2>2 DEF Grid!GridNext
<1>4. CASE Flow
  <2>1. /\ sim' = Flowed(sim, Min(Listed(visits)))
        /\ Listed(visits)' = Listed(visits) \ {Min(Listed(visits))}
    BY <1>4, FlowKeeps DEF Visited
  <2>2. Grid!GridVisit
    <3>1. Grid!Min(Listed(visits)) = Min(Listed(visits))
      BY DEF Grid!Min, Min
    <3> QED
      BY <1>4, <2>1, <3>1, SameFlowed DEF Flow, Grid!GridVisit
  <2> QED
    BY <2>2 DEF Grid!GridNext
<1>5. CASE EndStep
  <2>1. sim' = Stepped(sim, Voxels, Either)
    BY <1>5, EndStepKeeps
  <2>2. Listed(visits)' = Listed(visits)
    BY <1>5 DEF EndStep, Listed
  <2>3. Grid!GridEnd
    BY <1>5, <2>1, <2>2, SameStepped, SameGrid DEF EndStep, Either, Grid!GridEnd
  <2> QED
    BY <2>3 DEF Grid!GridNext
<1>6. CASE UNCHANGED simVars
  BY <1>6 DEF simVars, Listed
<1> QED
  BY <1>1, <1>2, <1>3, <1>4, <1>5, <1>6 DEF SimNext

\* "the voxels the step's passes visit, in the order they visited them when
\* they walked the whole grid": the lists leave out no voxel that the walk would
\* have changed, whatever the smoke's log says.
THEOREM ListsWalkTheGrid == SimSpec => WalksTheGrid
<1>1. SimInit => Grid!GridInit
  <2> SUFFICES ASSUME SimInit PROVE Grid!GridInit
    OBVIOUS
  <2>1. \E log \in Smokes : sim = Grid!NewSim(log)
    BY SameNew DEF SimInit
  <2>2. Listed(visits) = {}
    BY DEF SimInit, Listed, NoneListed
  <2> QED
    BY <2>1, <2>2 DEF Grid!GridInit
<1> QED
  BY <1>1, SimInvAlways, StepsWalk, PTL
     DEF SimSpec, WalksTheGrid, Grid!GridSpec, Grid!gridVars

-----------------------------------------------------------------------------
(* VoxelLog. *)

(* What the game has written: frame after frame, a pace apart.              *)
Carried == {"emitters", "nothing", "fading", "garbage"}

GameInv ==
  /\ tickNow \in 0 .. MaxTick
  /\ written \in Seq([carries : Carried, end : Nat, at : Nat])
  /\ Len(written) <= MaxFrames
  /\ \A i, j \in 0 .. Len(written) : i < j => EndOf(i) < EndOf(j)
  /\ \A i, j \in DOMAIN written : i < j => written[i].at + Pace <= written[j].at
  /\ \A i \in DOMAIN written : written[i].at <= tickNow

(* What reads of a log come to, said without reading: a frame is whole by   *)
(* the first of them that is long enough, and the log has the frames that   *)
(* are whole up to one that does not decode.                                *)
Sampled == Seq(Nat \X Nat)

Known(reads, n, e) == \E i \in 1 .. n : reads[i][1] >= e

ReadAt(reads, n, e, t) ==
  \E i \in 1 .. n : /\ reads[i][1] >= e /\ reads[i][2] = t
                    /\ \A j \in 1 .. n : j < i => reads[j][1] < e

Logs == [steps : Seq([tick : Nat, carries : Carried]), next : Nat, broken : BOOLEAN]

HasRead(l, reads, n) ==
  \A k \in 1 .. Len(l.steps) :
    /\ written[k].carries # "garbage"
    /\ l.steps[k].carries = written[k].carries
    /\ ReadAt(reads, n, EndOf(k), l.steps[k].tick)

ReadOn(l, reads, n) ==
  LET m == Len(l.steps) + 1
  IN  IF l.broken THEN m <= Len(written) /\ written[m].carries = "garbage" /\ Known(reads, n, EndOf(m))
      ELSE m <= Len(written) => ~Known(reads, n, EndOf(m))

IsLogOf(l, reads, n) ==
  /\ l \in Logs
  /\ Len(l.steps) <= Len(written)
  /\ l.next = EndOf(Len(l.steps))
  /\ HasRead(l, reads, n)
  /\ ReadOn(l, reads, n)

LEMMA GameFacts ==
  ASSUME GameInv
  PROVE  /\ Len(written) \in Nat /\ DOMAIN written = 1 .. Len(written)
         /\ \A i \in 1 .. Len(written) : /\ written[i].carries \in Carried
                                         /\ written[i].at \in Nat
                                         /\ EndOf(i) > 0
         /\ \A i \in 0 .. Len(written) : EndOf(i) \in Nat
         /\ EndOf(0) = 0
         /\ \A i, j \in 0 .. Len(written) : i < j => EndOf(i) < EndOf(j)
<1>1. Len(written) \in Nat /\ DOMAIN written = 1 .. Len(written)
  BY DEF GameInv
<1>2. \A i \in 1 .. Len(written) : written[i] \in [carries : Carried, end : Nat, at : Nat]
  BY <1>1, ElementOfSeq DEF GameInv
<1>3. \A i \in 0 .. Len(written) : EndOf(i) \in Nat
  BY <1>1, <1>2 DEF EndOf
<1>4. EndOf(0) = 0 /\ \A i, j \in 0 .. Len(written) : i < j => EndOf(i) < EndOf(j)
  BY DEF EndOf, GameInv
<1>5. \A i \in 1 .. Len(written) : EndOf(i) > 0
  BY <1>1, <1>3, <1>4
<1> QED
  BY <1>1, <1>2, <1>3, <1>4, <1>5

LEMMA LogFacts ==
  ASSUME NEW l \in Logs
  PROVE  /\ Len(l.steps) \in Nat /\ DOMAIN l.steps = 1 .. Len(l.steps)
         /\ l.steps \in Seq([tick : Nat, carries : Carried])
         /\ \A k \in 1 .. Len(l.steps) : /\ l.steps[k] \in [tick : Nat, carries : Carried]
                                         /\ l.steps[k].tick \in Nat
         /\ l.next \in Nat /\ l.broken \in BOOLEAN
<1>1. l.steps \in Seq([tick : Nat, carries : Carried]) /\ l.next \in Nat /\ l.broken \in BOOLEAN
  BY DEF Logs
<1>2. Len(l.steps) \in Nat /\ DOMAIN l.steps = 1 .. Len(l.steps)
  BY <1>1
<1>3. \A k \in 1 .. Len(l.steps) : l.steps[k] \in [tick : Nat, carries : Carried]
  BY <1>1, ElementOfSeq
<1> QED
  BY <1>1, <1>2, <1>3

LEMMA SampleFacts ==
  ASSUME NEW reads \in Sampled
  PROVE  /\ Len(reads) \in Nat /\ DOMAIN reads = 1 .. Len(reads)
         /\ \A i \in 1 .. Len(reads) : reads[i][1] \in Nat /\ reads[i][2] \in Nat
<1>1. \A i \in 1 .. Len(reads) : reads[i] \in Nat \X Nat
  BY DEF Sampled
<1> QED
  BY <1>1 DEF Sampled

(* A log is told by its reads.                                              *)
LEMMA OneLog ==
  ASSUME GameInv, NEW reads \in Sampled, NEW n \in 0 .. Len(reads),
         NEW a, NEW b, IsLogOf(a, reads, n), IsLogOf(b, reads, n)
  PROVE  a = b
<1>1. a \in Logs /\ b \in Logs
  BY DEF IsLogOf
<1>2. /\ Len(a.steps) \in Nat /\ Len(b.steps) \in Nat
      /\ Len(a.steps) <= Len(written) /\ Len(b.steps) <= Len(written)
  BY <1>1, LogFacts DEF IsLogOf
<1>3. Len(written) \in Nat
  BY GameFacts
<1>4. ASSUME NEW x, NEW y, IsLogOf(x, reads, n), IsLogOf(y, reads, n)
      PROVE  ~(Len(x.steps) < Len(y.steps))
  <2>1. SUFFICES ASSUME Len(x.steps) < Len(y.steps) PROVE FALSE
    OBVIOUS
  <2>2. Len(x.steps) \in Nat /\ Len(y.steps) \in Nat /\ Len(y.steps) <= Len(written)
    BY <1>4, LogFacts DEF IsLogOf
  <2> DEFINE m == Len(x.steps) + 1
  <2>3. m \in 1 .. Len(y.steps) /\ m <= Len(written)
    BY <1>3, <2>1, <2>2
  <2>4. written[m].carries # "garbage" /\ ReadAt(reads, n, EndOf(m), y.steps[m].tick)
    BY <1>4, <2>3 DEF IsLogOf, HasRead
  <2>5. Known(reads, n, EndOf(m))
    BY <2>4 DEF ReadAt, Known
  <2>6. ReadOn(x, reads, n)
    BY <1>4 DEF IsLogOf
  <2> QED
    BY <2>3, <2>4, <2>5, <2>6 DEF ReadOn
<1>5. Len(a.steps) = Len(b.steps)
  <2>1. ~(Len(a.steps) < Len(b.steps)) /\ ~(Len(b.steps) < Len(a.steps))
    BY <1>4
  <2> QED
    BY <1>2, <2>1
<1>6. ASSUME NEW k \in 1 .. Len(a.steps)
      PROVE  a.steps[k] = b.steps[k]
  <2>1. /\ a.steps[k].carries = written[k].carries /\ b.steps[k].carries = written[k].carries
        /\ ReadAt(reads, n, EndOf(k), a.steps[k].tick)
        /\ ReadAt(reads, n, EndOf(k), b.steps[k].tick)
    BY <1>5 DEF IsLogOf, HasRead
  <2>2. PICK i \in 1 .. n : /\ reads[i][1] >= EndOf(k) /\ reads[i][2] = a.steps[k].tick
                            /\ \A j \in 1 .. n : j < i => reads[j][1] < EndOf(k)
    BY <2>1 DEF ReadAt
  <2>3. PICK h \in 1 .. n : /\ reads[h][1] >= EndOf(k) /\ reads[h][2] = b.steps[k].tick
                            /\ \A j \in 1 .. n : j < h => reads[j][1] < EndOf(k)
    BY <2>1 DEF ReadAt
  <2>4. EndOf(k) \in Nat /\ reads[i][1] \in Nat /\ reads[h][1] \in Nat /\ n \in Nat
    BY <1>2, <1>3, GameFacts, SampleFacts
  <2>5. i = h
    BY <2>2, <2>3, <2>4
  <2>6. a.steps[k].tick = b.steps[k].tick
    BY <2>2, <2>3, <2>5
  <2>7. /\ a.steps[k] \in [tick : Nat, carries : Carried]
        /\ b.steps[k] \in [tick : Nat, carries : Carried]
    BY <1>1, <1>5, LogFacts
  <2> QED
    BY <2>1, <2>6, <2>7
<1>7. a.steps = b.steps
  BY <1>1, <1>5, <1>6, LogFacts, SeqEqual
<1>8. a.next = b.next
  BY <1>7 DEF IsLogOf
<1>9. a.broken = b.broken
  <2>1. a.broken \in BOOLEAN /\ b.broken \in BOOLEAN
    BY <1>1, LogFacts
  <2>2. ReadOn(a, reads, n) /\ ReadOn(b, reads, n)
    BY DEF IsLogOf
  <2> QED
    BY <1>5, <2>1, <2>2 DEF ReadOn
<1> QED
  BY <1>1, <1>7, <1>8, <1>9 DEF Logs

(* Decoding goes on frame by frame, as far as they are whole and decode.    *)
Decoded(m, q, size) ==
  LET d == DecodeVoxelFrames(EndOf(m), size)
  IN  /\ d = [frames |-> d.frames, next |-> EndOf(q), err |-> d.err]
      /\ d.frames = [k \in 1 .. q - m |-> written[m + k]]
      /\ \A k \in m + 1 .. q : written[k].carries # "garbage" /\ EndOf(k) <= size
      /\ d.err \in BOOLEAN
      /\ d.err => q < Len(written) /\ written[q + 1].carries = "garbage" /\ EndOf(q + 1) <= size
      /\ ~d.err /\ q < Len(written) => EndOf(q + 1) > size

LEMMA DecodeIs ==
  ASSUME GameInv, NEW m \in 0 .. Len(written), NEW size \in Nat
  PROVE  \E q \in m .. Len(written) : Decoded(m, q, size)
<1> DEFINE whole == {i \in DOMAIN written : EndOf(m) < EndOf(i) /\ EndOf(i) <= size}
           bad == {i \in whole : written[i].carries = "garbage"}
           good == {i \in whole : \A b \in bad : i < b}
           first == IF good = {} THEN 0 ELSE CHOOSE i \in good : \A j \in good : i <= j
           d == DecodeVoxelFrames(EndOf(m), size)
<1>1. /\ m \in Nat /\ Len(written) \in Nat /\ DOMAIN written = 1 .. Len(written)
      /\ \A i \in 0 .. Len(written) : EndOf(i) \in Nat
      /\ \A i, j \in 0 .. Len(written) : i < j => EndOf(i) < EndOf(j)
  BY GameFacts
<1>2. \A i \in 1 .. Len(written) : EndOf(m) < EndOf(i) <=> m < i
  <2> TAKE i \in 1 .. Len(written)
  <2>1. m < i => EndOf(m) < EndOf(i)
    BY <1>1
  <2>2. i < m => EndOf(i) < EndOf(m)
    BY <1>1
  <2> QED
    BY <1>1, <2>1, <2>2
<1>3. whole = {i \in m + 1 .. Len(written) : EndOf(i) <= size}
  BY <1>1, <1>2
<1>4. /\ bad \subseteq whole /\ good \subseteq whole /\ whole \subseteq 0 .. Len(written)
      /\ \A i \in whole : written[i].carries = "garbage" <=> i \in bad
      /\ \A i \in whole : i \in good <=> \A b \in bad : i < b
  BY <1>1
<1>5. /\ d = [frames |-> d.frames, next |-> d.next, err |-> d.err]
      /\ d.frames = [k \in 1 .. Cardinality(good) |-> written[first + k - 1]]
      /\ d.next = IF good = {} THEN EndOf(m) ELSE EndOf(first + Cardinality(good) - 1)
      /\ d.err = (bad # {})
  <2>1. d = [frames |-> [k \in 1 .. Cardinality(good) |-> written[first + k - 1]],
             next   |-> IF good = {} THEN EndOf(m) ELSE EndOf(first + Cardinality(good) - 1),
             err    |-> bad # {}]
    BY DEF DecodeVoxelFrames
  <2> HIDE DEF d, whole, bad, good, first
  <2> QED
    BY <2>1
<1> HIDE DEF d, whole, bad, good, first
<1>6. \A i, j \in 0 .. Len(written) : i <= j => EndOf(i) <= EndOf(j)
  BY <1>1
<1>7. \E q \in m .. Len(written) :
        /\ good = m + 1 .. q
        /\ bad # {} => q + 1 \in bad
        /\ bad = {} => good = whole
  <2>1. CASE bad # {}
    <3>1. bad \in SUBSET Nat
      BY <1>1, <1>4
    <3>2. PICK b \in bad : \A c \in bad : b <= c
      BY <2>1, <3>1, HasLeast
    <3>3. b \in m + 1 .. Len(written) /\ EndOf(b) <= size
      BY <1>3, <1>4
    <3>4. ASSUME NEW i \in m + 1 .. b - 1
          PROVE  i \in good
      <4>1. i \in 0 .. Len(written) /\ b \in 0 .. Len(written) /\ i <= b
        BY <1>1, <3>3
      <4>2. EndOf(i) <= EndOf(b) /\ EndOf(i) \in Nat /\ EndOf(b) \in Nat
        BY <1>1, <1>6, <4>1
      <4>3. i \in whole
        BY <1>1, <1>3, <3>3, <4>2
      <4>4. \A c \in bad : i < c
        BY <1>1, <3>1, <3>2, <3>3
      <4> QED
        BY <1>4, <4>3, <4>4
    <3>5. ASSUME NEW i \in good
          PROVE  i \in m + 1 .. b - 1
      <4>1. i \in whole /\ i < b
        BY <1>4, <3>2
      <4> QED
        BY <1>1, <1>3, <3>3, <4>1
    <3>6. good = m + 1 .. b - 1
      BY <3>4, <3>5
    <3>7. b - 1 \in m .. Len(written) /\ b = (b - 1) + 1
      BY <1>1, <3>3
    <3> QED
      BY <2>1, <3>2, <3>6, <3>7
  <2>2. CASE bad = {} /\ whole = {}
    <3>1. good = {} /\ m + 1 .. m = {} /\ m \in m .. Len(written)
      BY <1>1, <1>4, <2>2
    <3> QED
      BY <2>2, <3>1
  <2>3. CASE bad = {} /\ whole # {}
    <3>1. PICK q \in whole : \A i \in whole : q >= i
      BY <1>1, <1>4, <2>3, HasGreatest
    <3>2. q \in m + 1 .. Len(written) /\ EndOf(q) <= size
      BY <1>3
    <3>3. good = whole
      BY <1>4, <2>3
    <3>4. ASSUME NEW i \in m + 1 .. q
          PROVE  i \in whole
      <4>1. EndOf(i) <= EndOf(q) /\ EndOf(i) \in Nat /\ EndOf(q) \in Nat
        BY <1>1, <1>6, <3>2
      <4> QED
        BY <1>1, <1>3, <3>2, <4>1
    <3>5. whole \subseteq m + 1 .. q
      BY <1>1, <1>3, <3>1, <3>2
    <3>6. good = m + 1 .. q /\ q \in m .. Len(written)
      <4>1. q \in m .. Len(written)
        BY <1>1, <3>2
      <4>2. \A i : i \in good <=> i \in m + 1 .. q
        BY <3>3, <3>4, <3>5
      <4> QED
        BY <4>1, <4>2
    <3> QED
      BY <2>3, <3>3, <3>6
  <2> QED
    BY <2>1, <2>2, <2>3
<1>8. PICK q \in m .. Len(written) :
        /\ good = m + 1 .. q
        /\ bad # {} => q + 1 \in bad
        /\ bad = {} => good = whole
  BY <1>7
<1>9. q \in Nat /\ q >= m /\ q <= Len(written)
  BY <1>1
<1>10. Cardinality(good) = q - m
  <2>1. Cardinality(m + 1 .. q) = IF m + 1 > q THEN 0 ELSE q - (m + 1) + 1
    BY <1>9, FS_Interval
  <2> QED
    BY <1>8, <1>9, <2>1
<1>11. q > m => first = m + 1
  <2>1. q > m => m + 1 \in good /\ \A j \in good : m + 1 <= j
    BY <1>8, <1>9
  <2>2. \A i \in good : i \in Nat /\ (m + 1 \in good /\ (\A j \in good : i <= j) => i <= m + 1)
    BY <1>8, <1>9
  <2>3. q > m => first \in good /\ \A j \in good : first <= j
    BY <2>1 DEF first
  <2> QED
    BY <1>8, <1>9, <2>1, <2>2, <2>3
<1>12. d.next = EndOf(q)
  <2>1. CASE q = m
    BY <1>5, <1>8, <1>9, <2>1
  <2>2. CASE q > m
    <3>1. good # {} /\ first = m + 1
      <4>1. m + 1 \in m + 1 .. q
        BY <1>1, <1>9, <2>2
      <4> QED
        BY <1>8, <1>11, <2>2, <4>1
    <3>2. first + Cardinality(good) - 1 = q
      BY <1>9, <1>10, <3>1
    <3> QED
      BY <1>5, <3>1, <3>2
  <2> QED
    BY <1>9, <2>1, <2>2
<1>13. d.frames = [k \in 1 .. q - m |-> written[m + k]]
  <2>1. ASSUME NEW k \in 1 .. q - m
        PROVE  first + k - 1 = m + k
    BY <1>9, <1>11
  <2> QED
    BY <1>5, <1>10, <2>1
<1>14. \A k \in m + 1 .. q : written[k].carries # "garbage" /\ EndOf(k) <= size
  <2> TAKE k \in m + 1 .. q
  <2>1. k \in good /\ k \in whole
    BY <1>4, <1>8
  <2>2. k \notin bad
    BY <1>4, <1>9, <2>1
  <2> QED
    BY <1>3, <1>4, <2>1, <2>2
<1>15. d.err => q < Len(written) /\ written[q + 1].carries = "garbage" /\ EndOf(q + 1) <= size
  <2>1. d.err => q + 1 \in bad /\ q + 1 \in whole
    BY <1>4, <1>5, <1>8
  <2> QED
    BY <1>3, <1>4, <1>9, <2>1
<1>16. ~d.err /\ q < Len(written) => EndOf(q + 1) > size
  <2>1. SUFFICES ASSUME ~d.err, q < Len(written)
                 PROVE  EndOf(q + 1) > size
    OBVIOUS
  <2>2. whole = m + 1 .. q
    BY <1>5, <1>8, <2>1
  <2>3. q + 1 \in m + 1 .. Len(written) /\ q + 1 \notin whole /\ EndOf(q + 1) \in Nat
    BY <1>1, <1>9, <2>1, <2>2
  <2> QED
    BY <1>3, <2>3
<1> QED
  BY <1>5, <1>12, <1>13, <1>14, <1>15, <1>16 DEF Decoded, d

(* The next read continues the log.                                         *)
LEMMA ReadIs ==
  ASSUME GameInv, NEW reads \in Sampled, NEW n \in 0 .. Len(reads) - 1,
         NEW l, IsLogOf(l, reads, n)
  PROVE  IsLogOf(Read(l, reads[n + 1][1], reads[n + 1][2]), reads, n + 1)
<1> DEFINE size == reads[n + 1][1]
           tick == reads[n + 1][2]
           m == Len(l.steps)
           after == Read(l, size, tick)
<1>1. /\ l \in Logs /\ m \in Nat /\ m \in 0 .. Len(written) /\ l.next = EndOf(m)
      /\ HasRead(l, reads, n) /\ ReadOn(l, reads, n)
  BY LogFacts, GameFacts DEF IsLogOf
<1>2. /\ n \in Nat /\ n + 1 \in 1 .. Len(reads) /\ size \in Nat /\ tick \in Nat
      /\ \A i \in 1 .. n + 1 : reads[i][1] \in Nat /\ (i \in 1 .. n \/ i = n + 1)
  BY SampleFacts
<1>3. /\ Len(written) \in Nat
      /\ \A i \in 0 .. Len(written) : EndOf(i) \in Nat
      /\ \A i, j \in 0 .. Len(written) : i < j => EndOf(i) < EndOf(j)
  BY GameFacts
<1>4. \A e \in Nat : Known(reads, n + 1, e) <=> Known(reads, n, e) \/ size >= e
  BY <1>2 DEF Known
<1>5. \A e, t \in Nat : ReadAt(reads, n, e, t) => ReadAt(reads, n + 1, e, t)
  <2> SUFFICES ASSUME NEW e \in Nat, NEW t \in Nat, ReadAt(reads, n, e, t)
               PROVE  ReadAt(reads, n + 1, e, t)
    OBVIOUS
  <2>1. PICK i \in 1 .. n : /\ reads[i][1] >= e /\ reads[i][2] = t
                            /\ \A j \in 1 .. n : j < i => reads[j][1] < e
    BY DEF ReadAt
  <2>2. i \in 1 .. n + 1 /\ \A j \in 1 .. n + 1 : j < i => j \in 1 .. n
    BY <1>2
  <2> QED
    BY <2>1, <2>2 DEF ReadAt
<1>6. CASE l.broken
  <2>1. after = l
    BY <1>6 DEF Read
  <2>2. HasRead(l, reads, n + 1)
    <3>1. \A k \in 1 .. m : EndOf(k) \in Nat /\ l.steps[k].tick \in Nat
      BY <1>1, <1>3, LogFacts
    <3> QED
      BY <1>1, <1>5, <3>1 DEF HasRead
  <2>3. ReadOn(l, reads, n + 1)
    BY <1>1, <1>2, <1>3, <1>4, <1>6 DEF ReadOn
  <2> QED
    BY <1>1, <2>1, <2>2, <2>3 DEF IsLogOf
<1>7. CASE ~l.broken
  <2> DEFINE d == DecodeVoxelFrames(l.next, size)
             more == [k \in DOMAIN d.frames |-> [tick |-> tick, carries |-> d.frames[k].carries]]
  <2>1. PICK q \in m .. Len(written) : Decoded(m, q, size)
    BY <1>1, <1>2, DecodeIs
  <2>2. q \in Nat /\ q >= m /\ q <= Len(written)
    BY <1>1, <1>3
  <2>3. after = [steps |-> l.steps \o more, next |-> d.next, broken |-> d.err]
    <3>1. (IF tick < 0 THEN 0 ELSE tick) = tick
      BY <1>2
    <3> QED
      BY <1>7, <3>1 DEF Read, NextOf
  <2>4. /\ d.frames = [k \in 1 .. q - m |-> written[m + k]]
        /\ d.next = EndOf(q)
        /\ \A k \in m + 1 .. q : written[k].carries # "garbage" /\ EndOf(k) <= size
        /\ d.err \in BOOLEAN
        /\ d.err => q < Len(written) /\ written[q + 1].carries = "garbage" /\ EndOf(q + 1) <= size
        /\ ~d.err /\ q < Len(written) => EndOf(q + 1) > size
    BY <1>1, <2>1 DEF Decoded
  <2> HIDE DEF d, after
  <2>5. more = [k \in 1 .. q - m |-> [tick |-> tick, carries |-> written[m + k].carries]]
    BY <2>4
  <2>6. \A k \in 1 .. q - m : written[m + k].carries \in Carried
    <3>1. \A k \in 1 .. q - m : m + k \in 1 .. Len(written)
      BY <1>1, <1>3, <2>2
    <3> QED
      BY <3>1, GameFacts
  <2>7. more \in Seq([tick : Nat, carries : Carried]) /\ Len(more) = q - m
    <3>1. \A k \in 1 .. q - m : more[k] \in [tick : Nat, carries : Carried]
      BY <1>2, <2>5, <2>6
    <3>2. more = [k \in 1 .. q - m |-> more[k]] /\ q - m \in Nat
      BY <1>1, <2>2, <2>5
    <3> DEFINE c == q - m
               T == [tick : Nat, carries : Carried]
    <3>3. \A k \in 1 .. c : more[k] \in T
      BY <3>1
    <3>4. more = [k \in 1 .. c |-> more[k]] /\ c \in Nat
      BY <3>2
    <3> HIDE DEF more, c, T
    <3>5. more \in Seq(T) /\ Len(more) = c
      BY <3>3, <3>4, ASeqOf
    <3> QED
      BY <3>5 DEF c, T
  <2> HIDE DEF more
  <2>8. l.steps \in Seq([tick : Nat, carries : Carried])
    BY <1>1, LogFacts
  <2>9. /\ l.steps \o more \in Seq([tick : Nat, carries : Carried])
        /\ Len(l.steps \o more) = q
        /\ \A k \in 1 .. m : (l.steps \o more)[k] = l.steps[k]
        /\ \A k \in m + 1 .. q : (l.steps \o more)[k] = more[k - m]
    <3>1. /\ l.steps \o more \in Seq([tick : Nat, carries : Carried])
          /\ Len(l.steps \o more) = m + Len(more)
          /\ \A k \in 1 .. m + Len(more) :
               (l.steps \o more)[k] = IF k <= m THEN l.steps[k] ELSE more[k - m]
      BY <2>7, <2>8, ConcatProperties
    <3>2. m + Len(more) = q
      BY <1>1, <2>2, <2>7
    <3>3. /\ \A k \in 1 .. m : k \in 1 .. q /\ k <= m
          /\ \A k \in m + 1 .. q : k \in 1 .. q /\ ~(k <= m)
      BY <1>1, <2>2
    <3> HIDE DEF m
    <3> QED
      BY <3>1, <3>2, <3>3
  <2>10. after \in Logs /\ after.steps = l.steps \o more /\ after.next = EndOf(q) /\ after.broken = d.err
    <3>1. EndOf(q) \in Nat
      BY <1>3, <2>2
    <3> QED
      BY <2>3, <2>4, <2>9, <3>1 DEF Logs
  <2>11. m < Len(written) => ~Known(reads, n, EndOf(m + 1))
    BY <1>1, <1>3, <1>7 DEF ReadOn
  <2>12. \A k \in m + 1 .. Len(written) : ~Known(reads, n, EndOf(k))
    <3> SUFFICES ASSUME NEW k \in m + 1 .. Len(written), Known(reads, n, EndOf(k))
                 PROVE  FALSE
      OBVIOUS
    <3>1. PICK i \in 1 .. n : reads[i][1] >= EndOf(k)
      BY DEF Known
    <3>2. /\ m + 1 \in 0 .. Len(written) /\ k \in 0 .. Len(written) /\ m < Len(written)
          /\ m + 1 = k \/ m + 1 < k
      <4>1. m \in Nat /\ Len(written) \in Nat
        BY <1>1, <1>3
      <4> HIDE DEF m
      <4> QED
        BY <4>1
    <3> HIDE DEF m
    <3>3. EndOf(m + 1) \in Nat /\ EndOf(k) \in Nat /\ reads[i][1] \in Nat
      <4>1. i \in 1 .. n + 1
        BY <1>2
      <4>2. reads[i][1] \in Nat
        BY <1>2, <4>1
      <4>3. EndOf(m + 1) \in Nat /\ EndOf(k) \in Nat
        BY <1>3, <3>2
      <4> QED
        BY <4>2, <4>3
    <3>4. EndOf(m + 1) <= EndOf(k)
      BY <1>3, <3>2, <3>3
    <3> QED
      BY <2>11, <3>1, <3>2, <3>3, <3>4 DEF Known
  <2>13. ASSUME NEW k \in 1 .. q
         PROVE  /\ written[k].carries # "garbage"
                /\ after.steps[k].carries = written[k].carries
                /\ ReadAt(reads, n + 1, EndOf(k), after.steps[k].tick)
    <3>1. CASE k \in 1 .. m
      <4>1. EndOf(k) \in Nat /\ l.steps[k].tick \in Nat
        BY <1>1, <1>3, <3>1, LogFacts
      <4> QED
        BY <1>1, <1>5, <2>9, <2>10, <3>1, <4>1 DEF HasRead
    <3>2. CASE k \in m + 1 .. q
      <4>1. k - m \in 1 .. q - m /\ m + (k - m) = k
        BY <1>1, <2>2, <3>2
      <4>2. after.steps[k] = [tick |-> tick, carries |-> written[k].carries]
        BY <2>5, <2>9, <2>10, <3>2, <4>1
      <4>3. ~Known(reads, n, EndOf(k)) /\ EndOf(k) <= size /\ EndOf(k) \in Nat
        <5>1. k \in m + 1 .. Len(written) /\ k \in 0 .. Len(written)
          BY <1>1, <1>3, <2>2, <3>2
        <5> QED
          BY <1>3, <2>4, <2>12, <3>2, <5>1
      <4>4. \A j \in 1 .. n + 1 : j < n + 1 => reads[j][1] < EndOf(k)
        BY <1>2, <4>3 DEF Known
      <4>5. ReadAt(reads, n + 1, EndOf(k), tick)
        <5>1. n + 1 \in 1 .. n + 1 /\ reads[n + 1][1] >= EndOf(k)
          BY <1>2, <4>3
        <5> QED
          BY <4>4, <5>1 DEF ReadAt
      <4> QED
        BY <2>4, <3>2, <4>2, <4>5
    <3> QED
      BY <1>1, <2>2, <3>1, <3>2
  <2>14. HasRead(after, reads, n + 1)
    BY <2>9, <2>10, <2>13 DEF HasRead
  <2>15. q < Len(written) => (Known(reads, n + 1, EndOf(q + 1)) <=> size >= EndOf(q + 1))
    <3>1. q < Len(written) => q + 1 \in m + 1 .. Len(written) /\ EndOf(q + 1) \in Nat
      BY <1>1, <1>3, <2>2
    <3> QED
      BY <1>4, <2>12, <3>1
  <2>16. ReadOn(after, reads, n + 1)
    <3>1. q < Len(written) => EndOf(q + 1) \in Nat
      BY <1>3, <2>2
    <3>2. Len(after.steps) = q /\ (q + 1 <= Len(written) <=> q < Len(written))
      BY <1>3, <2>2, <2>9, <2>10
    <3> QED
      BY <1>2, <2>4, <2>10, <2>15, <3>1, <3>2 DEF ReadOn
  <2>17. IsLogOf(after, reads, n + 1)
    BY <2>2, <2>9, <2>10, <2>14, <2>16 DEF IsLogOf
  <2> QED
    BY <2>17 DEF after
<1>8. l.broken \in BOOLEAN
  BY <1>1, LogFacts
<1> QED
  BY <1>6, <1>7, <1>8

(* A read no longer than an earlier one is none.                            *)
LEMMA SkipIs ==
  ASSUME GameInv, NEW reads \in Sampled, NEW n \in 0 .. Len(reads) - 1,
         NEW l, IsLogOf(l, reads, n), NEW seen \in Nat,
         seen = 0 \/ Known(reads, n, seen), reads[n + 1][1] <= seen
  PROVE  IsLogOf(l, reads, n + 1)
<1> DEFINE size == reads[n + 1][1]
           m == Len(l.steps)
<1>1. /\ l \in Logs /\ m \in Nat /\ m \in 0 .. Len(written)
      /\ HasRead(l, reads, n) /\ ReadOn(l, reads, n)
  BY LogFacts, GameFacts DEF IsLogOf
<1>2. /\ n \in Nat /\ n + 1 \in 1 .. Len(reads) /\ size \in Nat
      /\ \A i \in 1 .. n + 1 : reads[i][1] \in Nat /\ (i \in 1 .. n \/ i = n + 1)
  BY SampleFacts
<1>3. /\ Len(written) \in Nat
      /\ \A i \in 0 .. Len(written) : EndOf(i) \in Nat
      /\ \A i \in 1 .. Len(written) : EndOf(i) > 0
  BY GameFacts
<1>4. ASSUME NEW e \in Nat, e > 0
      PROVE  Known(reads, n + 1, e) <=> Known(reads, n, e)
  <2>1. Known(reads, n, e) => Known(reads, n + 1, e)
    BY <1>2 DEF Known
  <2>2. ASSUME NEW i \in 1 .. n + 1, reads[i][1] >= e
        PROVE  Known(reads, n, e)
    <3>1. CASE i \in 1 .. n
      BY <2>2, <3>1 DEF Known
    <3>2. CASE i = n + 1
      <4>1. seen >= e
        BY <1>2, <2>2, <3>2
      <4>2. PICK j \in 1 .. n : reads[j][1] >= seen
        BY <1>4, <4>1 DEF Known
      <4>3. reads[j][1] \in Nat
        BY <1>2
      <4> QED
        BY <4>1, <4>2, <4>3 DEF Known
    <3> QED
      BY <1>2, <3>1, <3>2
  <2> QED
    BY <2>1, <2>2 DEF Known
<1>5. \A e, t \in Nat : ReadAt(reads, n, e, t) => ReadAt(reads, n + 1, e, t)
  <2> SUFFICES ASSUME NEW e \in Nat, NEW t \in Nat, ReadAt(reads, n, e, t)
               PROVE  ReadAt(reads, n + 1, e, t)
    OBVIOUS
  <2>1. PICK i \in 1 .. n : /\ reads[i][1] >= e /\ reads[i][2] = t
                            /\ \A j \in 1 .. n : j < i => reads[j][1] < e
    BY DEF ReadAt
  <2>2. i \in 1 .. n + 1 /\ \A j \in 1 .. n + 1 : j < i => j \in 1 .. n
    BY <1>2
  <2> QED
    BY <2>1, <2>2 DEF ReadAt
<1>6. HasRead(l, reads, n + 1)
  <2>1. \A k \in 1 .. m : EndOf(k) \in Nat /\ l.steps[k].tick \in Nat
    BY <1>1, <1>3, LogFacts
  <2> QED
    BY <1>1, <1>5, <2>1 DEF HasRead
<1>7. ReadOn(l, reads, n + 1)
  <2>1. m + 1 <= Len(written) => EndOf(m + 1) \in Nat /\ EndOf(m + 1) > 0
    BY <1>1, <1>3
  <2>2. m + 1 <= Len(written) => (Known(reads, n + 1, EndOf(m + 1)) <=> Known(reads, n, EndOf(m + 1)))
    BY <1>4, <2>1
  <2> QED
    BY <1>1, <2>2 DEF ReadOn
<1> QED
  BY <1>6, <1>7 DEF IsLogOf

(* Reading a log again from its samples.                                    *)
Readings == [seen : Nat, log : Logs]

ReadSoFar(reads, i) ==
  {x \in Readings : IsLogOf(x.log, reads, i) /\ (x.seen = 0 \/ Known(reads, i, x.seen))}

AfterRead(reads, before, i) ==
  IF reads[i][1] <= before.seen THEN before
  ELSE [seen |-> reads[i][1], log |-> Read(before.log, reads[i][1], reads[i][2])]

LEMMA NothingRead ==
  ASSUME GameInv, NEW reads \in Sampled
  PROVE  [seen |-> 0, log |-> NewVoxelLog] \in ReadSoFar(reads, 0)
<1>1. NewVoxelLog \in Logs /\ NewVoxelLog.steps = <<>> /\ NewVoxelLog.next = 0
        /\ NewVoxelLog.broken = FALSE
  BY DEF NewVoxelLog, Logs
<1> HIDE DEF NewVoxelLog
<1>2. HasRead(NewVoxelLog, reads, 0)
  BY <1>1 DEF HasRead
<1>3. ReadOn(NewVoxelLog, reads, 0)
  BY <1>1 DEF ReadOn, Known
<1>4. IsLogOf(NewVoxelLog, reads, 0)
  BY <1>1, <1>2, <1>3, GameFacts DEF IsLogOf
<1> QED
  BY <1>1, <1>4 DEF ReadSoFar, Readings

LEMMA AfterReadIs ==
  ASSUME GameInv, NEW reads \in Sampled, NEW i \in 1 .. Len(reads),
         NEW x \in ReadSoFar(reads, i - 1)
  PROVE  AfterRead(reads, x, i) \in ReadSoFar(reads, i)
<1> DEFINE n == i - 1
           size == reads[i][1]
<1>1. /\ n \in 0 .. Len(reads) - 1 /\ n + 1 = i /\ i \in Nat
      /\ size \in Nat /\ reads[i][2] \in Nat
  BY SampleFacts
<1>2. x.seen \in Nat /\ IsLogOf(x.log, reads, n) /\ (x.seen = 0 \/ Known(reads, n, x.seen))
  BY DEF ReadSoFar, Readings
<1>3. CASE size <= x.seen
  <2>1. IsLogOf(x.log, reads, n + 1)
    BY <1>1, <1>2, <1>3, SkipIs
  <2>2. Known(reads, n, x.seen) => Known(reads, i, x.seen)
    <3>1. \A j \in 1 .. n : j \in 1 .. i
      BY <1>1
    <3> QED
      BY <3>1 DEF Known
  <2>3. AfterRead(reads, x, i) = x
    BY <1>3 DEF AfterRead
  <2> QED
    BY <1>1, <1>2, <2>1, <2>2, <2>3 DEF ReadSoFar
<1>4. CASE ~(size <= x.seen)
  <2> DEFINE l == Read(x.log, size, reads[i][2])
  <2>1. IsLogOf(l, reads, i)
    BY <1>1, <1>2, ReadIs
  <2>2. l \in Logs
    BY <2>1 DEF IsLogOf
  <2>3. Known(reads, i, size)
    BY <1>1 DEF Known
  <2>4. AfterRead(reads, x, i) = [seen |-> size, log |-> l]
    BY <1>4 DEF AfterRead
  <2> HIDE DEF l, size
  <2> QED
    BY <1>1, <2>1, <2>2, <2>3, <2>4 DEF ReadSoFar, Readings
<1> QED
  BY <1>3, <1>4

LEMMA ReconstructedIs ==
  ASSUME GameInv, NEW reads \in Sampled
  PROVE  IsLogOf(Reconstructed(reads), reads, Len(reads))
<1> DEFINE n == Len(reads)
           zero == [seen |-> 0, log |-> NewVoxelLog]
           Body(f) == [i \in 0 .. n |-> IF i = 0 THEN zero ELSE AfterRead(reads, f[i - 1], i)]
           walk == CHOOSE f : f = Body(f)
           g == [i \in 1 .. n |-> [x \in Readings |->
                   IF x \in ReadSoFar(reads, i - 1) THEN AfterRead(reads, x, i) ELSE x]]
<1>1. n \in Nat
  BY SampleFacts
<1>2. Reconstructed(reads) = walk[n].log
  BY DEF Reconstructed, AfterRead
<1>3. zero \in ReadSoFar(reads, 0) /\ zero \in Readings
  BY NothingRead DEF ReadSoFar
<1>4. g \in Strides(n, Readings)
  <2>1. \A i \in 1 .. n : \A x \in ReadSoFar(reads, i - 1) : AfterRead(reads, x, i) \in Readings
    BY AfterReadIs DEF ReadSoFar
  <2> QED
    BY <2>1 DEF Strides
<1>5. \A i \in 1 .. n : \A x \in ReadSoFar(reads, i - 1) : g[i][x] = AfterRead(reads, x, i)
  BY DEF ReadSoFar
<1> HIDE DEF n, zero, g
<1>6. PICK f : IsWalk(n, Readings, zero, g, f)
  BY <1>1, <1>3, <1>4, Walk
<1>7. ASSUME NEW h, h[0] = zero,
             \A i \in 1 .. n : h[i - 1] \in ReadSoFar(reads, i - 1) =>
                                 h[i] = AfterRead(reads, h[i - 1], i)
      PROVE  \A i \in 0 .. n : h[i] \in ReadSoFar(reads, i)
  <2> DEFINE T == {i \in 0 .. n : h[i] \in ReadSoFar(reads, i)}
  <2>1. 0 \in T
    BY <1>1, <1>3, <1>7
  <2>2. ASSUME NEW i \in 1 .. n, i - 1 \in T PROVE i \in T
    <3>1. h[i - 1] \in ReadSoFar(reads, i - 1) /\ i \in 0 .. n
      BY <1>1, <2>2
    <3>2. h[i] \in ReadSoFar(reads, i)
      BY <1>7, <3>1, AfterReadIs DEF n
    <3> QED
      BY <3>1, <3>2
  <2> HIDE DEF T
  <2>3. 0 .. n \subseteq T
    BY <1>1, <2>1, <2>2, UpTo
  <2> QED
    BY <2>3 DEF T
<1>8. \A i \in 1 .. n : f[i - 1] \in ReadSoFar(reads, i - 1) => f[i] = AfterRead(reads, f[i - 1], i)
  BY <1>5, <1>6 DEF IsWalk
<1>9. \A i \in 0 .. n : f[i] \in ReadSoFar(reads, i)
  BY <1>6, <1>7, <1>8 DEF IsWalk
<1>10. f = Body(f)
  <2>1. \A i \in 0 .. n : i = 0 \/ (i \in 1 .. n /\ i - 1 \in 0 .. n)
    BY <1>1
  <2> QED
    BY <1>6, <1>8, <1>9, <2>1 DEF IsWalk
<1>11. walk = Body(walk)
  <2> HIDE DEF Body
  <2> QED
    BY <1>10
<1>12. walk[0] = zero /\ \A i \in 1 .. n : walk[i] = AfterRead(reads, walk[i - 1], i)
  <2> HIDE DEF walk
  <2> QED
    BY <1>1, <1>11
<1> HIDE DEF walk
<1>13. walk[n] \in ReadSoFar(reads, n)
  <2>1. n \in 0 .. n
    BY <1>1
  <2> QED
    BY <1>7, <1>12, <2>1
<1> QED
  BY <1>2, <1>13 DEF ReadSoFar, n

(* Reads that tell the same give the same log.                              *)
LEMMA SameReads ==
  ASSUME GameInv, NEW l, NEW a, NEW n, NEW b, NEW m, IsLogOf(l, a, n),
         \A e, t \in Nat : e > 0 /\ ReadAt(a, n, e, t) => ReadAt(b, m, e, t),
         \A e \in Nat : e > 0 => (Known(a, n, e) <=> Known(b, m, e))
  PROVE  IsLogOf(l, b, m)
<1>1. /\ l \in Logs /\ Len(l.steps) \in Nat /\ Len(l.steps) <= Len(written)
      /\ \A k \in 1 .. Len(l.steps) : l.steps[k].tick \in Nat
      /\ HasRead(l, a, n) /\ ReadOn(l, a, n)
  BY LogFacts DEF IsLogOf
<1>2. /\ Len(written) \in Nat
      /\ \A i \in 1 .. Len(written) : EndOf(i) \in Nat /\ EndOf(i) > 0
  BY GameFacts
<1>3. HasRead(l, b, m)
  <2>1. \A k \in 1 .. Len(l.steps) : EndOf(k) \in Nat /\ EndOf(k) > 0
    BY <1>1, <1>2
  <2> QED
    BY <1>1, <2>1 DEF HasRead
<1>4. ReadOn(l, b, m)
  <2>1. Len(l.steps) + 1 <= Len(written) =>
          EndOf(Len(l.steps) + 1) \in Nat /\ EndOf(Len(l.steps) + 1) > 0
    BY <1>1, <1>2
  <2> QED
    BY <1>1, <2>1 DEF ReadOn
<1> QED
  BY <1>3, <1>4 DEF IsLogOf

(* The parser's reads: always longer, never earlier, of what the game had   *)
(* written by then.                                                         *)
SamplesInv ==
  /\ samples \in Seq((0 .. Slots) \X (0 .. MaxTick))
  /\ polled \in 0 .. Slots /\ polled <= Total
  /\ polled = IF samples = <<>> THEN 0 ELSE samples[Len(samples)][1]
  /\ \A i, j \in DOMAIN samples : i < j => /\ samples[i][1] < samples[j][1]
                                           /\ samples[i][2] <= samples[j][2]
  /\ \A i \in DOMAIN samples : samples[i][2] <= tickNow
  /\ \A i \in DOMAIN samples : \A k \in DOMAIN written :
       EndOf(k) <= samples[i][1] => written[k].at <= samples[i][2]

LogInv == IsLogOf(vlog, samples, Len(samples))

CloudInv ==
  /\ det \in BOOLEAN
  /\ cloud.state \in {"open", "nothing", "cloud"}
  /\ TicksAreSound

VoxelInv == GameInv /\ SamplesInv /\ LogInv /\ CloudInv

LEMMA VoxelConstants ==
  /\ Slots \in Nat /\ Pace \in Nat /\ SettleSteps \in Nat /\ MaxFrames \in Nat /\ MaxTick \in Nat
  /\ Slots > 0 /\ Pace > 0 /\ SettleSteps > 0
  /\ \A k \in FrameKinds : k.carries \in Carried /\ k.length \in Nat /\ k.length > 0
<1>1. /\ Slots \in Nat \ {0} /\ Pace \in Nat \ {0} /\ SettleSteps \in Nat \ {0}
      /\ MaxFrames \in Nat \ {0} /\ MaxTick \in Nat \ {0}
  BY VoxelAssumption
<1>2. \A k \in FrameKinds : k \in [carries : Carried, length : Nat \ {0}]
  BY VoxelAssumption DEF Carried
<1>3. \A k \in FrameKinds : k.carries \in Carried /\ k.length \in Nat \ {0}
  BY <1>2
<1> QED
  BY <1>1, <1>3

LEMMA TheSamples ==
  ASSUME SamplesInv, GameInv
  PROVE  /\ samples \in Sampled
         /\ Len(samples) \in Nat /\ DOMAIN samples = 1 .. Len(samples)
         /\ \A i \in 1 .. Len(samples) : /\ samples[i][1] \in Nat /\ samples[i][1] <= polled
                                         /\ samples[i][2] \in Nat
         /\ polled \in Nat
         /\ \A e \in Nat : e > 0 => (Known(samples, Len(samples), e) <=> e <= polled)
<1>1. Len(samples) \in Nat /\ DOMAIN samples = 1 .. Len(samples)
  BY DEF SamplesInv
<1>2. \A i \in 1 .. Len(samples) : samples[i] \in (0 .. Slots) \X (0 .. MaxTick)
  BY <1>1, ElementOfSeq DEF SamplesInv
<1>3. \A i \in 1 .. Len(samples) : samples[i][1] \in Nat /\ samples[i][2] \in Nat
  BY <1>2, VoxelConstants
<1>4. samples \in Sampled
  <2>1. \A i \in 1 .. Len(samples) : samples[i] \in Nat \X Nat
    BY <1>2, VoxelConstants
  <2>2. samples = [i \in 1 .. Len(samples) |-> samples[i]]
    BY <1>1 DEF SamplesInv
  <2> QED
    BY <1>1, <2>1, <2>2, ASeqOf DEF Sampled
<1>5. polled \in Nat /\ (samples # <<>> => polled = samples[Len(samples)][1])
        /\ (samples = <<>> => polled = 0)
  BY VoxelConstants DEF SamplesInv
<1>6. ASSUME NEW i \in 1 .. Len(samples)
      PROVE  samples[i][1] <= polled
  <2>1. samples # <<>> /\ Len(samples) \in 1 .. Len(samples)
    BY <1>1
  <2>2. i < Len(samples) => samples[i][1] < samples[Len(samples)][1]
    BY <1>1, <2>1 DEF SamplesInv
  <2> QED
    BY <1>1, <1>3, <1>5, <2>1, <2>2
<1>7. ASSUME NEW e \in Nat, e > 0
      PROVE  Known(samples, Len(samples), e) <=> e <= polled
  <2>1. Known(samples, Len(samples), e) => e <= polled
    BY <1>3, <1>5, <1>6 DEF Known
  <2>2. e <= polled => Known(samples, Len(samples), e)
    <3>1. SUFFICES ASSUME e <= polled PROVE Known(samples, Len(samples), e)
      OBVIOUS
    <3>2. samples # <<>>
      BY <1>5, <1>7, <3>1
    <3>3. Len(samples) \in 1 .. Len(samples)
      BY <1>1, <3>2 DEF SamplesInv
    <3> QED
      BY <1>3, <1>5, <3>1, <3>2, <3>3 DEF Known
  <2> QED
    BY <2>1, <2>2
<1> QED
  BY <1>1, <1>3, <1>4, <1>5, <1>6, <1>7

LEMMA VoxelInvInit == VoxelInit => VoxelInv
<1> SUFFICES ASSUME VoxelInit PROVE VoxelInv
  OBVIOUS
<1>1. GameInv
  BY VoxelConstants DEF VoxelInit, GameInv, EndOf
<1>2. SamplesInv
  BY VoxelConstants DEF VoxelInit, SamplesInv, Total, EndOf
<1>3. LogInv
  <2>1. vlog = NewVoxelLog /\ samples \in Sampled /\ Len(samples) = 0
    BY <1>1, <1>2, TheSamples DEF VoxelInit
  <2>2. [seen |-> 0, log |-> vlog] \in ReadSoFar(samples, 0)
    BY <1>1, <2>1, NothingRead
  <2> QED
    BY <2>1, <2>2 DEF LogInv, ReadSoFar
<1>4. CloudInv
  BY DEF VoxelInit, CloudInv, TicksAreSound, Open
<1> QED
  BY <1>1, <1>2, <1>3, <1>4 DEF VoxelInv

(* The game appends a frame: what ended where still does, and the new one   *)
(* ends past everything there was.                                          *)
LEMMA FrameIsAppended ==
  ASSUME GameInv, WriteFrame
  PROVE  /\ GameInv'
         /\ Len(written') = Len(written) + 1
         /\ \A i \in 1 .. Len(written) : written'[i] = written[i]
         /\ \A i \in 0 .. Len(written) : EndOf(i)' = EndOf(i)
         /\ Total \in Nat /\ Total' \in Nat /\ Total' > Total
         /\ \A i \in Nat : i = Len(written) + 1 => EndOf(i)' = Total'
<1>0. PICK n \in Nat : n = Len(written)
  BY GameFacts
<1> DEFINE F == [carries : Carried, end : Nat, at : Nat]
<1>1. PICK k \in FrameKinds :
        written' = Append(written, [carries |-> k.carries, end |-> Total + k.length, at |-> tickNow])
  BY DEF WriteFrame
<1> DEFINE e == [carries |-> k.carries, end |-> Total + k.length, at |-> tickNow]
<1>2. /\ n \in Nat /\ DOMAIN written = 1 .. n
      /\ \A i \in 0 .. n : EndOf(i) \in Nat
      /\ \A i, j \in 0 .. n : i < j => EndOf(i) < EndOf(j)
      /\ \A i \in 1 .. n : written[i].at \in Nat
  BY <1>0, GameFacts
<1>3. Total = EndOf(n) /\ Total \in Nat
  BY <1>0, <1>2 DEF Total
<1>4. k.carries \in Carried /\ k.length \in Nat /\ k.length > 0 /\ tickNow \in Nat
  BY VoxelConstants DEF GameInv
<1>5. e \in F /\ written \in Seq(F)
  BY <1>3, <1>4 DEF GameInv
<1>6. /\ written' \in Seq(F) /\ Len(written') = n + 1
      /\ \A i \in 1 .. n : written'[i] = written[i]
      /\ written'[n + 1] = e
  <2> HIDE DEF e, F
  <2> QED
    BY <1>0, <1>1, <1>5, AppendProperties DEF e
<1>7. e.end = Total + k.length /\ e.at = tickNow
  OBVIOUS
<1> HIDE DEF e
<1>8. \A i \in 0 .. n : EndOf(i)' = EndOf(i)
  BY <1>2, <1>6 DEF EndOf
<1>9. EndOf(n + 1)' = Total + k.length
  BY <1>2, <1>6, <1>7 DEF EndOf
<1>10. Total' = EndOf(n + 1)'
  BY <1>6 DEF Total, EndOf
<1>11. /\ n < MaxFrames /\ tickNow' = tickNow
       /\ written # <<>> => tickNow >= written[n].at + Pace
  BY <1>0 DEF WriteFrame, Last
<1>12. GameInv'
  <2>1. \A i, j \in 0 .. n + 1 : i < j => EndOf(i)' < EndOf(j)'
    <3> SUFFICES ASSUME NEW i \in 0 .. n + 1, NEW j \in 0 .. n + 1, i < j
                 PROVE  EndOf(i)' < EndOf(j)'
      OBVIOUS
    <3>1. i \in 0 .. n /\ EndOf(i)' = EndOf(i) /\ EndOf(i) \in Nat
      BY <1>2, <1>8
    <3>2. CASE j \in 0 .. n
      BY <1>2, <1>8, <3>1, <3>2
    <3>3. CASE j = n + 1
      <4>1. EndOf(i) <= EndOf(n)
        BY <1>2, <3>1
      <4> QED
        BY <1>3, <1>4, <1>9, <3>1, <3>3, <4>1
    <3> QED
      BY <1>2, <3>2, <3>3
  <2>2. \A i \in 1 .. n : written[i].at + Pace <= tickNow
    <3> TAKE i \in 1 .. n
    <3>1. written # <<>> /\ n \in 1 .. n
      BY <1>2
    <3>2. i < n => written[i].at + Pace <= written[n].at
      BY <1>2, <3>1 DEF GameInv
    <3>3. written[i].at \in Nat /\ written[n].at \in Nat /\ Pace \in Nat
      BY <1>2, <3>1, VoxelConstants
    <3> QED
      BY <1>2, <1>4, <1>11, <3>1, <3>2, <3>3
  <2>3. DOMAIN written' = 1 .. n + 1
    BY <1>6
  <2>4. \A i, j \in 1 .. n + 1 : i < j => written'[i].at + Pace <= written'[j].at
    <3> SUFFICES ASSUME NEW i \in 1 .. n + 1, NEW j \in 1 .. n + 1, i < j
                 PROVE  written'[i].at + Pace <= written'[j].at
      OBVIOUS
    <3>1. i \in 1 .. n /\ (j \in 1 .. n \/ j = n + 1)
      BY <1>2
    <3>2. j \in 1 .. n => written[i].at + Pace <= written[j].at
      BY <1>2, <3>1 DEF GameInv
    <3> QED
      BY <1>6, <1>7, <2>2, <3>1, <3>2
  <2>5. \A i \in 1 .. n + 1 : written'[i].at <= tickNow
    <3>1. \A i \in 1 .. n : written[i].at <= tickNow
      BY <1>2 DEF GameInv
    <3>2. \A i \in 1 .. n + 1 : i \in 1 .. n \/ i = n + 1
      OBVIOUS
    <3>3. written'[n + 1].at = tickNow /\ tickNow <= tickNow
      BY <1>4, <1>6, <1>7
    <3> QED
      BY <1>6, <3>1, <3>2, <3>3
  <2>6. n + 1 <= MaxFrames
    BY <1>2, <1>11, VoxelConstants
  <2>7. tickNow \in 0 .. MaxTick
    BY DEF GameInv
  <2> QED
    BY <1>6, <1>11, <2>1, <2>3, <2>4, <2>5, <2>6, <2>7 DEF GameInv
<1>13. Total' > Total /\ Total' \in Nat
  BY <1>3, <1>4, <1>9, <1>10
<1> QED
  BY <1>0, <1>3, <1>6, <1>8, <1>10, <1>12, <1>13

LEMMA WriteKeeps == VoxelInv /\ WriteFrame => VoxelInv'
<1> SUFFICES ASSUME VoxelInv, WriteFrame PROVE VoxelInv'
  OBVIOUS
<1>1. GameInv /\ SamplesInv /\ LogInv /\ CloudInv
  BY DEF VoxelInv
<1>2. UNCHANGED <<tickNow, polled, vlog, det, samples, cloud>> /\ cloud = Open
  BY DEF WriteFrame
<1>0. PICK n \in Nat : n = Len(written)
  BY <1>1, GameFacts
<1>3. /\ GameInv'
      /\ Len(written') = n + 1
      /\ \A i \in 1 .. n : written'[i] = written[i]
      /\ \A i \in 0 .. n : EndOf(i)' = EndOf(i)
      /\ Total \in Nat /\ Total' \in Nat /\ Total' > Total
      /\ Total' = EndOf(n + 1)'
  BY <1>0, <1>1, FrameIsAppended
<1>4. /\ n \in Nat /\ DOMAIN written = 1 .. n /\ DOMAIN written' = 1 .. n + 1
      /\ \A i \in 0 .. n : EndOf(i) \in Nat
  BY <1>0, <1>1, <1>3, GameFacts DEF GameInv
<1>5. /\ Len(samples) \in Nat /\ DOMAIN samples = 1 .. Len(samples) /\ polled \in Nat
      /\ polled <= Total
      /\ \A i \in 1 .. Len(samples) : samples[i][1] \in Nat /\ samples[i][1] <= polled
      /\ \A e \in Nat : e > 0 => (Known(samples, Len(samples), e) <=> e <= polled)
  BY <1>1, TheSamples DEF SamplesInv
<1>6. SamplesInv'
  <2>1. ASSUME NEW i \in DOMAIN samples, NEW k \in 1 .. n + 1, EndOf(k)' <= samples[i][1]
        PROVE  written'[k].at <= samples[i][2]
    <3>1. CASE k \in 1 .. n
      <4>1. k \in DOMAIN written /\ EndOf(k)' = EndOf(k) /\ written'[k] = written[k]
        BY <1>3, <1>4, <3>1
      <4> QED
        BY <1>1, <2>1, <4>1 DEF SamplesInv
    <3>2. CASE k = n + 1
      BY <1>3, <1>5, <2>1, <3>2
    <3> QED
      BY <1>4, <3>1, <3>2
  <2>2. polled <= Total'
    BY <1>3, <1>5
  <2> QED
    BY <1>1, <1>2, <1>4, <2>1, <2>2 DEF SamplesInv
<1>7. LogInv'
  <2>1. /\ vlog \in Logs /\ Len(vlog.steps) \in Nat /\ Len(vlog.steps) <= n
        /\ vlog.next = EndOf(Len(vlog.steps))
        /\ HasRead(vlog, samples, Len(samples)) /\ ReadOn(vlog, samples, Len(samples))
    BY <1>0, <1>1, LogFacts DEF LogInv, IsLogOf
  <2>0. PICK m \in Nat : m = Len(vlog.steps)
    BY <2>1
  <2>2. \A k \in 1 .. m : k \in 1 .. n /\ k \in 0 .. n
    BY <1>4, <2>0, <2>1
  <2>3. HasRead(vlog, samples, Len(samples))'
    <3>1. ASSUME NEW k \in 1 .. m
          PROVE  /\ written'[k].carries # "garbage"
                 /\ vlog'.steps[k].carries = written'[k].carries
                 /\ ReadAt(samples, Len(samples), EndOf(k), vlog.steps[k].tick)'
      <4>1. k \in 1 .. n /\ k \in 0 .. n
        BY <2>2
      <4>2. written'[k] = written[k] /\ EndOf(k)' = EndOf(k) /\ vlog' = vlog /\ samples' = samples
        BY <1>2, <1>3, <4>1
      <4>3. /\ written[k].carries # "garbage"
            /\ vlog.steps[k].carries = written[k].carries
            /\ ReadAt(samples, Len(samples), EndOf(k), vlog.steps[k].tick)
        BY <2>0, <2>1 DEF HasRead
      <4>4. ReadAt(samples, Len(samples), EndOf(k), vlog.steps[k].tick)'
        BY <4>2, <4>3 DEF ReadAt
      <4> QED
        BY <4>2, <4>3, <4>4
    <3>2. Len(vlog'.steps) = m
      BY <1>2, <2>0
    <3> QED
      BY <3>1, <3>2 DEF HasRead
  <2>4. ReadOn(vlog, samples, Len(samples))'
    <3>0. vlog' = vlog /\ samples' = samples /\ Len(vlog'.steps) = m
      BY <1>2, <2>0
    <3>1. CASE m + 1 <= n
      <4>1. m + 1 \in 1 .. n /\ m + 1 \in 0 .. n /\ m + 1 <= Len(written')
        BY <1>3, <1>4, <2>1, <3>1
      <4>2. EndOf(m + 1)' = EndOf(m + 1) /\ written'[m + 1] = written[m + 1]
        BY <1>3, <4>1
      <4> QED
        BY <1>0, <2>0, <2>1, <3>0, <3>1, <4>1, <4>2 DEF ReadOn, Known
    <3>2. CASE m = n
      <4>1. ~vlog.broken
        BY <1>0, <1>4, <2>0, <2>1, <3>2 DEF ReadOn
      <4>2. ~Known(samples, Len(samples), EndOf(n + 1)')
        <5>1. EndOf(n + 1)' \in Nat /\ EndOf(n + 1)' > 0 /\ ~(EndOf(n + 1)' <= polled)
          BY <1>3, <1>5
        <5> QED
          BY <1>5, <5>1
      <4> QED
        BY <3>0, <3>2, <4>1, <4>2 DEF ReadOn, Known
    <3> QED
      BY <1>4, <2>0, <2>1, <3>1, <3>2
  <2>5. EndOf(m)' = EndOf(m) /\ m <= Len(written')
    <3>1. m \in 0 .. n
      BY <2>0, <2>1
    <3> QED
      BY <1>3, <3>1
  <2>6. /\ vlog' \in Logs /\ Len(vlog'.steps) = m /\ m <= Len(written')
        /\ vlog'.next = EndOf(m)'
    BY <1>2, <2>0, <2>1, <2>5
  <2>7. vlog'.next = EndOf(Len(vlog.steps))'
    BY <2>6 DEF EndOf
  <2> QED
    BY <2>3, <2>4, <2>6, <2>7 DEF LogInv, IsLogOf
<1>8. CloudInv'
  BY <1>1, <1>2 DEF CloudInv, TicksAreSound, Open
<1> QED
  BY <1>3, <1>6, <1>7, <1>8 DEF VoxelInv

LEMMA TickKeeps == VoxelInv /\ Tick => VoxelInv'
<1> SUFFICES ASSUME VoxelInv, Tick PROVE VoxelInv'
  OBVIOUS
<1>1. GameInv /\ SamplesInv /\ LogInv /\ CloudInv
  BY DEF VoxelInv
<1>2. /\ UNCHANGED <<written, polled, vlog, det, samples, cloud>> /\ cloud = Open
      /\ tickNow' = tickNow + 1 /\ tickNow < MaxTick
  BY DEF Tick
<1>3. tickNow \in Nat /\ tickNow <= tickNow'
  BY <1>1, <1>2, VoxelConstants DEF GameInv
<1>4. GameInv'
  <2>1. tickNow' \in 0 .. MaxTick
    BY <1>1, <1>2, VoxelConstants DEF GameInv
  <2>2. \A i \in DOMAIN written : written[i].at <= tickNow'
    <3>1. \A i \in DOMAIN written : written[i].at \in Nat /\ written[i].at <= tickNow
      BY <1>1, GameFacts DEF GameInv
    <3> QED
      BY <1>2, <1>3, <3>1
  <2> QED
    BY <1>1, <1>2, <2>1, <2>2 DEF GameInv, EndOf
<1>5. SamplesInv'
  <2>1. \A i \in DOMAIN samples : samples[i][2] <= tickNow'
    <3>1. \A i \in DOMAIN samples : samples[i][2] \in Nat /\ samples[i][2] <= tickNow
      BY <1>1, TheSamples DEF SamplesInv
    <3> QED
      BY <1>2, <1>3, <3>1
  <2> QED
    BY <1>1, <1>2, <2>1 DEF SamplesInv, EndOf, Total
<1>6. LogInv'
  BY <1>1, <1>2 DEF LogInv, IsLogOf, HasRead, ReadOn, EndOf, ReadAt, Known
<1>7. CloudInv'
  BY <1>1, <1>2 DEF CloudInv, TicksAreSound, Open
<1> QED
  BY <1>4, <1>5, <1>6, <1>7 DEF VoxelInv

(* A read that shows more becomes the last sample.                          *)
LEMMA PollReads ==
  ASSUME VoxelInv, NEW size \in polled .. Min({Total, Slots}), ~vlog.broken, size > polled,
         polled' = size, vlog' = Read(vlog, size, tickNow),
         samples' = Append(samples, <<size, tickNow>>),
         tickNow' = tickNow, written' = written
  PROVE  GameInv' /\ SamplesInv' /\ LogInv'
<1>1. GameInv /\ SamplesInv /\ LogInv
  BY DEF VoxelInv
<1>2. GameInv'
  BY <1>1 DEF GameInv, EndOf
<1>3. /\ Total \in Nat /\ polled \in Nat /\ tickNow \in Nat /\ tickNow \in 0 .. MaxTick
      /\ Slots \in Nat
  BY <1>1, GameFacts, TheSamples, VoxelConstants DEF Total, GameInv
<1>4. size \in Nat /\ size \in 0 .. Slots /\ size <= Total
  BY <1>3, LeastOfTwo
<1> DEFINE T == (0 .. Slots) \X (0 .. MaxTick)
           r == <<size, tickNow>>
<1>5. PICK n \in Nat : n = Len(samples)
  BY <1>1, TheSamples
<1>6. /\ samples \in Seq(T) /\ DOMAIN samples = 1 .. n
      /\ samples \in Sampled
      /\ \A i \in 1 .. n : samples[i][1] \in Nat /\ samples[i][1] <= polled /\ samples[i][2] \in Nat
  BY <1>1, <1>5, TheSamples DEF SamplesInv
<1>7. r \in T /\ r \in Nat \X Nat /\ r[1] = size /\ r[2] = tickNow
  BY <1>3, <1>4
<1> HIDE DEF T, r
<1>8. samples' \in Seq(T) /\ samples' \in Sampled
  BY <1>6, <1>7, AppendProperties DEF Sampled, r
<1>9. /\ Len(samples') = n + 1
      /\ \A i \in 1 .. n : samples'[i] = samples[i]
      /\ samples'[n + 1] = r
  BY <1>5, <1>6, <1>7, AppendProperties DEF r
<1>10. DOMAIN samples' = 1 .. n + 1 /\ \A i \in 1 .. n + 1 : i \in 1 .. n \/ i = n + 1
  BY <1>8, <1>9
<1>11. SamplesInv'
  <2>1. samples' # <<>> /\ samples'[Len(samples')][1] = size
    BY <1>7, <1>9, <1>10
  <2>2. \A i, j \in 1 .. n + 1 : i < j => /\ samples'[i][1] < samples'[j][1]
                                          /\ samples'[i][2] <= samples'[j][2]
    <3> SUFFICES ASSUME NEW i \in 1 .. n + 1, NEW j \in 1 .. n + 1, i < j
                 PROVE  /\ samples'[i][1] < samples'[j][1]
                        /\ samples'[i][2] <= samples'[j][2]
      OBVIOUS
    <3>1. i \in 1 .. n
      OBVIOUS
    <3>2. CASE j \in 1 .. n
      BY <1>1, <1>6, <1>9, <3>1, <3>2 DEF SamplesInv
    <3>3. CASE j = n + 1
      <4>1. /\ samples[i][2] <= tickNow /\ samples[i][1] <= polled
            /\ samples[i][1] \in Nat /\ samples[i][2] \in Nat
        BY <1>1, <1>6, <3>1 DEF SamplesInv
      <4>2. /\ samples'[i][1] = samples[i][1] /\ samples'[j][1] = size
            /\ samples'[i][2] = samples[i][2] /\ samples'[j][2] = tickNow
        BY <1>7, <1>9, <3>1, <3>3
      <4>3. samples[i][1] < size
        BY <1>3, <1>4, <4>1
      <4> QED
        BY <4>1, <4>2, <4>3
    <3> QED
      BY <1>10, <3>2, <3>3
  <2>3. \A i \in 1 .. n + 1 : samples'[i][2] <= tickNow
    <3> TAKE i \in 1 .. n + 1
    <3>1. CASE i \in 1 .. n
      BY <1>1, <1>6, <1>9, <3>1 DEF SamplesInv
    <3>2. CASE i = n + 1
      BY <1>3, <1>7, <1>9, <3>2
    <3> QED
      BY <1>10, <3>1, <3>2
  <2>4. \A i \in 1 .. n + 1 : \A k \in DOMAIN written :
          EndOf(k) <= samples'[i][1] => written[k].at <= samples'[i][2]
    <3> TAKE i \in 1 .. n + 1
    <3>1. CASE i \in 1 .. n
      BY <1>1, <1>6, <1>9, <3>1 DEF SamplesInv
    <3>2. CASE i = n + 1
      <4>1. \A k \in DOMAIN written : written[k].at <= tickNow
        BY <1>1 DEF GameInv
      <4> QED
        BY <1>7, <1>9, <3>2, <4>1
    <3> QED
      BY <1>10, <3>1, <3>2
  <2>5. Total' = Total /\ \A k : EndOf(k)' = EndOf(k)
    BY DEF Total, EndOf
  <2>6. DOMAIN written' = DOMAIN written
    OBVIOUS
  <2>7. samples' \in Seq((0 .. Slots) \X (0 .. MaxTick))
    BY <1>8 DEF T
  <2> QED
    BY <1>4, <1>10, <2>1, <2>2, <2>3, <2>4, <2>5, <2>6, <2>7 DEF SamplesInv
<1>12. LogInv'
  <2>1. \A e : Known(samples', n, e) <=> Known(samples, n, e)
    BY <1>9 DEF Known
  <2>2. \A e, t : ReadAt(samples, n, e, t) => ReadAt(samples', n, e, t)
    BY <1>9 DEF ReadAt
  <2>3. IsLogOf(vlog, samples, n)
    BY <1>1, <1>5 DEF LogInv
  <2>4. PICK reads : reads = samples'
    OBVIOUS
  <2>5. IsLogOf(vlog, reads, n)
    BY <1>1, <2>1, <2>2, <2>3, <2>4, SameReads
  <2>6. n \in 0 .. Len(reads) - 1 /\ reads \in Sampled /\ reads[n + 1][1] = size /\ reads[n + 1][2] = tickNow
    BY <1>7, <1>8, <1>9, <2>4
  <2>7. IsLogOf(Read(vlog, size, tickNow), reads, n + 1)
    BY <1>1, <2>5, <2>6, ReadIs
  <2>8. PICK l : l = Read(vlog, size, tickNow)
    OBVIOUS
  <2>9. IsLogOf(l, reads, n + 1)
    BY <2>7, <2>8
  <2>10. vlog' = l /\ samples' = reads /\ Len(samples') = n + 1
    BY <1>9, <2>4, <2>8
  <2>11. IsLogOf(l, reads, n + 1)'
    BY <2>9 DEF IsLogOf, HasRead, ReadOn, EndOf
  <2> QED
    BY <2>10, <2>11 DEF LogInv, IsLogOf, HasRead, ReadOn, EndOf
<1> QED
  BY <1>2, <1>11, <1>12

LEMMA PollKeeps == VoxelInv /\ Poll => VoxelInv'
<1> SUFFICES ASSUME VoxelInv, Poll PROVE VoxelInv'
  OBVIOUS
<1>1. GameInv /\ SamplesInv /\ LogInv /\ CloudInv
  BY DEF VoxelInv
<1>2. /\ UNCHANGED <<tickNow, written, cloud>> /\ cloud = Open
      /\ \E known \in BOOLEAN : det' = (det \/ known)
  BY DEF Poll
<1>3. PICK size \in polled .. Min({Total, Slots}) :
         \/ /\ vlog.broken \/ size = polled
            /\ UNCHANGED <<polled, vlog, samples>>
         \/ /\ ~vlog.broken /\ size > polled
            /\ polled' = size
            /\ vlog' = Read(vlog, size, tickNow)
            /\ samples' = Append(samples, <<size, tickNow>>)
  BY DEF Poll
<1>4. GameInv' /\ SamplesInv' /\ LogInv'
  <2>1. CASE UNCHANGED <<polled, vlog, samples>>
    <3>1. GameInv'
      BY <1>1, <1>2 DEF GameInv, EndOf
    <3>2. SamplesInv'
      BY <1>1, <1>2, <2>1 DEF SamplesInv, EndOf, Total
    <3>3. LogInv'
      BY <1>1, <1>2, <2>1 DEF LogInv, IsLogOf, HasRead, ReadOn, EndOf, ReadAt, Known
    <3> QED
      BY <3>1, <3>2, <3>3
  <2>2. CASE /\ ~vlog.broken /\ size > polled
             /\ polled' = size
             /\ vlog' = Read(vlog, size, tickNow)
             /\ samples' = Append(samples, <<size, tickNow>>)
    BY <1>2, <2>2, PollReads
  <2> QED
    BY <1>3, <2>1, <2>2
<1>5. CloudInv'
  BY <1>1, <1>2 DEF CloudInv, TicksAreSound, Open
<1> QED
  BY <1>4, <1>5 DEF VoxelInv

(* The ticks of a cloud's steps, from the last to the first.                *)
Earlier(l, x, n) == Max({0, Min({l.steps[n].tick, x - Pace})})

LEMMA EarlierIs ==
  ASSUME NEW l \in Logs, NEW n \in 1 .. Len(l.steps), NEW x \in Nat
  PROVE  /\ Earlier(l, x, n) \in Nat
         /\ Earlier(l, x, n) <= l.steps[n].tick
         /\ x >= Pace => Earlier(l, x, n) + Pace <= x
         /\ \A y \in Nat : y <= l.steps[n].tick /\ y + Pace <= x => y <= Earlier(l, x, n)
<1> DEFINE t == l.steps[n].tick
           a == Min({t, x - Pace})
<1>1. t \in Nat /\ Pace \in Nat
  BY LogFacts, VoxelConstants
<1>2. a = IF t <= x - Pace THEN t ELSE x - Pace
  BY <1>1, LeastOfTwo
<1>3. Earlier(l, x, n) = Max({0, a})
  BY DEF Earlier
<1> HIDE DEF t, a
<1>4. Earlier(l, x, n) = IF 0 <= a THEN a ELSE 0
  <2>1. a \in Int
    BY <1>1, <1>2
  <2> QED
    BY <1>3, <2>1, LeastOfTwo
<1>5. /\ Earlier(l, x, n) \in Nat
      /\ Earlier(l, x, n) <= t
      /\ x >= Pace => Earlier(l, x, n) + Pace <= x
      /\ \A y \in Nat : y <= t /\ y + Pace <= x => y <= Earlier(l, x, n)
  BY <1>1, <1>2, <1>4
<1> QED
  BY <1>5 DEF t

LastStep(l) == Min({Len(l.steps), SettleSteps})

LEMMA LastStepIs ==
  ASSUME NEW l \in Logs, l.steps # <<>>
  PROVE  LastStep(l) \in Nat /\ LastStep(l) \in 1 .. Len(l.steps)
<1>1. Len(l.steps) \in Nat /\ Len(l.steps) # 0
  BY LogFacts, EmptySeq
<1> QED
  BY <1>1, LeastOfTwo, VoxelConstants DEF LastStep

LEMMA StepTicksIs ==
  ASSUME NEW l \in Logs, l.steps # <<>>
  PROVE  /\ StepTicks(l) \in [1 .. LastStep(l) -> Nat]
         /\ StepTicks(l)[LastStep(l)] = l.steps[LastStep(l)].tick
         /\ \A n \in 1 .. LastStep(l) - 1 :
              StepTicks(l)[n] = Earlier(l, StepTicks(l)[n + 1], n)
<1> DEFINE last == LastStep(l)
           Body(t) == [n \in 1 .. last |-> IF n = last THEN l.steps[n].tick
                                           ELSE Earlier(l, t[n + 1], n)]
           ticks == CHOOSE t : t = Body(t)
           m == last - 1
           g == [i \in 1 .. m |-> [x \in Nat |-> Earlier(l, x, last - i)]]
           begins == l.steps[last].tick
<1>1. StepTicks(l) = ticks
  BY DEF StepTicks, Earlier, LastStep
<1>2. last \in Nat /\ last \in 1 .. Len(l.steps) /\ m \in Nat
  BY LastStepIs
<1>3. begins \in Nat
  BY <1>2, LogFacts
<1>4. \A i \in 1 .. m : last - i \in 1 .. Len(l.steps)
  BY <1>2
<1>5. g \in Strides(m, Nat)
  BY <1>4, EarlierIs DEF Strides
<1> HIDE DEF g, begins, last
<1>6. PICK f : IsWalk(m, Nat, begins, g, f)
  BY <1>2, <1>3, <1>5, Walk
<1>7. /\ f \in [0 .. m -> Nat] /\ f[0] = begins
      /\ \A i \in 1 .. m : f[i] = Earlier(l, f[i - 1], last - i)
  <2>1. \A i \in 1 .. m : f[i - 1] \in Nat
    BY <1>2, <1>6 DEF IsWalk
  <2> QED
    BY <1>6, <2>1 DEF IsWalk, g
<1> DEFINE h == [n \in 1 .. last |-> f[last - n]]
<1>8. \A n \in 1 .. last : last - n \in 0 .. m
  BY <1>2
<1>9. h \in [1 .. last -> Nat]
  BY <1>7, <1>8
<1>10. h = Body(h)
  <2>1. ASSUME NEW n \in 1 .. last
        PROVE  f[last - n] = IF n = last THEN l.steps[n].tick ELSE Earlier(l, h[n + 1], n)
    <3>1. CASE n = last
      BY <1>2, <1>7, <3>1 DEF begins
    <3>2. CASE n # last
      <4>1. /\ last - n \in 1 .. m /\ last - (last - n) = n /\ n + 1 \in 1 .. last
            /\ last - (n + 1) = (last - n) - 1
        BY <1>2, <3>2
      <4>2. h[n + 1] = f[(last - n) - 1]
        BY <4>1
      <4> QED
        BY <1>7, <3>2, <4>1, <4>2
    <3> QED
      BY <3>1, <3>2
  <2> QED
    BY <2>1
<1>11. ticks = Body(ticks)
  <2> HIDE DEF Body, h
  <2> QED
    BY <1>10
<1> HIDE DEF ticks
<1>12. /\ ticks = [n \in 1 .. last |-> ticks[n]]
       /\ ticks[last] = begins
       /\ \A n \in 1 .. m : n \in 1 .. last /\ ticks[n] = Earlier(l, ticks[n + 1], n)
  <2>1. last \in 1 .. last /\ \A n \in 1 .. m : n \in 1 .. last /\ n # last
    BY <1>2
  <2> QED
    BY <1>11, <2>1 DEF begins
<1> DEFINE S == {k \in 0 .. m : ticks[last - k] \in Nat}
<1>13. 0 \in S
  BY <1>2, <1>3, <1>12
<1>14. ASSUME NEW k \in 1 .. m, k - 1 \in S
       PROVE  k \in S
  <2>1. /\ last - k \in 1 .. m /\ last - (k - 1) = (last - k) + 1 /\ last - k \in 1 .. Len(l.steps)
        /\ k \in 0 .. m
    BY <1>2
  <2>2. ticks[(last - k) + 1] \in Nat
    BY <1>14, <2>1
  <2>3. ticks[last - k] = Earlier(l, ticks[(last - k) + 1], last - k)
    BY <1>12, <2>1
  <2>4. ticks[last - k] \in Nat
    BY <2>1, <2>2, <2>3, EarlierIs
  <2> QED
    BY <2>1, <2>4
<1> HIDE DEF S
<1>15. 0 .. m \subseteq S
  BY <1>2, <1>13, <1>14, UpTo
<1>16. ticks \in [1 .. last -> Nat]
  <2>1. \A n \in 1 .. last : last - n \in S /\ last - (last - n) = n
    BY <1>2, <1>8, <1>15
  <2>2. \A n \in 1 .. last : ticks[n] \in Nat
    BY <2>1 DEF S
  <2> QED
    BY <1>12, <2>2
<1> QED
  BY <1>1, <1>12, <1>16 DEF begins, last

(* No step is earlier than the game's or later than it was read, nor nearer *)
(* to the next than the pace: from the last one back, since the game's own  *)
(* steps leave room for it.                                                 *)
LEMMA TicksBetween ==
  ASSUME GameInv, SamplesInv, LogInv, vlog.steps # <<>>
  PROVE  \A n \in 1 .. LastStep(vlog) :
           /\ StepTicks(vlog)[n] \in Nat
           /\ written[n].at <= StepTicks(vlog)[n]
           /\ StepTicks(vlog)[n] <= vlog.steps[n].tick
           /\ n > 1 => StepTicks(vlog)[n - 1] + Pace <= StepTicks(vlog)[n]
<1> DEFINE l == vlog
           t == StepTicks(vlog)
           last == LastStep(vlog)
           m == last - 1
<1>1. /\ l \in Logs /\ Len(l.steps) \in Nat /\ Len(l.steps) <= Len(written)
      /\ HasRead(l, samples, Len(samples))
      /\ \A k \in 1 .. Len(l.steps) : l.steps[k].tick \in Nat
  BY LogFacts DEF LogInv, IsLogOf
<1>2. last \in Nat /\ last \in 1 .. Len(l.steps) /\ m \in Nat
  BY <1>1, LastStepIs
<1>3. /\ t \in [1 .. last -> Nat]
      /\ t[last] = l.steps[last].tick
      /\ \A n \in 1 .. m : t[n] = Earlier(l, t[n + 1], n)
  BY <1>1, StepTicksIs
<1>4. /\ Len(written) \in Nat /\ DOMAIN written = 1 .. Len(written) /\ Pace \in Nat
      /\ \A n \in 1 .. Len(written) : written[n].at \in Nat /\ EndOf(n) \in Nat
  BY GameFacts, VoxelConstants
<1> HIDE DEF l, t, last
<1>5. ASSUME NEW n \in 1 .. Len(l.steps)
      PROVE  written[n].at <= l.steps[n].tick
  <2>1. ReadAt(samples, Len(samples), EndOf(n), l.steps[n].tick)
    BY <1>1 DEF HasRead
  <2>2. PICK i \in 1 .. Len(samples) : samples[i][1] >= EndOf(n) /\ samples[i][2] = l.steps[n].tick
    BY <2>1 DEF ReadAt
  <2>3. n \in DOMAIN written /\ i \in DOMAIN samples /\ EndOf(n) \in Nat /\ samples[i][1] \in Nat
    BY <1>1, <1>4, TheSamples
  <2>4. EndOf(n) <= samples[i][1]
    BY <2>2, <2>3
  <2> QED
    BY <2>2, <2>3, <2>4 DEF SamplesInv
<1> DEFINE Fits(n) == written[n].at <= t[n] /\ t[n] <= l.steps[n].tick
           S == {k \in 0 .. m : Fits(last - k)}
<1>6. 0 \in S
  <2>1. t[last] \in Nat /\ written[last].at <= t[last]
    BY <1>1, <1>2, <1>3, <1>5
  <2> QED
    BY <1>2, <1>3, <2>1
<1>7. ASSUME NEW n \in 1 .. m, Fits(n + 1)
      PROVE  Fits(n) /\ t[n] + Pace <= t[n + 1]
  <2>1. /\ n \in 1 .. Len(l.steps) /\ n + 1 \in 1 .. last /\ n \in DOMAIN written /\ n + 1 \in DOMAIN written
        /\ n < n + 1
    BY <1>1, <1>2, <1>4
  <2>2. t[n + 1] \in Nat /\ written[n].at \in Nat /\ written[n + 1].at \in Nat
    BY <1>3, <1>4, <2>1
  <2>3. written[n].at + Pace <= written[n + 1].at
    BY <2>1 DEF GameInv
  <2>4. written[n].at + Pace <= t[n + 1] /\ t[n + 1] >= Pace
    <3>1. written[n + 1].at <= t[n + 1]
      BY <1>7
    <3>2. Pace \in Nat
      BY <1>4
    <3> HIDE DEF Fits
    <3> QED
      BY <2>2, <2>3, <3>1, <3>2
  <2>5. written[n].at <= l.steps[n].tick
    BY <1>5, <2>1
  <2>6. /\ t[n] <= l.steps[n].tick
        /\ t[n] + Pace <= t[n + 1]
        /\ written[n].at <= t[n]
    <3>1. /\ Earlier(l, t[n + 1], n) <= l.steps[n].tick
          /\ t[n + 1] >= Pace => Earlier(l, t[n + 1], n) + Pace <= t[n + 1]
          /\ \A y \in Nat : y <= l.steps[n].tick /\ y + Pace <= t[n + 1] => y <= Earlier(l, t[n + 1], n)
      BY <1>1, <2>1, <2>2, EarlierIs
    <3>2. t[n] = Earlier(l, t[n + 1], n)
      BY <1>3
    <3> HIDE DEF Fits, m
    <3> QED
      BY <2>2, <2>4, <2>5, <3>1, <3>2
  <2> QED
    BY <2>6
<1>8. ASSUME NEW k \in 1 .. m, k - 1 \in S
      PROVE  k \in S
  <2>1. last - k \in 1 .. m /\ last - (k - 1) = (last - k) + 1 /\ k \in 0 .. m
    BY <1>2
  <2>2. Fits((last - k) + 1)
    BY <1>8, <2>1
  <2>3. Fits(last - k)
    BY <1>7, <2>1, <2>2
  <2> QED
    BY <2>1, <2>3
<1> HIDE DEF S
<1>9. 0 .. m \subseteq S
  BY <1>2, <1>6, <1>8, UpTo
<1>10. \A n \in 1 .. last : Fits(n)
  <2>1. \A n \in 1 .. last : last - n \in S /\ last - (last - n) = n
    BY <1>2, <1>9
  <2> QED
    BY <2>1 DEF S
<1>11. \A n \in 1 .. last : n > 1 => t[n - 1] + Pace <= t[n]
  <2> SUFFICES ASSUME NEW n \in 1 .. last, n > 1 PROVE t[n - 1] + Pace <= t[n]
    OBVIOUS
  <2>1. n - 1 \in 1 .. m /\ (n - 1) + 1 = n /\ Fits(n)
    BY <1>2, <1>10
  <2> QED
    BY <1>7, <2>1
<1>12. \A n \in 1 .. last : t[n] \in Nat
  BY <1>3
<1> QED
  BY <1>10, <1>11, <1>12 DEF l, t, last

(* The steps of a cloud are those before the smoke began to fade.           *)
LEMMA GrowingIs ==
  ASSUME NEW l \in Logs, l.steps # <<>>
  PROVE  LET growing == {n \in DOMAIN StepTicks(l) :
                           \A k \in 1 .. n : l.steps[k].carries # "fading"}
             g == Cardinality(growing)
         IN  /\ g \in 0 .. LastStep(l)
             /\ growing = 1 .. g
             /\ g < LastStep(l) => l.steps[g + 1].carries = "fading"
<1> DEFINE last == LastStep(l)
           growing == {n \in DOMAIN StepTicks(l) :
                         \A k \in 1 .. n : l.steps[k].carries # "fading"}
           fading == {n \in 1 .. last : l.steps[n].carries = "fading"}
<1>1. last \in Nat
  BY LastStepIs
<1>2. growing = {n \in 1 .. last : \A k \in 1 .. n : l.steps[k].carries # "fading"}
  BY StepTicksIs
<1> HIDE DEF growing, last
<1>3. \E g \in 0 .. last : growing = 1 .. g /\ (g < last => l.steps[g + 1].carries = "fading")
  <2>1. CASE fading = {}
    <3>1. growing = 1 .. last
      BY <1>1, <1>2, <2>1
    <3> QED
      BY <1>1, <3>1
  <2>2. CASE fading # {}
    <3>1. PICK b \in fading : \A c \in fading : b <= c
      <4>1. fading \in SUBSET Nat
        BY <1>1
      <4> HIDE DEF fading
      <4> QED
        BY <2>2, <4>1, HasLeast
    <3>2. b \in 1 .. last /\ l.steps[b].carries = "fading" /\ b \in Nat
      BY <1>1
    <3>3. ASSUME NEW n \in growing PROVE n \in 1 .. b - 1
      <4>1. n \in 1 .. last /\ \A k \in 1 .. n : l.steps[k].carries # "fading"
        BY <1>2
      <4>2. ~(b \in 1 .. n)
        BY <3>2, <4>1
      <4> QED
        BY <1>1, <3>2, <4>1, <4>2
    <3>4. ASSUME NEW n \in 1 .. b - 1 PROVE n \in growing
      <4>1. n \in 1 .. last
        BY <1>1, <3>2
      <4>2. \A k \in 1 .. n : k \in 1 .. last /\ ~(b <= k)
        BY <1>1, <3>2, <4>1
      <4>3. \A k \in 1 .. n : k \notin fading
        BY <3>1, <4>2
      <4> QED
        BY <1>2, <4>1, <4>2, <4>3
    <3>5. growing = 1 .. b - 1 /\ b - 1 \in 0 .. last /\ (b - 1) + 1 = b
      <4>1. \A n : n \in growing <=> n \in 1 .. b - 1
        BY <3>3, <3>4
      <4>2. growing = 1 .. b - 1
        BY <4>1
      <4> QED
        BY <1>1, <3>2, <4>2
    <3> QED
      BY <3>2, <3>5
  <2> QED
    BY <2>1, <2>2
<1>4. PICK g \in 0 .. last : growing = 1 .. g /\ (g < last => l.steps[g + 1].carries = "fading")
  BY <1>3
<1>5. Cardinality(growing) = g
  <2>1. Cardinality(1 .. g) = (IF 1 > g THEN 0 ELSE g - 1 + 1) /\ g \in Nat
    BY <1>1, FS_Interval
  <2> QED
    BY <1>4, <2>1
<1> QED
  BY <1>4, <1>5 DEF growing, last

(* A log that begins with emitters has, at every step, emitters it last had.*)
LEMMA EmittersAre ==
  ASSUME NEW l \in Logs, l.steps # <<>>, l.steps[1].carries = "emitters", NEW n \in 1 .. Len(l.steps)
  PROVE  /\ EmittersAt(l, n) \in 1 .. n
         /\ l.steps[EmittersAt(l, n)].carries = "emitters"
         /\ \A k \in 1 .. n : l.steps[k].carries = "emitters" => k <= EmittersAt(l, n)
<1> DEFINE S == {k \in 1 .. n : l.steps[k].carries = "emitters"} \cup {0}
<1>1. S \subseteq 0 .. n /\ 0 \in S /\ 1 \in S /\ n \in Nat
  BY LogFacts
<1>2. S # {}
  BY <1>1
<1>3. EmittersAt(l, n) = Max(S)
  BY DEF EmittersAt
<1> HIDE DEF S
<1>4. \E x \in S : \A y \in S : x >= y
  BY <1>1, <1>2, HasGreatest
<1>5. Max(S) \in S /\ \A y \in S : Max(S) >= y
  BY <1>4 DEF Max
<1>6. Max(S) >= 1 /\ Max(S) \in 0 .. n
  BY <1>1, <1>5
<1>7. \A k \in S : k \in Nat /\ k <= Max(S)
  BY <1>1, <1>5, <1>6
<1> QED
  BY <1>1, <1>3, <1>5, <1>6, <1>7 DEF S

LEMMA ExportKeeps == VoxelInv /\ Export => VoxelInv'
<1> SUFFICES ASSUME VoxelInv, Export PROVE VoxelInv'
  OBVIOUS
<1>1. GameInv /\ SamplesInv /\ LogInv /\ CloudInv
  BY DEF VoxelInv
<1>2. UNCHANGED <<tickNow, written, polled, vlog, det, samples>>
  BY DEF Export
<1>3. GameInv' /\ SamplesInv' /\ LogInv'
  <2>1. GameInv'
    BY <1>1, <1>2 DEF GameInv, EndOf
  <2>2. SamplesInv'
    BY <1>1, <1>2 DEF SamplesInv, EndOf, Total
  <2>3. LogInv'
    BY <1>1, <1>2 DEF LogInv, IsLogOf, HasRead, ReadOn, EndOf, ReadAt, Known
  <2> QED
    BY <2>1, <2>2, <2>3
<1>4. CASE det /\ Exportable(vlog)
  <2>1. cloud' = [state |-> "cloud", steps |-> Cloud(vlog)]
    BY <1>4 DEF Export
  <2>2. /\ vlog.steps # <<>> /\ vlog.steps[1].carries = "emitters"
        /\ vlog \in Logs /\ Len(vlog.steps) \in Nat /\ Len(vlog.steps) <= Len(written)
        /\ HasRead(vlog, samples, Len(samples))
    <3>1. vlog \in Logs /\ Len(vlog.steps) <= Len(written) /\ HasRead(vlog, samples, Len(samples))
      BY <1>1 DEF LogInv, IsLogOf
    <3>2. vlog.steps # <<>> /\ Head(vlog.steps).carries = "emitters"
      BY <1>4 DEF Exportable
    <3>3. Head(vlog.steps) = vlog.steps[1] /\ Len(vlog.steps) \in Nat
      BY <3>1, <3>2, LogFacts
    <3> QED
      BY <3>1, <3>2, <3>3
  <2> DEFINE t == StepTicks(vlog)
             last == LastStep(vlog)
             growing == {n \in DOMAIN t : \A k \in 1 .. n : vlog.steps[k].carries # "fading"}
             g == Cardinality(growing)
             steps == Cloud(vlog)
  <2>3. /\ g \in 0 .. last /\ growing = 1 .. g
        /\ g < last => vlog.steps[g + 1].carries = "fading"
    BY <2>2, GrowingIs
  <2>4. last \in Nat /\ last \in 1 .. Len(vlog.steps)
    BY <2>2, LastStepIs
  <2>5. steps = [n \in 1 .. g |-> [tick |-> t[n], emitters |-> EmittersAt(vlog, n)]]
    BY DEF Cloud
  <2>6. \A n \in 1 .. last :
           /\ t[n] \in Nat
           /\ written[n].at <= t[n]
           /\ t[n] <= vlog.steps[n].tick
           /\ n > 1 => t[n - 1] + Pace <= t[n]
    BY <1>1, <2>2, TicksBetween
  <2>7. \A k \in 1 .. Len(vlog.steps) : vlog.steps[k].carries = written[k].carries
    BY <2>2 DEF HasRead
  <2>8. \A n \in 1 .. g : \A k \in 1 .. n : vlog.steps[k].carries # "fading"
    <3>1. \A n \in 1 .. g : n \in growing
      BY <2>3
    <3> QED
      BY <3>1
  <2>9. Min({Len(vlog.steps), SettleSteps}) = last
    BY DEF LastStep
  <2>10. g \in Nat /\ g <= last /\ \A n \in 1 .. g : n \in 1 .. last /\ n \in 1 .. Len(vlog.steps)
    <3> HIDE DEF g, last
    <3> QED
      BY <2>2, <2>3, <2>4
  <2> HIDE DEF t, last, growing, g, steps
  <2>11. DOMAIN steps = 1 .. g /\ Len(steps) = g
         /\ \A n \in 1 .. g : steps[n].tick = t[n] /\ steps[n].emitters = EmittersAt(vlog, n)
    BY <2>5, <2>10
  <2>12. ASSUME NEW n \in 1 .. g
         PROVE  /\ written[n].at <= steps[n].tick
                /\ steps[n].tick <= vlog.steps[n].tick
                /\ steps[n].emitters \in {k \in 1 .. n : written[k].carries = "emitters"}
                /\ \A k \in {j \in 1 .. n : written[j].carries = "emitters"} : k <= steps[n].emitters
                /\ \A k \in 1 .. n : written[k].carries # "fading"
                /\ n > 1 => steps[n - 1].tick + Pace <= steps[n].tick
    <3>1. n \in 1 .. last /\ n \in 1 .. Len(vlog.steps) /\ (n > 1 => n - 1 \in 1 .. g)
      BY <2>10
    <3>2. \A k \in 1 .. n : k \in 1 .. Len(vlog.steps)
      BY <2>2, <3>1
    <3>3. /\ EmittersAt(vlog, n) \in 1 .. n
          /\ vlog.steps[EmittersAt(vlog, n)].carries = "emitters"
          /\ \A k \in 1 .. n : vlog.steps[k].carries = "emitters" => k <= EmittersAt(vlog, n)
      BY <2>2, <3>1, EmittersAre
    <3>4. \A k \in 1 .. n : vlog.steps[k].carries = written[k].carries
      BY <2>7, <3>2
    <3>5. /\ steps[n].emitters \in {k \in 1 .. n : written[k].carries = "emitters"}
          /\ \A k \in {j \in 1 .. n : written[j].carries = "emitters"} : k <= steps[n].emitters
      BY <2>11, <3>3, <3>4
    <3>6. \A k \in 1 .. n : written[k].carries # "fading"
      BY <2>8, <3>4
    <3>7. /\ written[n].at <= steps[n].tick
          /\ steps[n].tick <= vlog.steps[n].tick
          /\ n > 1 => steps[n - 1].tick + Pace <= steps[n].tick
      BY <2>6, <2>11, <3>1
    <3> QED
      BY <3>5, <3>6, <3>7
  <2>13. g < last => written[g + 1].carries = "fading"
    <3>1. g < last => g + 1 \in 1 .. Len(vlog.steps)
      BY <2>4, <2>10
    <3> QED
      BY <2>3, <2>7, <3>1
  <2>14. /\ cloud'.state = "cloud" /\ cloud'.steps = steps
    BY <2>1 DEF steps
  <2>15. TicksAreSound'
    BY <1>2, <2>9, <2>11, <2>12, <2>13, <2>14 DEF TicksAreSound
  <2> QED
    BY <1>1, <1>2, <1>3, <2>14, <2>15 DEF VoxelInv, CloudInv
<1>5. CASE ~(det /\ Exportable(vlog))
  <2>1. cloud'.state = "nothing"
    BY <1>5 DEF Export
  <2> QED
    BY <1>1, <1>2, <1>3, <2>1 DEF VoxelInv, CloudInv, TicksAreSound
<1> QED
  BY <1>4, <1>5

(* The log is that of its reads, whatever is written meanwhile, and a cloud *)
(* is as sound as when it was exported.                                     *)
THEOREM VoxelInvAlways == VoxelSpec => []VoxelInv
<1>1. VoxelInv /\ [VoxelNext]_voxelVars => VoxelInv'
  <2>1. VoxelInv /\ UNCHANGED voxelVars => VoxelInv'
    BY DEF VoxelInv, GameInv, SamplesInv, LogInv, CloudInv, TicksAreSound, voxelVars, IsLogOf,
           HasRead, ReadOn, EndOf, ReadAt, Known, Total
  <2> QED
    BY <2>1, TickKeeps, WriteKeeps, PollKeeps, ExportKeeps DEF VoxelNext
<1> QED
  BY VoxelInvInit, <1>1, PTL DEF VoxelSpec

(* What the log has read is what is whole.                                  *)
LEMMA WholeIsRead ==
  ASSUME VoxelInv
  PROVE  /\ VoxelTypeOK
         /\ LET whole == {i \in DOMAIN written : /\ EndOf(i) <= polled
                                                 /\ \A k \in 1 .. i : written[k].carries # "garbage"}
            IN  /\ Len(vlog.steps) = Cardinality(whole)
                /\ \A i \in whole : vlog.steps[i].carries = written[i].carries
<1> DEFINE whole == {i \in DOMAIN written : /\ EndOf(i) <= polled
                                            /\ \A k \in 1 .. i : written[k].carries # "garbage"}
           m == Len(vlog.steps)
           n == Len(samples)
<1>1. GameInv /\ SamplesInv /\ LogInv /\ CloudInv
  BY DEF VoxelInv
<1>2. /\ vlog \in Logs /\ m \in Nat /\ m <= Len(written) /\ DOMAIN vlog.steps = 1 .. m
      /\ vlog.next = EndOf(m) /\ HasRead(vlog, samples, n) /\ ReadOn(vlog, samples, n)
      /\ \A k \in 1 .. m : vlog.steps[k].tick \in Nat
  BY <1>1, LogFacts DEF LogInv, IsLogOf
<1>3. /\ Len(written) \in Nat /\ DOMAIN written = 1 .. Len(written) /\ EndOf(0) = 0
      /\ \A i \in 1 .. Len(written) : EndOf(i) > 0
      /\ \A i \in 0 .. Len(written) : EndOf(i) \in Nat
      /\ \A i, j \in 0 .. Len(written) : i < j => EndOf(i) < EndOf(j)
  BY <1>1, GameFacts
<1>4. /\ polled \in Nat /\ n \in Nat /\ DOMAIN samples = 1 .. n
      /\ \A e \in Nat : e > 0 => (Known(samples, n, e) <=> e <= polled)
  BY <1>1, TheSamples
<1> HIDE DEF whole, m, n
<1>5. ASSUME NEW k \in 1 .. m
      PROVE  /\ k \in 1 .. Len(written) /\ EndOf(k) <= polled
             /\ written[k].carries # "garbage" /\ vlog.steps[k].carries = written[k].carries
             /\ vlog.steps[k].tick \in 0 .. tickNow
  <2>1. k \in 1 .. Len(written) /\ k \in 0 .. Len(written)
    BY <1>2, <1>3
  <2>2. /\ written[k].carries # "garbage" /\ vlog.steps[k].carries = written[k].carries
        /\ ReadAt(samples, n, EndOf(k), vlog.steps[k].tick)
    BY <1>2 DEF HasRead, m
  <2>3. PICK i \in 1 .. n : samples[i][1] >= EndOf(k) /\ samples[i][2] = vlog.steps[k].tick
    BY <2>2 DEF ReadAt
  <2>4. EndOf(k) <= polled
    BY <1>3, <1>4, <2>1, <2>3 DEF Known
  <2>5. samples[i][2] <= tickNow /\ tickNow \in Nat
    <3>1. tickNow \in Nat
      BY <1>1, VoxelConstants DEF GameInv
    <3>2. i \in DOMAIN samples
      BY <1>4
    <3> QED
      BY <1>1, <3>1, <3>2 DEF SamplesInv
  <2> QED
    BY <1>2, <2>1, <2>2, <2>3, <2>4, <2>5
<1>6. whole = 1 .. m
  <2>1. ASSUME NEW i \in 1 .. m PROVE i \in whole
    <3>1. \A k \in 1 .. i : k \in 1 .. m
      BY <1>2
    <3>2. i \in DOMAIN written /\ EndOf(i) <= polled /\ \A k \in 1 .. i : written[k].carries # "garbage"
      BY <1>3, <1>5, <3>1
    <3> QED
      BY <3>2 DEF whole
  <2>2. ASSUME NEW i \in whole, ~(i \in 1 .. m) PROVE FALSE
    <3>1. /\ i \in 1 .. Len(written) /\ EndOf(i) <= polled
          /\ \A k \in 1 .. i : written[k].carries # "garbage"
      BY <1>3 DEF whole
    <3>2. m + 1 \in 1 .. i /\ m + 1 \in 1 .. Len(written) /\ m + 1 \in 0 .. Len(written)
            /\ i \in 0 .. Len(written) /\ (m + 1 = i \/ m + 1 < i)
      BY <1>2, <1>3, <2>2, <3>1
    <3>3. EndOf(m + 1) \in Nat /\ EndOf(m + 1) > 0 /\ EndOf(i) \in Nat
      BY <1>3, <3>2
    <3>4. EndOf(m + 1) <= EndOf(i)
      BY <1>3, <3>2, <3>3
    <3>5. EndOf(m + 1) <= polled
      BY <1>4, <3>1, <3>3, <3>4
    <3>6. Known(samples, n, EndOf(m + 1)) /\ written[m + 1].carries # "garbage"
      BY <1>4, <3>1, <3>2, <3>3, <3>5
    <3> QED
      BY <1>2, <3>2, <3>6 DEF ReadOn, m
  <2> QED
    BY <2>1, <2>2
<1>7. Cardinality(whole) = m
  <2>1. Cardinality(1 .. m) = IF 1 > m THEN 0 ELSE m - 1 + 1
    BY <1>2, FS_Interval
  <2> QED
    BY <1>2, <1>6, <2>1
<1>8. VoxelTypeOK
  <2>1. vlog.next \in 0 .. polled
    <3>1. CASE m = 0
      BY <1>2, <1>3, <1>4, <3>1
    <3>2. CASE m # 0
      <4>1. m \in 1 .. m /\ m \in 0 .. Len(written)
        BY <1>2, <1>3, <3>2
      <4> QED
        BY <1>2, <1>3, <1>4, <1>5, <4>1
    <3> QED
      BY <3>1, <3>2
  <2>2. tickNow \in 0 .. MaxTick /\ Len(written) <= MaxFrames
    BY <1>1 DEF GameInv
  <2>3. polled \in 0 .. Slots /\ samples \in Seq((0 .. Slots) \X (0 .. MaxTick))
    BY <1>1 DEF SamplesInv
  <2>4. det \in BOOLEAN /\ cloud.state \in {"open", "nothing", "cloud"}
    BY <1>1 DEF CloudInv
  <2> QED
    BY <1>2, <1>5, <2>1, <2>2, <2>3, <2>4 DEF VoxelTypeOK
<1> QED
  BY <1>5, <1>6, <1>7, <1>8 DEF whole, m

(* Two reads on one tick may come in either order.                          *)
LEMMA SwapIs ==
  ASSUME VoxelInv, NEW i \in DOMAIN samples \ {1}, NEW swapped,
         swapped = [samples EXCEPT ![i] = samples[i - 1], ![i - 1] = samples[i]]
  PROVE  Refused(swapped, polled) \/ Reconstructed(swapped) = vlog
<1>1. GameInv /\ SamplesInv /\ LogInv
  BY DEF VoxelInv
<1>2. PICK n \in Nat : n = Len(samples)
  BY <1>1, TheSamples
<1>3. /\ samples \in Sampled /\ DOMAIN samples = 1 .. n
      /\ \A j \in 1 .. n : samples[j][1] \in Nat /\ samples[j][2] \in Nat
  BY <1>1, <1>2, TheSamples
<1>4. i \in 2 .. n /\ i - 1 \in 1 .. n /\ i \in 1 .. n /\ i - 1 < i
  BY <1>2, <1>3
<1>5. /\ swapped[i] = samples[i - 1] /\ swapped[i - 1] = samples[i]
      /\ \A j \in 1 .. n : j # i /\ j # i - 1 => swapped[j] = samples[j]
      /\ DOMAIN swapped = 1 .. n
  BY <1>3, <1>4
<1>6. swapped \in Sampled /\ Len(swapped) = n
  <2>1. \A j \in 1 .. n : swapped[j] \in Nat \X Nat
    <3>1. \A j \in 1 .. n : samples[j] \in Nat \X Nat
      BY <1>2, <1>3, ElementOfSeq DEF Sampled
    <3> QED
      BY <1>4, <1>5, <3>1
  <2>2. swapped = [j \in 1 .. n |-> swapped[j]]
    BY <1>3
  <2> DEFINE T == Nat \X Nat
  <2>3. \A j \in 1 .. n : swapped[j] \in T
    BY <2>1
  <2> HIDE DEF T
  <2>4. ASSUME NEW f, f = [j \in 1 .. n |-> f[j]], \A j \in 1 .. n : f[j] \in T
        PROVE  f \in Seq(T) /\ Len(f) = n
    BY <1>2, <2>4, ASeqOf
  <2> QED
    BY <2>2, <2>3, <2>4 DEF Sampled, T
<1>7. samples[i - 1][1] < samples[i][1] /\ samples[i - 1][2] <= samples[i][2]
  BY <1>1, <1>3, <1>4 DEF SamplesInv
<1>8. SUFFICES ASSUME ~Refused(swapped, polled)
               PROVE  Reconstructed(swapped) = vlog
  OBVIOUS
<1>9. samples[i - 1][2] = samples[i][2]
  <2>1. ~(swapped[i][2] < swapped[i - 1][2])
    BY <1>4, <1>5, <1>8 DEF Refused
  <2> QED
    BY <1>3, <1>4, <1>5, <1>7, <2>1
<1>10. ASSUME NEW e \in Nat, NEW t \in Nat, ReadAt(samples, n, e, t)
       PROVE  ReadAt(swapped, n, e, t)
  <2>1. PICK h \in 1 .. n : /\ samples[h][1] >= e /\ samples[h][2] = t
                            /\ \A j \in 1 .. n : j < h => samples[j][1] < e
    BY <1>10 DEF ReadAt
  <2>2. CASE h # i /\ h # i - 1
    <3>1. swapped[h] = samples[h]
      BY <1>5, <2>2
    <3>2. ASSUME NEW j \in 1 .. n, j < h PROVE swapped[j][1] < e
      <4>1. CASE j = i \/ j = i - 1
        <5>1. i < h /\ i - 1 < h
          BY <1>4, <2>2, <3>2, <4>1
        <5> QED
          BY <1>4, <1>5, <2>1, <4>1, <5>1
      <4>2. CASE j # i /\ j # i - 1
        BY <1>5, <2>1, <3>2, <4>2
      <4> QED
        BY <4>1, <4>2
    <3> QED
      BY <2>1, <3>1, <3>2 DEF ReadAt
  <2>3. CASE h = i \/ h = i - 1
    <3>1. swapped[i - 1][1] >= e /\ swapped[i - 1][2] = t
      <4>1. samples[i][1] >= e /\ samples[i][2] = t
        BY <1>3, <1>4, <1>7, <1>9, <2>1, <2>3
      <4> QED
        BY <1>5, <4>1
    <3>2. ASSUME NEW j \in 1 .. n, j < i - 1 PROVE swapped[j][1] < e
      <4>1. j < h /\ j # i /\ j # i - 1
        BY <1>4, <2>3, <3>2
      <4> QED
        BY <1>5, <2>1, <4>1
    <3> QED
      BY <1>4, <3>1, <3>2 DEF ReadAt
  <2> QED
    BY <2>2, <2>3
<1>11. ASSUME NEW e \in Nat
       PROVE  Known(samples, n, e) <=> Known(swapped, n, e)
  <2>1. ASSUME NEW j \in 1 .. n, samples[j][1] >= e PROVE Known(swapped, n, e)
    <3>1. CASE j # i /\ j # i - 1
      BY <1>5, <2>1, <3>1 DEF Known
    <3>2. CASE j = i
      BY <1>4, <1>5, <2>1, <3>2 DEF Known
    <3>3. CASE j = i - 1
      BY <1>4, <1>5, <2>1, <3>3 DEF Known
    <3> QED
      BY <3>1, <3>2, <3>3
  <2>2. ASSUME NEW j \in 1 .. n, swapped[j][1] >= e PROVE Known(samples, n, e)
    <3>1. CASE j # i /\ j # i - 1
      BY <1>5, <2>2, <3>1 DEF Known
    <3>2. CASE j = i
      BY <1>4, <1>5, <2>2, <3>2 DEF Known
    <3>3. CASE j = i - 1
      BY <1>4, <1>5, <2>2, <3>3 DEF Known
    <3> QED
      BY <3>1, <3>2, <3>3
  <2> QED
    BY <2>1, <2>2 DEF Known
<1>12. IsLogOf(vlog, swapped, n)
  <2>1. IsLogOf(vlog, samples, n)
    BY <1>1, <1>2 DEF LogInv
  <2> QED
    BY <1>1, <1>10, <1>11, <2>1, SameReads
<1>13. IsLogOf(Reconstructed(swapped), swapped, n)
  BY <1>1, <1>6, ReconstructedIs
<1>14. n \in 0 .. Len(swapped)
  BY <1>6
<1> QED
  BY <1>1, <1>6, <1>12, <1>13, <1>14, OneLog

(* A read may be made twice.                                                *)
LEMMA AgainIs ==
  ASSUME VoxelInv, NEW i \in DOMAIN samples, NEW again, again = InsertAt(samples, i, samples[i])
  PROVE  ~Refused(again, polled) /\ Reconstructed(again) = vlog
<1>1. GameInv /\ SamplesInv /\ LogInv
  BY DEF VoxelInv
<1>2. PICK n \in Nat : n = Len(samples)
  BY <1>1, TheSamples
<1>3. /\ samples \in Sampled /\ DOMAIN samples = 1 .. n /\ i \in 1 .. n
      /\ i \in Nat /\ i >= 1 /\ i <= n
      /\ \A j \in 1 .. n : samples[j][1] \in Nat /\ samples[j][2] \in Nat /\ samples[j][1] <= polled
      /\ \A j \in 1 .. n : samples[j] \in Nat \X Nat
  <2>1. /\ samples \in Sampled /\ DOMAIN samples = 1 .. n /\ i \in 1 .. n
        /\ \A j \in 1 .. n : samples[j][1] \in Nat /\ samples[j][2] \in Nat /\ samples[j][1] <= polled
    BY <1>1, <1>2, TheSamples
  <2>2. \A j \in 1 .. n : samples[j] \in Nat \X Nat
    BY <1>2, <2>1, ElementOfSeq DEF Sampled
  <2>3. i \in Nat /\ i >= 1 /\ i <= n
    BY <1>2, <2>1
  <2> QED
    BY <2>1, <2>2, <2>3
<1>4. /\ again \in Sampled /\ Len(again) = n + 1
      /\ \A j \in 1 .. i : again[j] = samples[j]
      /\ \A j \in i + 1 .. n + 1 : again[j] = samples[j - 1]
  <2> DEFINE T == Nat \X Nat
             a == SubSeq(samples, 1, i - 1)
             b == <<samples[i]>>
             c == SubSeq(samples, i, n)
  <2>1. again = a \o b \o c
    BY <1>2 DEF InsertAt
  <2>2. samples \in Seq(T) /\ samples[i] \in T
    BY <1>3 DEF Sampled
  <2>3. /\ a \in Seq(T) /\ Len(a) = i - 1 /\ \A j \in 1 .. i - 1 : a[j] = samples[j]
    <3>1. \A j \in 1 .. i - 1 : samples[j] \in T
      BY <1>3
    <3>2. 1 \in Int /\ i - 1 \in Int /\ (i - 1) - 1 + 1 = i - 1
      BY <1>3
    <3> HIDE DEF T
    <3>3. /\ a \in Seq(T) /\ Len(a) = IF 1 <= i - 1 THEN (i - 1) - 1 + 1 ELSE 0
          /\ \A j \in 1 .. (i - 1) - 1 + 1 : a[j] = samples[1 + j - 1]
      BY <3>1, <3>2, SubSeqProperties
    <3>4. \A j \in 1 .. i - 1 : 1 + j - 1 = j
      BY <1>3
    <3> HIDE DEF a
    <3> QED
      BY <1>3, <3>2, <3>3, <3>4
  <2>4. /\ c \in Seq(T) /\ Len(c) = n - i + 1 /\ \A j \in 1 .. n - i + 1 : c[j] = samples[i + j - 1]
    <3>1. \A j \in i .. n : samples[j] \in T
      BY <1>3
    <3>2. i \in Int /\ n \in Int /\ i <= n
      BY <1>3
    <3> HIDE DEF T
    <3>3. /\ c \in Seq(T) /\ Len(c) = IF i <= n THEN n - i + 1 ELSE 0
          /\ \A j \in 1 .. n - i + 1 : c[j] = samples[i + j - 1]
      BY <3>1, <3>2, SubSeqProperties
    <3> HIDE DEF c
    <3> QED
      BY <3>2, <3>3
  <2>5. b \in Seq(T) /\ Len(b) = 1 /\ b[1] = samples[i]
    BY <2>2
  <2> HIDE DEF T, a, b, c
  <2> DEFINE d == a \o b
  <2>6. /\ d \in Seq(T) /\ Len(d) = i
        /\ \A j \in 1 .. i - 1 : d[j] = samples[j]
        /\ d[i] = samples[i]
    <3>1. /\ d \in Seq(T) /\ Len(d) = (i - 1) + 1
          /\ \A j \in 1 .. (i - 1) + 1 : d[j] = IF j <= i - 1 THEN a[j] ELSE b[j - (i - 1)]
      <4>1. /\ a \o b \in Seq(T) /\ Len(a \o b) = Len(a) + Len(b)
            /\ \A j \in 1 .. Len(a) + Len(b) :
                 (a \o b)[j] = IF j <= Len(a) THEN a[j] ELSE b[j - Len(a)]
        BY <2>3, <2>5, ConcatProperties
      <4> QED
        BY <2>3, <2>5, <4>1
    <3>2. (i - 1) + 1 = i /\ i - (i - 1) = 1 /\ ~(i <= i - 1) /\ i \in 1 .. i
            /\ \A j \in 1 .. i - 1 : j \in 1 .. i /\ j <= i - 1
      BY <1>3
    <3> HIDE DEF d
    <3> QED
      BY <2>3, <2>5, <3>1, <3>2
  <2> HIDE DEF d
  <2> DEFINE f == d \o c
  <2>0. /\ f \in Seq(T) /\ Len(f) = i + (n - i + 1)
        /\ \A j \in 1 .. i + (n - i + 1) : f[j] = IF j <= i THEN d[j] ELSE c[j - i]
    <3>1. /\ d \o c \in Seq(T) /\ Len(d \o c) = Len(d) + Len(c)
          /\ \A j \in 1 .. Len(d) + Len(c) :
               (d \o c)[j] = IF j <= Len(d) THEN d[j] ELSE c[j - Len(d)]
      BY <2>4, <2>6, ConcatProperties
    <3> QED
      BY <2>4, <2>6, <3>1
  <2> HIDE DEF f
  <2>7. i + (n - i + 1) = n + 1 /\ f \in Seq(T) /\ Len(f) = n + 1
    BY <1>3, <2>0
  <2>8. \A j \in 1 .. i : f[j] = samples[j]
    <3> TAKE j \in 1 .. i
    <3>1. j \in 1 .. n + 1 /\ j <= i /\ (j = i \/ j \in 1 .. i - 1)
      BY <1>3
    <3> QED
      BY <2>0, <2>6, <2>7, <3>1
  <2>9. ASSUME NEW j \in i + 1 .. n + 1 PROVE f[j] = samples[j - 1]
    <3>1. /\ j - i \in 1 .. n - i + 1 /\ i + (j - i) - 1 = j - 1
          /\ j \in 1 .. n + 1 /\ ~(j <= i)
      BY <1>2, <1>3
    <3>2. f[j] = c[j - i]
      BY <2>0, <2>7, <3>1
    <3> QED
      BY <2>4, <3>1, <3>2
  <2> QED
    BY <2>1, <2>7, <2>8, <2>9 DEF d, f, Sampled, T
<1>5. \A j \in 1 .. n + 1 : j \in 1 .. i \/ j \in i + 1 .. n + 1
  BY <1>3
<1>6. \A j \in 1 .. n : /\ j \in 1 .. i \/ j + 1 \in i + 1 .. n + 1
                        /\ j \in 1 .. n + 1 /\ j + 1 \in 1 .. n + 1
  BY <1>3
<1>7. ASSUME NEW j \in 1 .. n + 1
      PROVE  again[j] = samples[IF j <= i THEN j ELSE j - 1]
  BY <1>3, <1>4, <1>5
<1>8. ~Refused(again, polled)
  <2>1. ~(polled > Slots)
    BY <1>1, VoxelConstants DEF SamplesInv
  <2>2. DOMAIN again = 1 .. n + 1
    BY <1>4 DEF Sampled
  <2>3. \A j \in 1 .. n + 1 : ~(again[j][1] > polled)
    <3> TAKE j \in 1 .. n + 1
    <3>1. (IF j <= i THEN j ELSE j - 1) \in 1 .. n
      BY <1>3
    <3>2. polled \in Nat
      BY <1>1, TheSamples
    <3> DEFINE x == IF j <= i THEN j ELSE j - 1
    <3>3. again[j] = samples[x] /\ x \in 1 .. n
      BY <1>7, <3>1
    <3> HIDE DEF x
    <3>4. samples[x][1] \in Nat /\ samples[x][1] <= polled
      BY <1>3, <3>3
    <3> QED
      BY <3>2, <3>3, <3>4
  <2>4. \A j \in (1 .. n + 1) \ {1} : ~(again[j][2] < again[j - 1][2])
    <3> TAKE j \in (1 .. n + 1) \ {1}
    <3> DEFINE x == IF j <= i THEN j ELSE j - 1
               y == IF j - 1 <= i THEN j - 1 ELSE (j - 1) - 1
    <3>1. j - 1 \in 1 .. n + 1 /\ again[j] = samples[x] /\ again[j - 1] = samples[y]
      BY <1>7
    <3>2. x \in 1 .. n /\ y \in 1 .. n /\ (y < x \/ y = x)
      <4>1. i \in Nat /\ n \in Nat /\ i <= n /\ i >= 1 /\ j \in Nat /\ 2 <= j /\ j <= n + 1
        BY <1>2, <1>3
      <4>2. CASE j <= i
        BY <4>1, <4>2
      <4>3. CASE j = i + 1
        BY <4>1, <4>3
      <4>4. CASE j > i + 1
        BY <4>1, <4>4
      <4> QED
        BY <4>1, <4>2, <4>3, <4>4
    <3> HIDE DEF x, y
    <3>3. samples[y][2] <= samples[x][2]
      <4>1. y < x => samples[y][2] <= samples[x][2]
        BY <1>1, <1>3, <3>2 DEF SamplesInv
      <4> QED
        BY <1>3, <3>2, <4>1
    <3>4. samples[x][2] \in Nat /\ samples[y][2] \in Nat
      BY <1>3, <3>2
    <3> QED
      BY <3>1, <3>3, <3>4
  <2> QED
    BY <2>1, <2>2, <2>3, <2>4 DEF Refused
<1>9. ASSUME NEW e \in Nat, NEW t \in Nat, ReadAt(samples, n, e, t)
      PROVE  ReadAt(again, n + 1, e, t)
  <2>1. PICK h \in 1 .. n : /\ samples[h][1] >= e /\ samples[h][2] = t
                            /\ \A j \in 1 .. n : j < h => samples[j][1] < e
    BY <1>9 DEF ReadAt
  <2> DEFINE k == IF h <= i THEN h ELSE h + 1
  <2>2. k \in 1 .. n + 1 /\ (IF k <= i THEN k ELSE k - 1) = h
    BY <1>3
  <2>3. again[k] = samples[h]
    BY <1>7, <2>2
  <2>4. ASSUME NEW j \in 1 .. n + 1, j < k PROVE again[j][1] < e
    <3> DEFINE x == IF j <= i THEN j ELSE j - 1
    <3>1. x \in 1 .. n /\ x < h
      BY <1>3, <2>4
    <3>2. again[j] = samples[x]
      BY <1>7
    <3> HIDE DEF x
    <3> QED
      BY <2>1, <3>1, <3>2
  <2> HIDE DEF k
  <2> QED
    BY <2>1, <2>2, <2>3, <2>4 DEF ReadAt
<1>10. ASSUME NEW e \in Nat
       PROVE  Known(samples, n, e) <=> Known(again, n + 1, e)
  <2>1. ASSUME NEW j \in 1 .. n, samples[j][1] >= e PROVE Known(again, n + 1, e)
    <3> DEFINE k == IF j <= i THEN j ELSE j + 1
    <3>1. k \in 1 .. n + 1 /\ (IF k <= i THEN k ELSE k - 1) = j
      BY <1>3
    <3>2. again[k] = samples[j]
      BY <1>7, <3>1
    <3> HIDE DEF k
    <3> QED
      BY <2>1, <3>1, <3>2 DEF Known
  <2>2. ASSUME NEW j \in 1 .. n + 1, again[j][1] >= e PROVE Known(samples, n, e)
    <3> DEFINE x == IF j <= i THEN j ELSE j - 1
    <3>1. x \in 1 .. n /\ again[j] = samples[x]
      BY <1>3, <1>7
    <3> HIDE DEF x
    <3> QED
      BY <2>2, <3>1 DEF Known
  <2> QED
    BY <2>1, <2>2 DEF Known
<1>11. IsLogOf(vlog, again, n + 1)
  <2>1. IsLogOf(vlog, samples, n)
    BY <1>1, <1>2 DEF LogInv
  <2> QED
    BY <1>1, <1>9, <1>10, <2>1, SameReads
<1>12. IsLogOf(Reconstructed(again), again, n + 1)
  BY <1>1, <1>4, ReconstructedIs
<1>13. n + 1 \in 0 .. Len(again)
  BY <1>4
<1> QED
  BY <1>1, <1>4, <1>8, <1>11, <1>12, <1>13, OneLog

(* ReplayIsSound: however the array is cut by the polls, the log has every  *)
(* whole frame once, a plugin's reads give the same one, and its steps are  *)
(* when and with what the game made them.                                   *)
THEOREM ReplaysAreSound == VoxelSpec => []ReplayIsSound
<1>1. VoxelInv => ReplayIsSound
  <2> SUFFICES ASSUME VoxelInv PROVE ReplayIsSound
    OBVIOUS
  <2>1. Reconstructed(samples) = vlog
    <3>1. GameInv /\ samples \in Sampled /\ IsLogOf(vlog, samples, Len(samples)) /\ Len(samples) \in Nat
      BY TheSamples DEF VoxelInv, LogInv
    <3>2. IsLogOf(Reconstructed(samples), samples, Len(samples))
      BY <3>1, ReconstructedIs
    <3> QED
      BY <3>1, <3>2, OneLog
  <2>2. ReadsAreWhole
    BY <2>1, WholeIsRead, SwapIs, AgainIs DEF ReadsAreWhole
  <2> QED
    BY <2>2 DEF ReplayIsSound, VoxelInv, CloudInv
<1> QED
  BY <1>1, VoxelInvAlways, PTL

-----------------------------------------------------------------------------
(* MeshPrefetch. *)

\* What has been loaded, by whether a fetch has begun and the mesh was needed.
LoadsInv ==
    \/ fetch.state = "none" /\ ~tried /\ loaded = <<>>
    \/ fetch.state = "none" /\ tried /\ loaded = <<wanted>>
    \/ fetch.state # "none" /\ (tried => wanted = fetchMap) /\ loaded = <<fetchMap>>
    \/ fetch.state # "none" /\ tried /\ wanted # fetchMap /\ loaded = <<fetchMap, wanted>>

\* The parse waits only for a fetch of what it wants, and only it takes one.
FetchInv ==
    /\ parse \in {"running", "waiting", "ended"}
    /\ fetch.state \in {"none", "loading", "sent", "taken"}
    /\ fetch.state = "sent" => fetch.mesh \in {fetchMap, NoMap}
    /\ fetch.state = "taken" => tried
    /\ parse = "waiting" => tried /\ fetchMap = wanted /\ fetch.state \in {"loading", "sent"}
    /\ ownMesh \in {NoMap, wanted}
    /\ ~tried => ownMesh = NoMap

PrefetchInv == LoadsInv /\ FetchInv

LEMMA PrefetchInvInit == PrefetchInit => PrefetchInv
BY DEF PrefetchInit, PrefetchInv, LoadsInv, FetchInv

LEMMA PrefetchInvStep == PrefetchInv /\ [PrefetchNext]_prefetchVars => PrefetchInv'
<1>. SUFFICES ASSUME PrefetchInv, [PrefetchNext]_prefetchVars PROVE PrefetchInv'
  OBVIOUS
<1>. USE DEF PrefetchInv, FetchInv
<1>1. CASE ServerInfo
  <2>1. CASE tried \/ fetch.state # "none"
    BY <1>1, <2>1 DEF ServerInfo, LoadsInv
  <2>2. CASE ~tried /\ fetch.state = "none"
    <3>1. loaded = <<>> /\ parse = "running" /\ ~tried' /\ ownMesh' = NoMap
      BY <1>1, <2>2 DEF ServerInfo, LoadsInv
    <3>2. fetch' = [state |-> "loading"] /\ loaded' = Append(loaded, fetchMap')
      BY <1>1, <2>2 DEF ServerInfo
    <3>3. fetch'.state = "loading" /\ loaded' = <<fetchMap'>>
      BY <3>1, <3>2
    <3>. QED
      BY <1>1, <3>1, <3>3 DEF ServerInfo, LoadsInv
  <2>. QED
    BY <2>1, <2>2
<1>2. CASE FetchLoaded
  <2>1. fetch'.state = "sent" /\ fetch'.mesh \in {fetchMap, NoMap} /\ fetch.state = "loading"
    BY <1>2 DEF FetchLoaded, Outcomes
  <2>. QED
    BY <1>2, <2>1 DEF FetchLoaded, LoadsInv
<1>3. CASE EnsureMesh
  <2>1. CASE Fetched
    <3>1. /\ fetch.state # "none" /\ ~tried /\ tried' /\ parse' = "waiting"
          /\ wanted' = fetchMap /\ ownMesh = NoMap
          /\ UNCHANGED <<fetch, fetchMap, ownMesh, loaded>>
      BY <1>3, <2>1 DEF EnsureMesh, Fetched
    <3>2. loaded = <<fetchMap>>
      BY <3>1 DEF LoadsInv
    <3>. QED
      BY <3>1, <3>2 DEF LoadsInv
  <2>2. CASE ~Fetched
    <3>1. /\ ownMesh' \in {NoMap, wanted'} /\ tried' /\ parse' = "running"
          /\ loaded' = Append(loaded, wanted') /\ UNCHANGED <<fetch, fetchMap>>
      BY <1>3, <2>2 DEF EnsureMesh, Outcomes
    <3>2. \/ fetch.state = "none" /\ loaded = <<>>
          \/ fetch.state # "none" /\ wanted' # fetchMap /\ loaded = <<fetchMap>>
      BY <1>3, <2>2 DEF EnsureMesh, Fetched, LoadsInv
    <3>3. \/ fetch.state = "none" /\ loaded' = <<wanted'>>
          \/ fetch.state # "none" /\ wanted' # fetchMap /\ loaded' = <<fetchMap, wanted'>>
      <4>1. ASSUME NEW a, NEW b
            PROVE  Append(<<>>, a) = <<a>> /\ Append(<<a>>, b) = <<a, b>>
        <5>1. Append(<<>>, a) = <<a>>
          OBVIOUS
        <5>2. <<a>> \in Seq({a, b}) /\ Len(<<a>>) = 1
          OBVIOUS
        <5>3. /\ Append(<<a>>, b) \in Seq({a, b}) /\ Len(Append(<<a>>, b)) = 2
              /\ Append(<<a>>, b)[1] = a /\ Append(<<a>>, b)[2] = b
          BY <5>2, AppendProperties
        <5>4. \A q \in Seq({a, b}) : Len(q) = 2 => q = <<q[1], q[2]>>
          OBVIOUS
        <5>. QED
          BY <5>1, <5>3, <5>4
      <4>. QED
        BY <3>1, <3>2, <4>1
    <3>. QED
      BY <3>1, <3>3 DEF LoadsInv
  <2>. QED
    BY <2>1, <2>2
<1>4. CASE ReceiveMesh
  <2>1. /\ fetch'.state = "taken" /\ fetch.state = "sent" /\ ownMesh' \in {NoMap, wanted}
        /\ tried /\ wanted = fetchMap
    BY <1>4 DEF ReceiveMesh
  <2>2. loaded' = loaded /\ loaded = <<fetchMap>>
    BY <1>4, <2>1 DEF ReceiveMesh, LoadsInv
  <2>. QED
    BY <1>4, <2>1, <2>2 DEF ReceiveMesh, LoadsInv
<1>5. CASE EndParse
  BY <1>5 DEF EndParse, LoadsInv
<1>6. CASE UNCHANGED prefetchVars
  BY <1>6 DEF prefetchVars, LoadsInv
<1>. QED
  BY <1>1, <1>2, <1>3, <1>4, <1>5, <1>6 DEF PrefetchNext

\* MeshIsTheMaps: the mesh a parse has, if any, is that of the map the demo had
\* named when one was first needed (ensureMesh), whatever it is called later.
\* That map is loaded once, the one fetched at most once besides, and the parse
\* waits for a fetch only if it is of the map it needs.
THEOREM MeshOfTheMap == PrefetchSpec => []MeshIsTheMaps
<1>1. PrefetchInv => MeshIsTheMaps
  <2>. SUFFICES ASSUME PrefetchInv PROVE MeshIsTheMaps
    OBVIOUS
  <2>1. \A i, k \in DOMAIN loaded : loaded[i] = loaded[k] => i = k
    BY DEF PrefetchInv, LoadsInv
  <2>2. tried => \E i \in DOMAIN loaded : loaded[i] = wanted
    <3>1. CASE loaded = <<fetchMap, wanted>>
      <4>1. 2 \in DOMAIN loaded /\ loaded[2] = wanted
        BY <3>1
      <4>. QED
        BY <4>1
    <3>2. CASE tried /\ loaded = <<wanted>>
      <4>1. 1 \in DOMAIN loaded /\ loaded[1] = wanted
        BY <3>2
      <4>. QED
        BY <4>1
    <3>. QED
      BY <3>1, <3>2 DEF PrefetchInv, LoadsInv
  <2>3. \A i \in DOMAIN loaded : loaded[i] \in {fetchMap, wanted}
    BY DEF PrefetchInv, LoadsInv
  <2>. QED
    BY <2>1, <2>2, <2>3 DEF MeshIsTheMaps, PrefetchInv, FetchInv
<1>. QED
  BY <1>1, PrefetchInvInit, PrefetchInvStep, PTL DEF PrefetchSpec
=============================================================================
