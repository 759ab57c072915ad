--------------------------- MODULE WriteQueueProofs ---------------------------
(***************************************************************************)
(* Proofs about WriteQueue for every set of producers and every size:       *)
(* the types, the bound on the length of the queue, and that the queue      *)
(* implements the safety part of MetricPipe.                                *)
(***************************************************************************)
EXTENDS WriteQueue, FiniteSetTheorems, SequenceTheorems, TLAPS

\* The items of a call: n series, each of this call.
LEMMA ConvertType ==
  ASSUME NEW p \in Producers, NEW call \in 1..MaxCalls, NEW n \in 0..MaxItems
  PROVE  /\ Convert(p, call, n) \in Seq(Series)
         /\ Len(Convert(p, call, n)) = n
<1>1. \A i \in 1..n : [from |-> p, call |-> call, pos |-> i] \in Series
  BY SizesAssumption DEF Series
<1>2. n \in Nat
  BY SizesAssumption
<1> QED
  BY <1>1, <1>2 DEF Convert

\* A list is cut in two by PopBackN: what it returns and what it leaves.
LEMMA PopSplits ==
  ASSUME NEW S, NEW L \in Seq(S), NEW n \in Nat
  PROVE  /\ PopCount(L, n) \in 0..Len(L)
         /\ PopCount(L, n) <= n
         /\ PopBackN(L, n) \in Seq(S)
         /\ Len(PopBackN(L, n)) = PopCount(L, n)
         /\ AfterPopBackN(L, n) \in Seq(S)
         /\ Len(AfterPopBackN(L, n)) = Len(L) - PopCount(L, n)
         /\ PopBackN(L, n) \o AfterPopBackN(L, n) = L
<1> DEFINE c == PopCount(L, n)
<1>1. c \in 0..Len(L) /\ c <= n
  BY DEF PopCount
<1> HIDE DEF c
<1>2. /\ SubSeq(L, 1, c) \in Seq(S)
      /\ Len(SubSeq(L, 1, c)) = c
      /\ \A i \in 1..c : SubSeq(L, 1, c)[i] = L[i]
  BY <1>1
<1>3. /\ SubSeq(L, c + 1, Len(L)) \in Seq(S)
      /\ Len(SubSeq(L, c + 1, Len(L))) = Len(L) - c
      /\ \A i \in 1..(Len(L) - c) : SubSeq(L, c + 1, Len(L))[i] = L[c + i]
  BY <1>1
<1>4. SubSeq(L, 1, c) \o SubSeq(L, c + 1, Len(L)) = L
  <2>1. /\ 1 \in 1..(Len(L) + 1)
        /\ c \in (1 - 1)..Len(L)
        /\ Len(L) \in c..Len(L)
    BY <1>1
  <2>2. SubSeq(L, 1, c) \o SubSeq(L, c + 1, Len(L)) = SubSeq(L, 1, Len(L))
    BY <2>1, ConcatAdjacentSubSeq
  <2> QED
    BY <2>2, SubSeqFull
<1> QED
  BY <1>1, <1>2, <1>3, <1>4 DEF c, PopBackN, AfterPopBackN

-------------------------------------------------------------------------------
(***************************************************************************)
(* Types.                                                                   *)
(***************************************************************************)

\* What a call appends is no longer than MaxItems, and it has a number: with
\* this the types are inductive.
LEMMA TypeInit == WQInit => WQTypeOK /\ CallsOpen
  BY SizesAssumption
  DEF WQInit, WQTypeOK, CallsOpen, NewSafeList, NoSeries, PCs

\* A step of a producer keeps the types.
LEMMA ProduceType ==
  ASSUME WQTypeOK, CallsOpen, NEW p \in Producers, Produce(p)
  PROVE  WQTypeOK' /\ CallsOpen'
<1>1. CASE \E n \in 0..MaxItems : BeginWriteSamples(p, n)
  <2> PICK n \in 0..MaxItems : BeginWriteSamples(p, n)
    BY <1>1
  <2>1. calls[p] + 1 \in 1..MaxCalls
    BY SizesAssumption DEF WQTypeOK, BeginWriteSamples
  <2>2. /\ Convert(p, calls[p] + 1, n) \in Seq(Series)
        /\ Len(Convert(p, calls[p] + 1, n)) <= MaxItems
    BY <2>1, ConvertType, SizesAssumption
  <2>3. WQTypeOK'
    BY <2>1, <2>2 DEF WQTypeOK, BeginWriteSamples, PCs
  <2>4. CallsOpen'
    BY <2>1, <2>2 DEF WQTypeOK, CallsOpen, BeginWriteSamples
  <2> QED
    BY <2>3, <2>4
<1>2. CASE CheckLimit(p)
  <2>1. WQTypeOK'
    BY <1>2 DEF WQTypeOK, CheckLimit, PCs
  <2>2. CallsOpen'
    BY <1>2 DEF WQTypeOK, CallsOpen, CheckLimit
  <2> QED
    BY <2>1, <2>2
<1>3. CASE Push(p)
  <2>1. WQTypeOK'
    BY <1>3 DEF WQTypeOK, Push, PCs, PushFrontN
  <2>2. CallsOpen'
    BY <1>3 DEF WQTypeOK, CallsOpen, Push
  <2> QED
    BY <2>1, <2>2
<1>4. CASE SpawnSnapshot(p)
  <2>1. [from |-> p, call |-> calls[p], count |-> Len(items[p]),
         size |-> Len(queue), success |-> success[p]] \in Snapshots
    BY <1>4, SizesAssumption DEF WQTypeOK, CallsOpen, SpawnSnapshot, Snapshots
  <2>2. snapshots' \subseteq Snapshots
    BY <1>4, <2>1 DEF WQTypeOK, SpawnSnapshot
  <2>3. WQTypeOK'
    BY <1>4, <2>2 DEF WQTypeOK, SpawnSnapshot, PCs, NoSeries
  <2>4. CallsOpen'
    BY <1>4, SizesAssumption DEF WQTypeOK, CallsOpen, SpawnSnapshot, NoSeries
  <2> QED
    BY <2>3, <2>4
<1> QED
  BY <1>1, <1>2, <1>3, <1>4 DEF Produce

\* So does every step.
LEMMA TypeStep ==
  ASSUME WQTypeOK, CallsOpen, [WQNext]_wqVars
  PROVE  WQTypeOK' /\ CallsOpen'
<1>1. CASE \E p \in Producers : Produce(p)
  BY <1>1, ProduceType
<1>2. CASE RunSnapshot
  <2> PICK s \in snapshots : Snapshot(s)
    BY <1>2 DEF RunSnapshot
  <2>1. s.count \in Nat /\ s.size \in Nat
    BY SizesAssumption DEF WQTypeOK, Snapshots
  <2>2. stats' \in [QueueTotalCount : Nat, QueueSize : Nat,
                    QueueFailCount : Nat, QueueFailTotal : Nat]
    BY <2>1 DEF WQTypeOK, Snapshot
  <2>3. WQTypeOK'
    BY <2>2 DEF WQTypeOK, Snapshot
  <2>4. CallsOpen'
    BY DEF CallsOpen, Snapshot
  <2> QED
    BY <2>3, <2>4
<1>3. CASE PopBatch
  <2>1. /\ PopBackN(queue, BatchSize) \in Seq(Series)
        /\ AfterPopBackN(queue, BatchSize) \in Seq(Series)
    BY PopSplits, SizesAssumption DEF WQTypeOK
  <2>2. WQTypeOK'
    BY <1>3, <2>1 DEF WQTypeOK, PopBatch
  <2>3. CallsOpen'
    BY <1>3 DEF CallsOpen, PopBatch
  <2> QED
    BY <2>2, <2>3
<1>4. CASE BatchWritten
  BY <1>4 DEF WQTypeOK, CallsOpen, BatchWritten, NoSeries
<1>5. CASE UNCHANGED wqVars
  BY <1>5 DEF WQTypeOK, CallsOpen, wqVars
<1> QED
  BY <1>1, <1>2, <1>3, <1>4, <1>5 DEF WQNext, LoopRead, SleepOnEmpty

\* The variables of WriteSamples, snapshot and loopRead keep their types.
THEOREM Types == WQSpec => []WQTypeOK
<1>1. WQInit => WQTypeOK /\ CallsOpen
  BY TypeInit
<1>2. (WQTypeOK /\ CallsOpen) /\ [WQNext]_wqVars => (WQTypeOK /\ CallsOpen)'
  BY TypeStep
<1> QED
  BY <1>1, <1>2, PTL DEF WQSpec
-------------------------------------------------------------------------------
(***************************************************************************)
(* The bound of the queue.  Capacity alone is not inductive: a push may     *)
(* follow a length test made long ago.  RoomReserved counts the producers   *)
(* in between.                                                              *)
(***************************************************************************)

\* Facts about the producers between the test and the push.
LEMMA PushingFinite ==
  ASSUME NEW f, NEW T, T = {p \in Producers : f[p] = "push"}
  PROVE  /\ IsFiniteSet(T)
         /\ Cardinality(T) \in Nat
         /\ Cardinality(Producers) \in Nat
         /\ Cardinality(T) <= Cardinality(Producers)
<1>1. T \in SUBSET Producers
  OBVIOUS
<1>2. IsFiniteSet(T) /\ Cardinality(T) <= Cardinality(Producers)
  BY <1>1, FS_Subset, ProducersAssumption
<1> QED
  BY <1>2, FS_CardinalityType, ProducersAssumption

\* Arithmetic of the reservations.
LEMMA TimesMonotone ==
  ASSUME NEW a \in Nat, NEW b \in Nat, NEW m \in Nat, a <= b
  PROVE  a * m \in Nat /\ b * m \in Nat /\ a * m <= b * m
  OBVIOUS

\* One more call past its check reserves room for MaxItems more series.
LEMMA TimesSucc ==
  ASSUME NEW a \in Nat, NEW m \in Nat
  PROVE  a * m \in Nat /\ (a + 1) * m = a * m + m
  OBVIOUS

\* CheckLimit reserves room only while the queue is below its limit.
LEMMA CheckReserves ==
  ASSUME RoomReserved, NEW p \in Producers, CheckLimit(p)
  PROVE  (Len(queue) + Cardinality(Pushing) * MaxItems <= Capacity)'
<1> DEFINE k == Cardinality(Pushing)
           all == Cardinality(Producers)
<1>1. /\ k \in Nat /\ all \in Nat /\ IsFiniteSet(Pushing)
      /\ Cardinality(Pushing') \in Nat /\ Cardinality(Pushing') <= all
  BY PushingFinite DEF Pushing
<1>2. Len(queue) \in Nat /\ Len(queue') = Len(queue)
  BY DEF RoomReserved, WQTypeOK, CheckLimit
<1>3. CASE Len(queue) >= MaxSize
  <2>1. Pushing' = Pushing
    BY <1>3 DEF Pushing, CheckLimit, RoomReserved, WQTypeOK
  <2> QED
    BY <1>2, <2>1 DEF RoomReserved, Capacity
<1>4. CASE ~(Len(queue) >= MaxSize)
  <2>1. Cardinality(Pushing') * MaxItems <= all * MaxItems
    BY <1>1, TimesMonotone, SizesAssumption
  <2>2. /\ Cardinality(Pushing') * MaxItems \in Nat
        /\ all * MaxItems \in Nat
    BY <1>1, TimesMonotone, SizesAssumption
  <2>3. Len(queue') <= MaxSize - 1
    BY <1>2, <1>4, SizesAssumption
  <2> HIDE DEF k, all
  <2> QED
    BY <1>2, <2>1, <2>2, <2>3, SizesAssumption DEF Capacity, all
<1> QED
  BY <1>3, <1>4

\* Push uses one reservation.
LEMMA PushUses ==
  ASSUME RoomReserved, NEW p \in Producers, Push(p)
  PROVE  (Len(queue) + Cardinality(Pushing) * MaxItems <= Capacity)'
<1>1. /\ Cardinality(Pushing) \in Nat /\ IsFiniteSet(Pushing)
      /\ Cardinality(Pushing') \in Nat
  BY PushingFinite DEF Pushing
<1>2. p \in Pushing /\ Pushing' = Pushing \ {p}
  BY DEF Pushing, Push, RoomReserved, WQTypeOK
<1>3. Cardinality(Pushing) = Cardinality(Pushing') + 1
  <2>1. Cardinality(Pushing \ {p}) = Cardinality(Pushing) - 1
    BY <1>1, <1>2, FS_RemoveElement
  <2> QED
    BY <1>1, <1>2, <2>1
<1>4. /\ Cardinality(Pushing') * MaxItems \in Nat
      /\ Cardinality(Pushing) * MaxItems
           = Cardinality(Pushing') * MaxItems + MaxItems
  BY <1>1, <1>3, TimesSucc, SizesAssumption
<1>5. /\ Len(queue) \in Nat /\ Len(items[p]) \in Nat
      /\ Len(items[p]) <= MaxItems
      /\ Len(queue') = Len(queue) + Len(items[p])
  BY DEF RoomReserved, WQTypeOK, CallsOpen, Push, PushFrontN
<1>6. Capacity' = Capacity /\ Capacity \in Int
  <2>1. Cardinality(Producers) * MaxItems \in Nat
    BY PushingFinite, TimesMonotone, SizesAssumption
  <2> QED
    BY <2>1, SizesAssumption DEF Capacity
<1>7. Len(queue) + Cardinality(Pushing) * MaxItems <= Capacity
  BY DEF RoomReserved
<1> QED
  BY <1>4, <1>5, <1>6, <1>7, SizesAssumption

\* Every step keeps the room reserved.
LEMMA RoomStep ==
  ASSUME RoomReserved, [WQNext]_wqVars
  PROVE  RoomReserved'
<1>1. WQTypeOK' /\ CallsOpen'
  BY TypeStep DEF RoomReserved
<1> SUFFICES (Len(queue) + Cardinality(Pushing) * MaxItems <= Capacity)'
  BY <1>1 DEF RoomReserved
<1>2. ASSUME NEW p \in Producers, Produce(p)
      PROVE  (Len(queue) + Cardinality(Pushing) * MaxItems <= Capacity)'
  <2>1. CASE \E n \in 0..MaxItems : BeginWriteSamples(p, n)
    <3>1. Pushing' = Pushing /\ queue' = queue
      BY <2>1 DEF BeginWriteSamples, Pushing, RoomReserved, WQTypeOK
    <3> QED
      BY <3>1 DEF RoomReserved, Capacity
  <2>2. CASE CheckLimit(p)
    BY <2>2, CheckReserves
  <2>3. CASE Push(p)
    BY <2>3, PushUses
  <2>4. CASE SpawnSnapshot(p)
    <3>1. Pushing' = Pushing /\ queue' = queue
      BY <2>4 DEF SpawnSnapshot, Pushing, RoomReserved, WQTypeOK
    <3> QED
      BY <3>1 DEF RoomReserved, Capacity
  <2> QED
    BY <1>2, <2>1, <2>2, <2>3, <2>4 DEF Produce
<1>3. CASE PopBatch
  <2>1. Pushing' = Pushing
    BY <1>3 DEF PopBatch, Pushing
  <2>2. /\ Len(queue') \in Nat /\ Len(queue) \in Nat
        /\ Len(queue') <= Len(queue)
    BY <1>3, PopSplits, SizesAssumption DEF PopBatch, RoomReserved, WQTypeOK
  <2>3. /\ Cardinality(Pushing) * MaxItems \in Nat
        /\ Cardinality(Producers) * MaxItems \in Nat
    BY PushingFinite, TimesMonotone, SizesAssumption DEF Pushing
  <2> QED
    BY <2>1, <2>2, <2>3, SizesAssumption DEF RoomReserved, Capacity
<1>4. CASE RunSnapshot \/ BatchWritten \/ UNCHANGED wqVars
  <2>1. Pushing' = Pushing /\ queue' = queue
    BY <1>4 DEF RunSnapshot, Snapshot, BatchWritten, wqVars, Pushing
  <2> QED
    BY <2>1 DEF RoomReserved, Capacity
<1> QED
  BY <1>2, <1>3, <1>4 DEF WQNext, LoopRead, SleepOnEmpty

\* No WriteSamples call is between its check and its push at the start.
LEMMA RoomInit == WQInit => RoomReserved
<1> SUFFICES ASSUME WQInit PROVE RoomReserved
  OBVIOUS
<1>1. Pushing = {} /\ Len(queue) = 0
  BY DEF WQInit, Pushing, NewSafeList
<1>2. Cardinality(Pushing) = 0
  BY <1>1, FS_EmptySet
<1>3. Cardinality(Producers) * MaxItems \in Nat
  BY PushingFinite, TimesMonotone, SizesAssumption
<1>4. Len(queue) + Cardinality(Pushing) * MaxItems <= Capacity
  BY <1>1, <1>2, <1>3, SizesAssumption DEF Capacity
<1> QED
  BY <1>4, TypeInit DEF RoomReserved

\* For every number of producers and every size, the queue of WriteSamples
\* exceeds its limit by less than one call of each producer.
THEOREM Bounded == WQSpec => []QueueBound
<1>1. WQInit => RoomReserved
  BY RoomInit
<1>2. RoomReserved /\ [WQNext]_wqVars => RoomReserved'
  BY RoomStep
<1>3. RoomReserved => QueueBound
  <2> SUFFICES ASSUME RoomReserved PROVE QueueBound
    OBVIOUS
  <2>1. Cardinality(Pushing) * MaxItems \in Nat
    BY PushingFinite, TimesMonotone, SizesAssumption DEF Pushing
  <2>2. Cardinality(Producers) * MaxItems \in Nat
    BY PushingFinite, TimesMonotone, SizesAssumption
  <2>3. Len(queue) \in Nat
    BY DEF RoomReserved, WQTypeOK
  <2> QED
    BY <2>1, <2>2, <2>3, SizesAssumption DEF RoomReserved, QueueBound, Capacity
<1> QED
  BY <1>1, <1>2, <1>3, PTL DEF WQSpec
-------------------------------------------------------------------------------
(***************************************************************************)
(* Order.  Accepted, the series of all batches and of the queue in order,   *)
(* changes by Push alone, which appends the items of one call.              *)
(***************************************************************************)

\* Concatenation of lists of series is associative.
LEMMA SeriesConcat ==
  ASSUME NEW a \in Seq(Series), NEW b \in Seq(Series), NEW c \in Seq(Series)
  PROVE  (a \o b) \o c = a \o (b \o c)
  BY ConcatAssociative

\* The fields of a series in a list.
LEMMA SeriesFields ==
  ASSUME NEW s \in Seq(Series), NEW i \in 1..Len(s)
  PROVE  s[i].from \in Producers /\ s[i].call \in Nat /\ s[i].pos \in Nat
<1>1. s[i] \in Series
  OBVIOUS
<1>2. s[i].from \in Producers /\ s[i].call \in 1..MaxCalls /\ s[i].pos \in 1..MaxItems
  BY <1>1 DEF Series
<1> QED
  BY <1>2, SizesAssumption

\* What was accepted is a sequence of series.
LEMMA AcceptedType ==
  ASSUME WQTypeOK
  PROVE  Accepted \in Seq(Series)
  BY DEF WQTypeOK, Accepted

\* loopRead moves series from the queue to a batch and on, and drops none.
LEMMA LoopReadKeeps ==
  ASSUME WQTypeOK, LoopRead
  PROVE  Accepted' = Accepted
<1>1. CASE PopBatch
  <2>1. batch' \o queue' = queue
    BY <1>1, PopSplits, SizesAssumption DEF PopBatch, WQTypeOK
  <2>2. batch' \in Seq(Series) /\ queue' \in Seq(Series)
    BY <1>1, PopSplits, SizesAssumption DEF PopBatch, WQTypeOK
  <2>3. (written \o batch') \o queue' = written \o queue
    BY <2>1, <2>2, SeriesConcat DEF WQTypeOK
  <2>4. written \o batch = written
    BY <1>1, ConcatEmptySeq DEF PopBatch, WQTypeOK, NoSeries
  <2> QED
    BY <1>1, <2>3, <2>4 DEF Accepted, PopBatch
<1>2. CASE BatchWritten
  <2>1. (written \o batch) \o <<>> = written \o batch
    BY ConcatEmptySeq DEF WQTypeOK
  <2> QED
    BY <1>2, <2>1 DEF Accepted, BatchWritten, NoSeries
<1>3. CASE SleepOnEmpty
  BY <1>3 DEF SleepOnEmpty, wqVars, Accepted
<1> QED
  BY <1>1, <1>2, <1>3 DEF LoopRead

\* PushFrontN appends the whole call, in order, to what was accepted.
LEMMA PushAppends ==
  ASSUME WQTypeOK, NEW p \in Producers, Push(p)
  PROVE  Accepted' = Accepted \o items[p]
<1>1. /\ written \o batch \in Seq(Series) /\ queue \in Seq(Series)
      /\ items[p] \in Seq(Series)
  BY DEF WQTypeOK
<1>2. (written \o batch) \o (queue \o items[p])
        = ((written \o batch) \o queue) \o items[p]
  BY <1>1, SeriesConcat
<1> QED
  BY <1>2 DEF Push, PushFrontN, Accepted

\* The facts about order that hold of every reachable state.
OrderInv == WQTypeOK /\ CallsOpen /\ CallNumbers /\ FifoPerProducer /\ CallsContiguous

\* Push appends one whole call, later than all its producer has in the queue.
LEMMA PushOrder ==
  ASSUME OrderInv, NEW p \in Producers, Push(p)
  PROVE  CallNumbers' /\ FifoPerProducer' /\ CallsContiguous'
<1> DEFINE A == Accepted
           c == calls[p]
           n == Len(items[p])
<1>1. A \in Seq(Series) /\ items[p] \in Seq(Series) /\ n \in Nat /\ c \in Nat
  BY AcceptedType, SizesAssumption DEF OrderInv, WQTypeOK
<1>2. Accepted' = A \o items[p]
  BY PushAppends DEF OrderInv
<1>3. items[p] = [i \in 1..n |-> [from |-> p, call |-> c, pos |-> i]]
  BY DEF OrderInv, CallNumbers, Convert, Push
<1>4. \A i \in 1..Len(A) : A[i].from = p => A[i].call < c
  BY DEF OrderInv, CallNumbers, Push
<1>5. \A i \in 1..Len(A) : /\ A[i].from \in Producers
                           /\ A[i].call \in Nat
                           /\ A[i].pos \in Nat
  BY <1>1, SeriesFields
<1>6. /\ Len(Accepted') = Len(A) + n
      /\ \A i \in 1..Len(A) : Accepted'[i] = A[i]
      /\ \A i \in Len(A)+1..Len(A)+n :
           Accepted'[i] = [from |-> p, call |-> c, pos |-> i - Len(A)]
  <2>1. /\ Len(Accepted') = Len(A) + n
        /\ \A i \in 1..Len(A) : Accepted'[i] = A[i]
    BY <1>1, <1>2
  <2>2. ASSUME NEW i \in Len(A)+1..Len(A)+n
        PROVE  Accepted'[i] = [from |-> p, call |-> c, pos |-> i - Len(A)]
    <3>1. Accepted'[i] = items[p][i - Len(A)]
      BY <1>1, <1>2
    <3>2. i - Len(A) \in 1..n
      BY <1>1
    <3>3. items[p][i - Len(A)] = [from |-> p, call |-> c, pos |-> i - Len(A)]
      BY <1>3, <3>2
    <3> QED
      BY <3>1, <3>3
  <2> QED
    BY <2>1, <2>2
<1>7. Len(A) \in Nat
  BY <1>1
<1>8. CallNumbers'
  <2>1. \A q \in Producers :
          pc'[q] # "idle" => items'[q] = Convert(q, calls'[q], Len(items'[q]))
    BY DEF OrderInv, WQTypeOK, CallNumbers, Push
  <2>2. ASSUME NEW i \in 1..Len(Accepted')
        PROVE  LET q == Accepted'[i].from
               IN /\ Accepted'[i].call <= calls'[q]
                  /\ pc'[q] \in {"check", "push"} => Accepted'[i].call < calls'[q]
    <3>1. CASE i \in 1..Len(A)
      <4> DEFINE q == A[i].from
      <4>1. Accepted'[i] = A[i] /\ q \in Producers
        BY <1>5, <1>6, <3>1
      <4>2. /\ A[i].call <= calls[q]
            /\ pc[q] \in {"check", "push"} => A[i].call < calls[q]
        BY <3>1 DEF OrderInv, CallNumbers
      <4>3. calls' = calls /\ (pc'[q] \in {"check", "push"} => pc'[q] = pc[q])
        BY <4>1 DEF OrderInv, WQTypeOK, Push
      <4> HIDE DEF q
      <4> QED
        BY <4>1, <4>2, <4>3 DEF q
    <3>2. CASE i \in Len(A)+1..Len(A)+n
      <4>1. Accepted'[i] = [from |-> p, call |-> c, pos |-> i - Len(A)]
        BY <1>6, <3>2
      <4>2. Accepted'[i].from = p /\ Accepted'[i].call = c
        BY <4>1
      <4>3. calls'[p] = c /\ pc'[p] = "len"
        BY DEF OrderInv, WQTypeOK, Push
      <4> QED
        BY <1>1, <4>2, <4>3
    <3> QED
      BY <1>1, <1>6, <1>7, <3>1, <3>2
  <2> QED
    BY <2>1, <2>2 DEF CallNumbers
<1> DEFINE B == Accepted'
<1>9. ASSUME NEW i \in 1..Len(B), NEW j \in 1..Len(B), i < j, B[i].from = B[j].from
      PROVE  /\ Earlier(B[i], B[j])
             /\ B[i].call = B[j].call => B[j].pos - B[i].pos = j - i
  <2>1. CASE j \in 1..Len(A)
    <3>1. i \in 1..Len(A) /\ B[i] = A[i] /\ B[j] = A[j]
      BY <1>6, <1>7, <1>9, <2>1
    <3> QED
      BY <1>9, <2>1, <3>1 DEF OrderInv, FifoPerProducer, CallsContiguous
  <2>2. CASE i \in 1..Len(A) /\ j \in Len(A)+1..Len(A)+n
    <3>0. B[j] = [from |-> p, call |-> c, pos |-> j - Len(A)]
      BY <1>6, <2>2
    <3>1. B[i] = A[i] /\ B[j].from = p /\ B[j].call = c
      BY <1>6, <2>2, <3>0
    <3>2. A[i].call < c
      BY <1>4, <1>9, <2>2, <3>1
    <3> QED
      BY <1>1, <1>5, <2>2, <3>1, <3>2 DEF Earlier
  <2>3. CASE i \in Len(A)+1..Len(A)+n /\ j \in Len(A)+1..Len(A)+n
    <3>1. /\ B[i] = [from |-> p, call |-> c, pos |-> i - Len(A)]
          /\ B[j] = [from |-> p, call |-> c, pos |-> j - Len(A)]
      BY <1>6, <2>3
    <3> QED
      BY <1>1, <1>7, <1>9, <2>3, <3>1 DEF Earlier
  <2> QED
    BY <1>1, <1>6, <1>7, <1>9, <2>1, <2>2, <2>3
<1> QED
  BY <1>8, <1>9 DEF FifoPerProducer, CallsContiguous

\* A step that leaves Accepted alone keeps CallNumbers if it opens no call
\* under an old number.
LEMMA NumbersKept ==
  ASSUME OrderInv, WQTypeOK', Accepted' = Accepted,
         \A q \in Producers :
           /\ calls[q] <= calls'[q]
           /\ pc'[q] \in {"check", "push"} =>
                pc[q] \in {"check", "push"} \/ calls[q] < calls'[q]
           /\ pc'[q] # "idle" => items'[q] = Convert(q, calls'[q], Len(items'[q]))
  PROVE  CallNumbers'
<1>1. ASSUME NEW i \in 1..Len(Accepted)
      PROVE  LET q == Accepted[i].from
             IN /\ Accepted[i].call <= calls'[q]
                /\ pc'[q] \in {"check", "push"} => Accepted[i].call < calls'[q]
  <2> DEFINE q == Accepted[i].from
             c == Accepted[i].call
  <2>1. q \in Producers /\ c \in Nat
    BY AcceptedType, SeriesFields DEF OrderInv
  <2>2. c <= calls[q] /\ (pc[q] \in {"check", "push"} => c < calls[q])
    BY DEF OrderInv, CallNumbers
  <2>3. calls[q] \in Nat /\ calls'[q] \in Nat
    <3>1. calls \in [Producers -> 0..MaxCalls] /\ calls' \in [Producers -> 0..MaxCalls]
      BY DEF OrderInv, WQTypeOK
    <3> QED
      BY <2>1, <3>1, SizesAssumption
  <2> HIDE DEF q, c
  <2>4. c <= calls'[q] /\ (pc'[q] \in {"check", "push"} => c < calls'[q])
    BY <2>1, <2>2, <2>3
  <2> QED
    BY <2>4 DEF q, c
<1> QED
  BY <1>1 DEF CallNumbers

\* The other steps leave Accepted alone.
LEMMA OrderStep ==
  ASSUME OrderInv, [WQNext]_wqVars
  PROVE  OrderInv'
<1>1. WQTypeOK' /\ CallsOpen'
  BY TypeStep DEF OrderInv
<1>2. ASSUME Accepted' = Accepted
      PROVE  FifoPerProducer' /\ CallsContiguous'
  BY <1>2 DEF OrderInv, FifoPerProducer, CallsContiguous
<1>3. ASSUME NEW p \in Producers, Produce(p)
      PROVE  OrderInv'
  <2>1. CASE \E n \in 0..MaxItems : BeginWriteSamples(p, n)
    <3> PICK n \in 0..MaxItems : BeginWriteSamples(p, n)
      BY <2>1
    <3>1. Accepted' = Accepted /\ Accepted \in Seq(Series)
      BY AcceptedType DEF OrderInv, BeginWriteSamples, Accepted
    <3>2. calls[p] + 1 \in 1..MaxCalls /\ Len(Convert(p, calls[p] + 1, n)) = n
      <4>1. calls[p] \in 0..MaxCalls /\ calls[p] < MaxCalls
        BY DEF OrderInv, WQTypeOK, BeginWriteSamples
      <4>2. calls[p] + 1 \in 1..MaxCalls
        BY <4>1, SizesAssumption
      <4> QED
        BY <4>2, ConvertType
    <3>3. \A q \in Producers :
            /\ calls[q] <= calls'[q]
            /\ pc'[q] \in {"check", "push"} =>
                 pc[q] \in {"check", "push"} \/ calls[q] < calls'[q]
            /\ pc'[q] # "idle" => items'[q] = Convert(q, calls'[q], Len(items'[q]))
      BY <3>2, SizesAssumption DEF OrderInv, WQTypeOK, CallNumbers, BeginWriteSamples
    <3>4. CallNumbers'
      BY <1>1, <3>1, <3>3, NumbersKept
    <3> QED
      BY <1>1, <1>2, <3>1, <3>4 DEF OrderInv
  <2>2. CASE CheckLimit(p)
    <3>1. Accepted' = Accepted /\ Accepted \in Seq(Series)
      BY <2>2, AcceptedType DEF OrderInv, CheckLimit, Accepted
    <3>2. \A q \in Producers :
            /\ calls[q] <= calls'[q]
            /\ pc'[q] \in {"check", "push"} =>
                 pc[q] \in {"check", "push"} \/ calls[q] < calls'[q]
            /\ pc'[q] # "idle" => items'[q] = Convert(q, calls'[q], Len(items'[q]))
      BY <2>2, SizesAssumption DEF OrderInv, WQTypeOK, CallNumbers, CheckLimit
    <3>3. CallNumbers'
      BY <1>1, <3>1, <3>2, NumbersKept
    <3> QED
      BY <1>1, <1>2, <3>1, <3>3 DEF OrderInv
  <2>3. CASE Push(p)
    BY <1>1, <2>3, PushOrder DEF OrderInv
  <2>4. CASE SpawnSnapshot(p)
    <3>1. Accepted' = Accepted /\ Accepted \in Seq(Series)
      BY <2>4, AcceptedType DEF OrderInv, SpawnSnapshot, Accepted
    <3>2. \A q \in Producers :
            /\ calls[q] <= calls'[q]
            /\ pc'[q] \in {"check", "push"} =>
                 pc[q] \in {"check", "push"} \/ calls[q] < calls'[q]
            /\ pc'[q] # "idle" => items'[q] = Convert(q, calls'[q], Len(items'[q]))
      BY <2>4, SizesAssumption DEF OrderInv, WQTypeOK, CallNumbers, SpawnSnapshot
    <3>3. CallNumbers'
      BY <1>1, <3>1, <3>2, NumbersKept
    <3> QED
      BY <1>1, <1>2, <3>1, <3>3 DEF OrderInv
  <2> QED
    BY <1>3, <2>1, <2>2, <2>3, <2>4 DEF Produce
<1>4. CASE RunSnapshot \/ UNCHANGED wqVars
  <2>1. Accepted' = Accepted
    BY <1>4 DEF RunSnapshot, Snapshot, wqVars, Accepted
  <2>2. CallNumbers'
    BY <1>4, <2>1 DEF RunSnapshot, Snapshot, wqVars, OrderInv, CallNumbers
  <2> QED
    BY <1>1, <1>2, <2>1, <2>2 DEF OrderInv
<1>5. CASE LoopRead
  <2>1. Accepted' = Accepted
    BY <1>5, LoopReadKeeps DEF OrderInv
  <2>2. CallNumbers'
    BY <1>5, <2>1
    DEF LoopRead, PopBatch, BatchWritten, SleepOnEmpty, wqVars, OrderInv, CallNumbers
  <2> QED
    BY <1>1, <1>2, <2>1, <2>2 DEF OrderInv
<1> QED
  BY <1>3, <1>4, <1>5 DEF WQNext

\* Nothing is accepted and nothing is in hand at the start.
LEMMA OrderInit == WQInit => OrderInv
<1> SUFFICES ASSUME WQInit PROVE OrderInv
  OBVIOUS
<1>1. Accepted = <<>>
  BY DEF WQInit, Accepted, NewSafeList, NoSeries
<1> QED
  BY <1>1, TypeInit
  DEF OrderInv, WQInit, CallNumbers, FifoPerProducer, CallsContiguous

\* However producers interleave, the series of one producer leave the queue in
\* the order it wrote them, once each.
THEOREM Fifo == WQSpec => []FifoPerProducer
<1>1. OrderInv /\ [WQNext]_wqVars => OrderInv'
  BY OrderStep
<1>2. OrderInv => FifoPerProducer
  BY DEF OrderInv
<1> QED
  BY <1>1, <1>2, OrderInit, PTL DEF WQSpec

\* However producers interleave, nothing is pushed between two items of one
\* WriteSamples call.
THEOREM Contiguous == WQSpec => []CallsContiguous
<1>1. OrderInv /\ [WQNext]_wqVars => OrderInv'
  BY OrderStep
<1>2. OrderInv => CallsContiguous
  BY DEF OrderInv
<1> QED
  BY <1>1, <1>2, OrderInit, PTL DEF WQSpec
-------------------------------------------------------------------------------
(***************************************************************************)
(* The counters.  A call is counted long after its push, among the calls    *)
(* that follow it: the snapshots that wait to run carry what the queue took *)
(* from their calls, each of which is counted once.                         *)
(***************************************************************************)

\* The series of the queue are finitely many.
LEMMA PositionsFinite ==
  ASSUME WQTypeOK, NEW T \in SUBSET (1..Len(Accepted))
  PROVE  IsFiniteSet(T) /\ Cardinality(T) \in Nat
<1>1. Len(Accepted) \in Nat
  BY AcceptedType
<1>2. IsFiniteSet(1..Len(Accepted))
  BY <1>1, FS_Interval
<1>3. IsFiniteSet(T)
  BY <1>2, FS_Subset
<1> QED
  BY <1>3, FS_CardinalityType

\* A call that has not pushed yet has no series in the queue.
LEMMA NotPushedNoSeries ==
  ASSUME OrderInv, NEW p \in Producers, pc[p] \in {"check", "push"}
  PROVE  CallPositions(Accepted, p, calls[p]) = {}
<1> SUFFICES ASSUME NEW i \in 1..Len(Accepted), Accepted[i].from = p,
                    Accepted[i].call = calls[p]
             PROVE  FALSE
  BY DEF CallPositions
<1>1. Accepted[i].call < calls[p]
  BY DEF OrderInv, CallNumbers
<1>2. calls[p] \in Nat
  BY SizesAssumption DEF OrderInv, WQTypeOK
<1> QED
  BY <1>1, <1>2

\* Steps that leave Accepted and the snapshots alone, and neither end a call nor
\* open one under an old number.
LEMMA CallsMoveOn ==
  ASSUME OrderInv, Accepted' = Accepted, UNCHANGED <<snapshots, stats>>,
         \A i \in 1..Len(Accepted) :
           LET s == Accepted[i]
           IN (pc'[s.from] # "idle" /\ calls'[s.from] = s.call)
                <=> (pc[s.from] # "idle" /\ calls[s.from] = s.call)
  PROVE  /\ ReportedPositions' = ReportedPositions
         /\ \A q, c : CallPositions(Accepted', q, c) = CallPositions(Accepted, q, c)
<1>1. ReportedPositions' = ReportedPositions
  BY DEF ReportedPositions
<1>2. \A q, c : CallPositions(Accepted', q, c) = CallPositions(Accepted, q, c)
  BY DEF CallPositions
<1> QED
  BY <1>1, <1>2

\* The facts about the counters that hold of every reachable state.
CountInv == OrderInv /\ SnapshotsTrue /\ CountersAccount

\* BeginWriteSamples opens a call no series and no snapshot has yet.
LEMMA BeginCounts ==
  ASSUME CountInv, NEW p \in Producers, NEW n \in 0..MaxItems,
         BeginWriteSamples(p, n)
  PROVE  SnapshotsTrue' /\ CountersAccount'
<1>1. /\ pc[p] = "idle" /\ pc' = [pc EXCEPT ![p] = "check"]
      /\ calls' = [calls EXCEPT ![p] = @ + 1]
      /\ items' = [items EXCEPT ![p] = Convert(p, calls[p] + 1, n)]
      /\ UNCHANGED <<success, snapshots, stats>> /\ Accepted' = Accepted
  BY DEF BeginWriteSamples, Accepted
<1>2. /\ WQTypeOK /\ pc \in [Producers -> PCs]
      /\ calls \in [Producers -> 0..MaxCalls] /\ \A q \in Producers : calls[q] \in Nat
  BY SizesAssumption DEF CountInv, OrderInv, WQTypeOK
<1>3. ASSUME NEW i \in 1..Len(Accepted)
      PROVE  LET s == Accepted[i]
             IN (pc'[s.from] # "idle" /\ calls'[s.from] = s.call)
                  <=> (pc[s.from] # "idle" /\ calls[s.from] = s.call)
  <2> DEFINE s == Accepted[i]
  <2>1. s.from \in Producers /\ s.call \in Nat
    BY <1>2, AcceptedType, SeriesFields
  <2>2. s.call <= calls[s.from]
    BY DEF CountInv, OrderInv, CallNumbers
  <2> HIDE DEF s
  <2>3. (pc'[s.from] # "idle" /\ calls'[s.from] = s.call)
           <=> (pc[s.from] # "idle" /\ calls[s.from] = s.call)
    <3>1. CASE s.from = p
      <4>1. calls'[s.from] = calls[s.from] + 1
        BY <1>1, <1>2, <2>1, <3>1
      <4> QED
        BY <1>1, <1>2, <2>1, <2>2, <3>1, <4>1
    <3>2. CASE s.from # p
      BY <1>1, <1>2, <2>1, <3>2
    <3> QED
      BY <3>1, <3>2
  <2> QED
    BY <2>3 DEF s
<1>4. /\ ReportedPositions' = ReportedPositions
      /\ \A q, c : CallPositions(Accepted', q, c) = CallPositions(Accepted, q, c)
  BY <1>1, <1>3, CallsMoveOn DEF CountInv
<1>5. CountersAccount'
  BY <1>1, <1>4 DEF CountInv, CountersAccount
<1>6. ASSUME NEW w \in snapshots
      PROVE  /\ w.call <= calls'[w.from]
             /\ pc'[w.from] # "idle" => w.call < calls'[w.from]
             /\ Cardinality(CallPositions(Accepted', w.from, w.call))
                  = IF w.success THEN w.count ELSE 0
  <2>1. w.from \in Producers /\ w.call \in Nat
    BY <1>2, SizesAssumption DEF WQTypeOK, Snapshots
  <2>2. /\ w.call <= calls[w.from] /\ (pc[w.from] # "idle" => w.call < calls[w.from])
        /\ Cardinality(CallPositions(Accepted, w.from, w.call))
             = IF w.success THEN w.count ELSE 0
    BY DEF CountInv, SnapshotsTrue
  <2>3. CASE w.from = p
    <3>1. calls'[w.from] = calls[w.from] + 1
      BY <1>1, <1>2, <2>1, <2>3
    <3> QED
      BY <1>2, <1>4, <2>1, <2>2, <3>1
  <2>4. CASE w.from # p
    <3>1. calls'[w.from] = calls[w.from] /\ pc'[w.from] = pc[w.from]
      BY <1>1, <1>2, <2>1, <2>4
    <3> QED
      BY <1>4, <2>2, <3>1
  <2> QED
    BY <2>3, <2>4
<1>7. ASSUME NEW q \in Producers, pc'[q] = "len"
      PROVE  Cardinality(CallPositions(Accepted', q, calls'[q]))
               = IF success'[q] THEN Len(items'[q]) ELSE 0
  <2>1. q # p /\ pc[q] = "len" /\ calls'[q] = calls[q] /\ items'[q] = items[q]
    BY <1>1, <1>2, <1>7 DEF CountInv, OrderInv, WQTypeOK
  <2> QED
    BY <1>1, <1>4, <2>1 DEF CountInv, SnapshotsTrue
<1>8. SnapshotsTrue'
  BY <1>1, <1>6, <1>7 DEF CountInv, SnapshotsTrue
<1> QED
  BY <1>5, <1>8

\* CheckLimit leaves the queue and the counters alone.  A call it turns away has
\* no series in the queue.
LEMMA CheckCounts ==
  ASSUME CountInv, NEW p \in Producers, CheckLimit(p)
  PROVE  SnapshotsTrue' /\ CountersAccount'
<1>1. /\ pc[p] = "check" /\ pc'[p] \in {"push", "len"}
      /\ \A q \in Producers : q # p => pc'[q] = pc[q] /\ success'[q] = success[q]
      /\ pc'[p] = "len" => ~success'[p]
      /\ UNCHANGED <<items, calls, snapshots, stats>> /\ Accepted' = Accepted
  BY DEF CheckLimit, Accepted, CountInv, OrderInv, WQTypeOK
<1>2. \A q \in Producers : (pc'[q] # "idle") <=> (pc[q] # "idle")
  BY <1>1
<1>3. \A i \in 1..Len(Accepted) : Accepted[i].from \in Producers
  BY AcceptedType, SeriesFields DEF CountInv, OrderInv
<1>4. /\ ReportedPositions' = ReportedPositions
      /\ \A q, c : CallPositions(Accepted', q, c) = CallPositions(Accepted, q, c)
  BY <1>1, <1>2, <1>3, CallsMoveOn DEF CountInv
<1>5. CountersAccount'
  BY <1>1, <1>4 DEF CountInv, CountersAccount
<1>6. \A w \in snapshots : w.from \in Producers
  BY DEF CountInv, OrderInv, WQTypeOK, Snapshots
<1>7. ASSUME NEW q \in Producers, pc'[q] = "len"
      PROVE  Cardinality(CallPositions(Accepted', q, calls'[q]))
               = IF success'[q] THEN Len(items'[q]) ELSE 0
  <2>1. CASE q = p
    <3>1. CallPositions(Accepted, p, calls[p]) = {}
      BY <1>1, NotPushedNoSeries DEF CountInv
    <3> QED
      BY <1>1, <1>7, <2>1, <3>1, FS_EmptySet
  <2>2. CASE q # p
    BY <1>1, <1>4, <1>7, <2>2 DEF CountInv, SnapshotsTrue
  <2> QED
    BY <2>1, <2>2
<1>8. SnapshotsTrue'
  BY <1>1, <1>2, <1>4, <1>6, <1>7 DEF CountInv, SnapshotsTrue
<1> QED
  BY <1>5, <1>8

\* Push puts all the items of its call into the queue, none of them reported.
LEMMA PushCounts ==
  ASSUME CountInv, NEW p \in Producers, Push(p)
  PROVE  SnapshotsTrue' /\ CountersAccount'
<1> DEFINE A == Accepted
           B == Accepted'
           c == calls[p]
           n == Len(items[p])
<1>1. /\ pc[p] = "push" /\ pc'[p] = "len" /\ success'[p] = TRUE
      /\ \A q \in Producers : q # p => pc'[q] = pc[q] /\ success'[q] = success[q]
      /\ UNCHANGED <<items, calls, snapshots, stats>>
  BY DEF Push, CountInv, OrderInv, WQTypeOK
<1>2. /\ A \in Seq(Series) /\ items[p] \in Seq(Series) /\ B = A \o items[p]
      /\ Len(A) \in Nat /\ n \in Nat /\ c \in Nat
  <2>1. WQTypeOK
    BY DEF CountInv, OrderInv
  <2>2. A \in Seq(Series) /\ B = A \o items[p]
    BY <2>1, AcceptedType, PushAppends
  <2>3. items[p] \in Seq(Series) /\ c \in 0..MaxCalls
    BY <2>1 DEF WQTypeOK
  <2> HIDE DEF A, B
  <2> QED
    BY <2>2, <2>3, SizesAssumption
<1>3. /\ Len(B) = Len(A) + n
      /\ \A i \in 1..Len(A) : B[i] = A[i]
      /\ \A i \in Len(A)+1..Len(A)+n : B[i] = items[p][i - Len(A)]
  BY <1>2
<1>4. \A i \in Len(A)+1..Len(A)+n : B[i].from = p /\ B[i].call = c
  <2> SUFFICES ASSUME NEW i \in Len(A)+1..Len(A)+n
               PROVE  B[i].from = p /\ B[i].call = c
    OBVIOUS
  <2>1. items[p] = Convert(p, c, n)
    BY <1>1 DEF CountInv, OrderInv, CallNumbers
  <2>2. i - Len(A) \in 1..n
    BY <1>2
  <2>3. items[p][i - Len(A)] = [from |-> p, call |-> c, pos |-> i - Len(A)]
    BY <2>1, <2>2 DEF Convert
  <2> QED
    BY <1>3, <2>3
<1>5. \A i \in 1..Len(A) : A[i].from \in Producers
  BY <1>2, SeriesFields
<1>6. \A i \in 1..Len(B) : i \in 1..Len(A) \/ i \in Len(A)+1..Len(A)+n
  BY <1>2, <1>3
<1>7. 1..Len(A) \subseteq 1..Len(B) /\ Len(A)+1..Len(A)+n \subseteq 1..Len(B)
  BY <1>2, <1>3
<1>8. CallPositions(Accepted, p, c) = {}
  BY <1>1, NotPushedNoSeries DEF CountInv
<1> HIDE DEF A, B, c, n
<1>9. \A q \in Producers : (pc'[q] # "idle") <=> (pc[q] # "idle")
  BY <1>1
<1>10. CallPositions(Accepted', p, c) = Len(A)+1..Len(A)+n
  <2>1. calls'[p] = calls[p] /\ c' = c
    BY <1>1 DEF c
  <2>2. CallPositions(Accepted', p, c) = {i \in 1..Len(B) : B[i].from = p /\ B[i].call = c}
    BY <2>1 DEF CallPositions, B
  <2>3. \A i \in 1..Len(A) : ~(B[i].from = p /\ B[i].call = c)
    BY <1>3, <1>8 DEF CallPositions, A
  <2> QED
    BY <1>4, <1>6, <1>7, <2>2, <2>3
<1>11. Cardinality(CallPositions(Accepted', p, c)) = n
  <2>1. Len(A) + 1 \in Int /\ Len(A) + n \in Int
    BY <1>2
  <2>2. Cardinality(Len(A)+1..Len(A)+n)
          = IF Len(A)+1 > Len(A)+n THEN 0 ELSE (Len(A)+n) - (Len(A)+1) + 1
    BY <2>1, FS_Interval
  <2>3. Cardinality(Len(A)+1..Len(A)+n) = n
    BY <1>2, <2>2
  <2> QED
    BY <1>10, <2>3
<1>12. ASSUME NEW q, NEW d, q # p \/ d # c
       PROVE  CallPositions(Accepted', q, d) = CallPositions(Accepted, q, d)
  <2>1. CallPositions(Accepted', q, d) = {i \in 1..Len(B) : B[i].from = q /\ B[i].call = d}
    BY DEF CallPositions, B
  <2>2. CallPositions(Accepted, q, d) = {i \in 1..Len(A) : A[i].from = q /\ A[i].call = d}
    BY DEF CallPositions, A
  <2> QED
    BY <1>3, <1>4, <1>6, <1>7, <1>12, <2>1, <2>2
<1>13. ReportedPositions' = ReportedPositions
  <2> DEFINE Rep(s) == /\ \A w \in snapshots : ~(w.from = s.from /\ w.call = s.call)
                       /\ ~(pc[s.from] # "idle" /\ calls[s.from] = s.call)
             RepP(s) == /\ \A w \in snapshots : ~(w.from = s.from /\ w.call = s.call)
                        /\ ~(pc'[s.from] # "idle" /\ calls[s.from] = s.call)
  <2>1. ReportedPositions = {i \in 1..Len(A) : Rep(A[i])}
    BY DEF ReportedPositions, A
  <2>2. ReportedPositions' = {i \in 1..Len(B) : RepP(B[i])}
    BY <1>1 DEF ReportedPositions, B
  <2>3. \A i \in 1..Len(A) : RepP(B[i]) <=> Rep(A[i])
    BY <1>3, <1>5, <1>9
  <2>4. \A i \in Len(A)+1..Len(A)+n : ~RepP(B[i])
    BY <1>1, <1>4 DEF c
  <2> HIDE DEF Rep, RepP
  <2> QED
    BY <1>6, <1>7, <2>1, <2>2, <2>3, <2>4
<1>14. CountersAccount'
  BY <1>1, <1>13 DEF CountInv, CountersAccount
<1>15. ASSUME NEW w \in snapshots
       PROVE  /\ w.call <= calls'[w.from]
              /\ pc'[w.from] # "idle" => w.call < calls'[w.from]
              /\ Cardinality(CallPositions(Accepted', w.from, w.call))
                   = IF w.success THEN w.count ELSE 0
  <2>1. w.from \in Producers /\ w.call \in Nat
    BY SizesAssumption DEF CountInv, OrderInv, WQTypeOK, Snapshots
  <2>2. /\ w.call <= calls[w.from] /\ (pc[w.from] # "idle" => w.call < calls[w.from])
        /\ Cardinality(CallPositions(Accepted, w.from, w.call))
             = IF w.success THEN w.count ELSE 0
    BY DEF CountInv, SnapshotsTrue
  <2>3. w.from # p \/ w.call # c
    BY <1>1, <1>2, <2>1, <2>2 DEF c
  <2>4. CallPositions(Accepted', w.from, w.call) = CallPositions(Accepted, w.from, w.call)
    BY <1>12, <2>3
  <2> QED
    BY <1>1, <1>9, <2>1, <2>2, <2>4
<1>16. ASSUME NEW q \in Producers, pc'[q] = "len"
       PROVE  Cardinality(CallPositions(Accepted', q, calls'[q]))
                = IF success'[q] THEN Len(items'[q]) ELSE 0
  <2>1. CASE q = p
    BY <1>1, <1>11, <2>1 DEF c, n
  <2>2. CASE q # p
    <3>1. CallPositions(Accepted', q, calls[q]) = CallPositions(Accepted, q, calls[q])
      BY <1>1, <1>12, <2>2
    <3> QED
      BY <1>1, <1>16, <2>2, <3>1 DEF CountInv, SnapshotsTrue
  <2> QED
    BY <2>1, <2>2
<1>17. SnapshotsTrue'
  BY <1>1, <1>15, <1>16 DEF CountInv, SnapshotsTrue
<1> QED
  BY <1>14, <1>17

\* The snapshot a call spawns carries what the queue took from it.
LEMMA SpawnCounts ==
  ASSUME CountInv, NEW p \in Producers, SpawnSnapshot(p)
  PROVE  SnapshotsTrue' /\ CountersAccount'
<1> DEFINE r == [from |-> p, call |-> calls[p], count |-> Len(items[p]),
                 size |-> Len(queue), success |-> success[p]]
<1>1. /\ pc[p] = "len" /\ pc'[p] = "idle"
      /\ \A q \in Producers : q # p => pc'[q] = pc[q] /\ items'[q] = items[q]
      /\ snapshots' = snapshots \cup {r}
      /\ UNCHANGED <<success, calls, stats>> /\ Accepted' = Accepted
  BY DEF SpawnSnapshot, Accepted, CountInv, OrderInv, WQTypeOK
<1>2. /\ r.from = p /\ r.call = calls[p] /\ r.count = Len(items[p])
      /\ r.success = success[p]
  OBVIOUS
<1>3. \A w \in snapshots : w.from \in Producers /\ w.call \in Nat
  BY SizesAssumption DEF CountInv, OrderInv, WQTypeOK, Snapshots
<1>4. calls[p] \in Nat
  BY SizesAssumption DEF CountInv, OrderInv, WQTypeOK
<1> HIDE DEF r
<1>5. \A q, c : CallPositions(Accepted', q, c) = CallPositions(Accepted, q, c)
  BY <1>1 DEF CallPositions
<1>6. \A i \in 1..Len(Accepted) : Accepted[i].from \in Producers
  BY AcceptedType, SeriesFields DEF CountInv, OrderInv
<1>7. ReportedPositions' = ReportedPositions
  <2>1. ASSUME NEW i \in 1..Len(Accepted)
        PROVE  LET s == Accepted[i]
               IN (/\ \A w \in snapshots' : ~(w.from = s.from /\ w.call = s.call)
                   /\ ~(pc'[s.from] # "idle" /\ calls'[s.from] = s.call))
                  <=>
                  (/\ \A w \in snapshots : ~(w.from = s.from /\ w.call = s.call)
                   /\ ~(pc[s.from] # "idle" /\ calls[s.from] = s.call))
    <3> DEFINE s == Accepted[i]
    <3>1. s.from \in Producers
      BY <1>6
    <3> HIDE DEF s
    <3>2. (/\ \A w \in snapshots' : ~(w.from = s.from /\ w.call = s.call)
           /\ ~(pc'[s.from] # "idle" /\ calls'[s.from] = s.call))
          <=>
          (/\ \A w \in snapshots : ~(w.from = s.from /\ w.call = s.call)
           /\ ~(pc[s.from] # "idle" /\ calls[s.from] = s.call))
      <4>1. CASE s.from = p
        BY <1>1, <1>2, <4>1
      <4>2. CASE s.from # p
        BY <1>1, <1>2, <3>1, <4>2
      <4> QED
        BY <4>1, <4>2
    <3> QED
      BY <3>2 DEF s
  <2> QED
    BY <1>1, <2>1 DEF ReportedPositions
<1>8. CountersAccount'
  BY <1>1, <1>7 DEF CountInv, CountersAccount
<1>9. ASSUME NEW w \in snapshots'
      PROVE  /\ w.call <= calls'[w.from]
             /\ pc'[w.from] # "idle" => w.call < calls'[w.from]
             /\ Cardinality(CallPositions(Accepted', w.from, w.call))
                  = IF w.success THEN w.count ELSE 0
  <2>1. CASE w = r
    BY <1>1, <1>2, <1>4, <1>5, <2>1 DEF CountInv, SnapshotsTrue
  <2>2. CASE w \in snapshots
    BY <1>1, <1>3, <1>5, <2>2 DEF CountInv, SnapshotsTrue
  <2> QED
    BY <1>1, <2>1, <2>2
<1>10. ASSUME NEW v \in snapshots', NEW w \in snapshots',
              v.from = w.from, v.call = w.call
       PROVE  v = w
  <2>1. \A u \in snapshots : u.from = p => u.call # calls[p]
    BY <1>1, <1>3, <1>4 DEF CountInv, SnapshotsTrue
  <2> QED
    BY <1>1, <1>2, <1>10, <2>1 DEF CountInv, SnapshotsTrue
<1>11. ASSUME NEW q \in Producers, pc'[q] = "len"
       PROVE  Cardinality(CallPositions(Accepted', q, calls'[q]))
                = IF success'[q] THEN Len(items'[q]) ELSE 0
  BY <1>1, <1>5, <1>11 DEF CountInv, SnapshotsTrue
<1>12. SnapshotsTrue'
  BY <1>9, <1>10, <1>11 DEF SnapshotsTrue
<1> QED
  BY <1>8, <1>12

\* snapshot counts the series of one call, which were not counted before.
LEMMA SnapshotCounts ==
  ASSUME CountInv, NEW s \in snapshots, Snapshot(s)
  PROVE  SnapshotsTrue' /\ CountersAccount'
<1> DEFINE C == CallPositions(Accepted, s.from, s.call)
           R == ReportedPositions
<1>1. /\ snapshots' = snapshots \ {s} /\ Accepted' = Accepted
      /\ UNCHANGED <<pc, items, success, calls>>
  BY DEF Snapshot, Accepted
<1>2. \A q, c : CallPositions(Accepted', q, c) = CallPositions(Accepted, q, c)
  BY <1>1 DEF CallPositions
<1>3. SnapshotsTrue'
  BY <1>1, <1>2 DEF CountInv, SnapshotsTrue
<1>4. s.from \in Producers /\ s.call \in Nat /\ s.count \in Nat /\ calls[s.from] \in Nat
  BY SizesAssumption DEF CountInv, OrderInv, WQTypeOK, Snapshots
<1>5. ~(pc[s.from] # "idle" /\ calls[s.from] = s.call)
  BY <1>4 DEF CountInv, SnapshotsTrue
<1>6. \A w \in snapshots : w.from = s.from /\ w.call = s.call => w = s
  BY DEF CountInv, SnapshotsTrue
<1>7. R' = R \cup C /\ R \cap C = {}
  BY <1>1, <1>5, <1>6 DEF ReportedPositions, CallPositions
<1>8. /\ IsFiniteSet(R) /\ IsFiniteSet(C) /\ Cardinality(R) \in Nat
      /\ Cardinality(C) \in Nat
  <2>1. R \in SUBSET (1..Len(Accepted)) /\ C \in SUBSET (1..Len(Accepted))
    BY DEF ReportedPositions, CallPositions
  <2> QED
    BY <2>1, PositionsFinite DEF CountInv, OrderInv
<1> HIDE DEF R, C
<1>9. Cardinality(R') = Cardinality(R) + Cardinality(C)
  BY <1>7, <1>8, FS_Union, FS_EmptySet
<1>10. Cardinality(C) = IF s.success THEN s.count ELSE 0
  BY DEF CountInv, SnapshotsTrue, C
<1>11. /\ stats'.QueueTotalCount = stats.QueueTotalCount + s.count
       /\ stats'.QueueFailTotal
            = stats.QueueFailTotal + (IF s.success THEN 0 ELSE s.count)
       /\ stats.QueueTotalCount \in Nat /\ stats.QueueFailTotal \in Nat
  BY DEF Snapshot, CountInv, OrderInv, WQTypeOK
<1>12. stats.QueueTotalCount - stats.QueueFailTotal = Cardinality(R)
  BY DEF CountInv, CountersAccount, R
<1>13. stats'.QueueTotalCount - stats'.QueueFailTotal = Cardinality(R')
  BY <1>4, <1>8, <1>9, <1>10, <1>11, <1>12
<1>14. CountersAccount'
  BY <1>13 DEF CountersAccount, R
<1> QED
  BY <1>3, <1>14

\* loopRead neither ends a call nor runs a snapshot.
LEMMA CountStep ==
  ASSUME CountInv, [WQNext]_wqVars
  PROVE  CountInv'
<1>1. OrderInv'
  BY OrderStep DEF CountInv
<1>2. ASSUME NEW p \in Producers, Produce(p)
      PROVE  SnapshotsTrue' /\ CountersAccount'
  BY <1>2, BeginCounts, CheckCounts, PushCounts, SpawnCounts DEF Produce
<1>3. CASE RunSnapshot
  BY <1>1, <1>3, SnapshotCounts DEF RunSnapshot, CountInv
<1>4. CASE LoopRead \/ UNCHANGED wqVars
  <2>1. Accepted' = Accepted
    BY <1>4, LoopReadKeeps DEF CountInv, OrderInv, wqVars, Accepted
  <2>2. UNCHANGED <<pc, items, success, calls, snapshots, stats>>
    BY <1>4 DEF LoopRead, PopBatch, BatchWritten, SleepOnEmpty, wqVars
  <2>3. /\ ReportedPositions' = ReportedPositions
        /\ \A q, c : CallPositions(Accepted', q, c) = CallPositions(Accepted, q, c)
    BY <2>1, <2>2, CallsMoveOn DEF CountInv
  <2>4. SnapshotsTrue'
    BY <2>2, <2>3 DEF CountInv, SnapshotsTrue
  <2>5. CountersAccount'
    BY <2>2, <2>3 DEF CountInv, CountersAccount
  <2> QED
    BY <1>1, <2>4, <2>5 DEF CountInv
<1> QED
  BY <1>1, <1>2, <1>3, <1>4 DEF WQNext, CountInv

\* The counters start at zero, with nothing accepted and no snapshot to run.
LEMMA CountInit == WQInit => CountInv
<1> SUFFICES ASSUME WQInit PROVE CountInv
  OBVIOUS
<1>1. Accepted = <<>> /\ Len(Accepted) = 0 /\ 1..Len(Accepted) = {}
  BY DEF WQInit, Accepted, NewSafeList, NoSeries
<1>2. ReportedPositions = {}
  BY <1>1 DEF ReportedPositions
<1>3. Cardinality(ReportedPositions) = 0
  BY <1>2, FS_EmptySet
<1>4. CountersAccount
  BY <1>3 DEF WQInit, CountersAccount
<1>5. SnapshotsTrue
  BY DEF WQInit, SnapshotsTrue
<1> QED
  BY <1>4, <1>5, OrderInit DEF CountInv

\* However the snapshot goroutines are delayed and reordered, the difference of
\* the two counters is the number of series the queue took from the calls they
\* report.
THEOREM CountersRight == WQSpec => []CountersAccount
<1>1. CountInv /\ [WQNext]_wqVars => CountInv'
  BY CountStep
<1>2. CountInv => CountersAccount
  BY DEF CountInv
<1> QED
  BY <1>1, <1>2, CountInit, PTL DEF WQSpec
-------------------------------------------------------------------------------
(***************************************************************************)
(* The queue implements the abstract pipe.  A push is an Offer, the end of  *)
(* a batch is a Deliver, and every other step leaves the pipe alone.        *)
(***************************************************************************)

\* The pipe is bounded because the queue is and a batch is.
PipeInv == RoomReserved /\ Len(batch) <= BatchSize

PipeBounded == Len(batch \o queue) <= Capacity + BatchSize

\* The bound of the queue and of the batch in hand is inductive.
LEMMA PipeInvStep ==
  ASSUME PipeInv, [WQNext]_wqVars
  PROVE  PipeInv'
<1>1. RoomReserved'
  BY RoomStep DEF PipeInv
<1>2. CASE PopBatch
  <2>1. Len(batch') = PopCount(queue, BatchSize) /\ PopCount(queue, BatchSize) <= BatchSize
    BY <1>2, PopSplits, SizesAssumption DEF PopBatch, PipeInv, RoomReserved, WQTypeOK
  <2> QED
    BY <1>1, <2>1 DEF PipeInv
<1>3. CASE BatchWritten
  <2>1. Len(batch') = 0
    BY <1>3 DEF BatchWritten, NoSeries
  <2> QED
    BY <1>1, <2>1, SizesAssumption DEF PipeInv
<1>4. CASE UNCHANGED batch
  BY <1>1, <1>4 DEF PipeInv
<1> QED
  BY <1>2, <1>3, <1>4
  DEF WQNext, Produce, BeginWriteSamples, CheckLimit, Push, SpawnSnapshot,
      RunSnapshot, Snapshot, LoopRead, SleepOnEmpty, wqVars

\* The queue and the batch in hand start empty.
LEMMA PipeInvInit == WQInit => PipeInv
<1>1. WQInit => Len(batch) = 0
  BY DEF WQInit, NoSeries
<1> QED
  BY <1>1, RoomInit, SizesAssumption DEF PipeInv

\* The length of the pipe stays within its size.
LEMMA PipeLength ==
  ASSUME PipeInv
  PROVE  PipeBounded
<1>1. /\ Cardinality(Pushing) * MaxItems \in Nat
      /\ Cardinality(Producers) * MaxItems \in Nat
  BY PushingFinite, TimesMonotone, SizesAssumption DEF Pushing
<1>2. Len(queue) \in Nat /\ Len(batch) \in Nat
      /\ Len(batch \o queue) = Len(batch) + Len(queue)
  BY DEF PipeInv, RoomReserved, WQTypeOK
<1> QED
  BY <1>1, <1>2, SizesAssumption DEF PipeInv, RoomReserved, Capacity, PipeBounded

\* A prefix and the rest of a concatenation.
LEMMA ConcatSplit ==
  ASSUME NEW S, NEW s \in Seq(S), NEW t \in Seq(S)
  PROVE  /\ Len(s \o t) = Len(s) + Len(t)
         /\ SubSeq(s \o t, 1, Len(s)) = s
         /\ SubSeq(s \o t, Len(s) + 1, Len(s \o t)) = t
<1> DEFINE u == s \o t
           a == SubSeq(u, 1, Len(s))
           b == SubSeq(u, Len(s) + 1, Len(u))
<1>1. /\ u \in Seq(S) /\ Len(u) = Len(s) + Len(t)
      /\ Len(s) \in Nat /\ Len(t) \in Nat
      /\ \A i \in 1..Len(s) : u[i] = s[i]
      /\ \A i \in 1..Len(t) : u[Len(s) + i] = t[i]
  OBVIOUS
<1> HIDE DEF u
<1>2. a \in Seq(S) /\ Len(a) = Len(s) /\ \A i \in 1..Len(s) : a[i] = u[i]
  BY <1>1
<1>3. b \in Seq(S) /\ Len(b) = Len(t) /\ \A i \in 1..Len(t) : b[i] = u[Len(s) + i]
  BY <1>1
<1>4. a = s
  BY <1>1, <1>2, SeqEqual
<1>5. b = t
  BY <1>1, <1>3, SeqEqual
<1> QED
  BY <1>1, <1>4, <1>5 DEF u

\* Every step of the queue is a step of the pipe.
LEMMA PipeStep ==
  ASSUME PipeInv, PipeBounded', [WQNext]_wqVars
  PROVE  [Pipe!PipeNext]_<<batch \o queue, written>>
<1>1. /\ batch \in Seq(Series) /\ queue \in Seq(Series)
      /\ batch \o queue \in Seq(Series)
  BY DEF PipeInv, RoomReserved, WQTypeOK
<1>2. CASE \E p \in Producers : Push(p)
  <2> PICK p \in Producers : Push(p)
    BY <1>2
  <2>1. items[p] \in Seq(Series) /\ batch' = batch /\ queue' = queue \o items[p]
    BY DEF PipeInv, RoomReserved, WQTypeOK, Push, PushFrontN
  <2>2. batch' \o queue' = (batch \o queue) \o items[p]
    BY <1>1, <2>1, SeriesConcat
  <2>3. /\ Len(batch \o queue) <= Len(batch' \o queue')
        /\ SubSeq(batch' \o queue', 1, Len(batch \o queue)) = batch \o queue
    <3> DEFINE s == batch \o queue
               t == items[p]
    <3>1. s \in Seq(Series) /\ t \in Seq(Series)
      BY <1>1, <2>1
    <3> HIDE DEF s, t
    <3>2. Len(s \o t) = Len(s) + Len(t) /\ SubSeq(s \o t, 1, Len(s)) = s
      BY <3>1, ConcatSplit
    <3>3. Len(s) \in Nat /\ Len(t) \in Nat
      BY <3>1
    <3>4. Len(s) <= Len(s \o t)
      BY <3>2, <3>3
    <3> QED
      BY <2>2, <3>2, <3>4 DEF s, t
  <2>4. Len(batch' \o queue') <= Capacity + BatchSize
    BY DEF PipeBounded, Capacity
  <2>5. written' = written
    BY DEF Push
  <2> QED
    BY <2>3, <2>4, <2>5 DEF Pipe!PipeNext, Pipe!Offer
<1>3. CASE PopBatch
  <2>1. batch' \o queue' = queue
    BY <1>1, <1>3, PopSplits, SizesAssumption DEF PopBatch
  <2>2. batch \o queue = queue
    BY <1>1, <1>3, ConcatEmptySeq DEF PopBatch, NoSeries
  <2> QED
    BY <1>3, <2>1, <2>2 DEF PopBatch
<1>4. CASE BatchWritten
  <2> DEFINE n == Len(batch)
  <2>1. n \in 1..BatchSize
    BY <1>1, <1>4, SizesAssumption DEF BatchWritten, NoSeries, PipeInv
  <2>2. /\ n <= Len(batch \o queue)
        /\ SubSeq(batch \o queue, 1, n) = batch
        /\ SubSeq(batch \o queue, n + 1, Len(batch \o queue)) = queue
    BY <1>1, ConcatSplit
  <2>3. batch' \o queue' = queue
    BY <1>1, <1>4, ConcatEmptySeq DEF BatchWritten, NoSeries
  <2>4. written' = written \o batch
    BY <1>4 DEF BatchWritten
  <2> HIDE DEF n
  <2> QED
    BY <2>1, <2>2, <2>3, <2>4 DEF Pipe!PipeNext, Pipe!Deliver
<1>5. CASE UNCHANGED <<batch, queue, written>>
  BY <1>5
<1> QED
  BY <1>2, <1>3, <1>4, <1>5
  DEF WQNext, Produce, BeginWriteSamples, CheckLimit, SpawnSnapshot,
      RunSnapshot, Snapshot, LoopRead, SleepOnEmpty, wqVars

\* The queue, its producers and loopRead behave as the bounded first-in
\* first-out pipe: every step is a step of MetricPipe or leaves it alone.
THEOREM RefinesPipe == WQSpec => ImplementsPipe
<1>1. WQInit => Pipe!PipeInit
  BY DEF WQInit, Pipe!PipeInit, NewSafeList, NoSeries
<1>2. PipeInv /\ [WQNext]_wqVars => PipeInv'
  BY PipeInvStep
<1>3. PipeInv => PipeBounded
  BY PipeLength
<1>4. PipeInv /\ PipeBounded' /\ [WQNext]_wqVars => [Pipe!PipeNext]_Pipe!pipeVars
  BY PipeStep DEF Pipe!pipeVars
<1> QED
  BY <1>1, <1>2, <1>3, <1>4, PipeInvInit, PTL
  DEF WQSpec, ImplementsPipe, Pipe!PipeSpec
===============================================================================
