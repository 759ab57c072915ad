------------------------------ MODULE WriteQueue ------------------------------
(***************************************************************************)
(* The metric queue of internal/writer/writers.go.                          *)
(*                                                                          *)
(* Any number of goroutines (one wait.Until loop per Monitor and the        *)
(* self-metrics loop of pkg/metrics) call Writers.WriteSamples; one         *)
(* goroutine, loopRead, drains the queue in batches.  The queue is a        *)
(* SafeListLimited: its PushFrontN tests the length under the read lock,    *)
(* lets the lock go, and pushes under the write lock, so two steps of two   *)
(* producers can interleave between the test and the push.  Each call ends  *)
(* by spawning a goroutine that adds the call to the counters, and those    *)
(* goroutines run in any order.                                             *)
(*                                                                          *)
(* A time series is known by the call that wrote it and its place in that   *)
(* call; labels and values play no part in the queue.                       *)
(***************************************************************************)
EXTENDS SafeList, FiniteSets

CONSTANTS
  Producers,    \* goroutines that call WriteSamples
  MaxSize,      \* chanSize of NewWriter, the limit of the SafeListLimited
  BatchSize,    \* batch of NewWriter
  MaxItems,     \* bound: samples in one call of WriteSamples
  MaxCalls      \* bound: calls of WriteSamples per producer

ASSUME ProducersAssumption == IsFiniteSet(Producers)
ASSUME SizesAssumption == /\ MaxSize \in Nat \ {0}
                          /\ BatchSize \in Nat \ {0}
                          /\ MaxItems \in Nat
                          /\ MaxCalls \in Nat

VARIABLES
  queue,      \* Writers.queue, from Back to Front
  pc,         \* where each producer is in WriteSamples
  items,      \* items of its current call, after conversion
  success,    \* what PushFrontN returned to its current call
  calls,      \* calls each producer has started
  snapshots,  \* goroutines "go ws.snapshot(...)" that have not run yet
  stats,      \* the queue part of Snapshot
  batch,      \* what loopRead holds: the slice it passes to WriteTimeSeries
  written     \* history: the series of the batches WriteTimeSeries is done with

producerVars == <<pc, items, success, calls>>
wqVars == <<queue, pc, items, success, calls, snapshots, stats, batch, written>>

\* A series: the producer, its call and the position of the sample.
Series == [from : Producers, call : 1..MaxCalls, pos : 1..MaxItems]

\* Where a producer is in WriteSamples: outside, before the length test of
\* PushFrontN, before its push, before queue.Len().
PCs == {"idle", "check", "push", "len"}

Snapshots == [from : Producers, call : 1..MaxCalls, count : 0..MaxItems,
              size : Nat, success : BOOLEAN]

NoSeries == <<>>

WQTypeOK ==
  /\ queue \in Seq(Series)
  /\ pc \in [Producers -> PCs]
  /\ items \in [Producers -> Seq(Series)]
  /\ success \in [Producers -> BOOLEAN]
  /\ calls \in [Producers -> 0..MaxCalls]
  /\ snapshots \subseteq Snapshots
  /\ stats \in [QueueTotalCount : Nat, QueueSize : Nat,
                QueueFailCount : Nat, QueueFailTotal : Nat]
  /\ batch \in Seq(Series)
  /\ written \in Seq(Series)

WQInit ==
  /\ queue = NewSafeList
  /\ pc = [p \in Producers |-> "idle"]
  /\ items = [p \in Producers |-> NoSeries]
  /\ success = [p \in Producers |-> FALSE]
  /\ calls = [p \in Producers |-> 0]
  /\ snapshots = {}
  /\ stats = [QueueTotalCount |-> 0, QueueSize |-> 0,
              QueueFailCount |-> 0, QueueFailTotal |-> 0]
  /\ batch = NoSeries
  /\ written = NoSeries

(***************************************************************************)
(* WriteSamples.                                                            *)
(***************************************************************************)

\* The items of a call: its n convertible samples, in order.  A sample whose
\* value has no float64 form, or that has no label, is skipped.
Convert(p, call, n) == [i \in 1..n |-> [from |-> p, call |-> call, pos |-> i]]

\* A call without samples returns at once and changes nothing: it is no step.
\* n of the samples convert; none may (PushFrontN then gets an empty slice).
BeginWriteSamples(p, n) ==
  /\ pc[p] = "idle"
  /\ calls[p] < MaxCalls
  /\ calls' = [calls EXCEPT ![p] = @ + 1]
  /\ items' = [items EXCEPT ![p] = Convert(p, calls[p] + 1, n)]
  /\ pc' = [pc EXCEPT ![p] = "check"]
  /\ UNCHANGED <<queue, success, snapshots, stats, batch, written>>

\* Mutant: > for >= in the length test.
CheckLimit_OffByOne(p) ==
  /\ pc[p] = "check"
  /\ success' = [success EXCEPT ![p] = FALSE]
  /\ pc' = [pc EXCEPT ![p] = IF Len(queue) > MaxSize THEN "len" ELSE "push"]
  /\ UNCHANGED <<queue, items, calls, snapshots, stats, batch, written>>

\* SafeListLimited.PushFrontN, first half: SL.Len() >= maxSize under RLock.
CheckLimit(p) ==
  /\ pc[p] = "check"
  /\ IF Len(queue) >= MaxSize
       THEN /\ success' = [success EXCEPT ![p] = FALSE]
            /\ pc' = [pc EXCEPT ![p] = "len"]
       ELSE /\ pc' = [pc EXCEPT ![p] = "push"]
            /\ UNCHANGED success
  /\ UNCHANGED <<queue, items, calls, snapshots, stats, batch, written>>

\* Mutant: one PushFront per item, the lock released in between.
Push_OneByOne(p) ==
  /\ pc[p] = "push"
  /\ items[p] # NoSeries
  /\ queue' = PushFront(queue, Head(items[p]))
  /\ items' = [items EXCEPT ![p] = Tail(@)]
  /\ success' = [success EXCEPT ![p] = TRUE]
  /\ pc' = [pc EXCEPT ![p] = IF Len(items[p]) = 1 THEN "len" ELSE "push"]
  /\ UNCHANGED <<calls, snapshots, stats, batch, written>>

\* SafeListLimited.PushFrontN, second half: SL.PushFrontN(vs) under Lock.
Push(p) ==
  /\ pc[p] = "push"
  /\ queue' = PushFrontN(queue, items[p])
  /\ success' = [success EXCEPT ![p] = TRUE]
  /\ pc' = [pc EXCEPT ![p] = "len"]
  /\ UNCHANGED <<items, calls, snapshots, stats, batch, written>>

\* l := queue.Len() and "go ws.snapshot(len(items), l, success, queue)".
SpawnSnapshot(p) ==
  /\ pc[p] = "len"
  /\ snapshots' = snapshots \cup
       {[from |-> p, call |-> calls[p], count |-> Len(items[p]),
         size |-> Len(queue), success |-> success[p]]}
  /\ items' = [items EXCEPT ![p] = NoSeries]
  /\ pc' = [pc EXCEPT ![p] = "idle"]
  /\ UNCHANGED <<queue, success, calls, stats, batch, written>>

\* Mutant: a failed call counts as one failed series.
Snapshot_FailCountsOne(s) ==
  /\ stats' = [QueueTotalCount |-> stats.QueueTotalCount + s.count,
               QueueSize |-> s.size,
               QueueFailCount |->
                 stats.QueueFailCount + (IF s.success THEN 0 ELSE 1),
               QueueFailTotal |->
                 stats.QueueFailTotal + (IF s.success THEN 0 ELSE 1)]
  /\ snapshots' = snapshots \ {s}
  /\ UNCHANGED <<queue, pc, items, success, calls, batch, written>>

\* Writers.snapshot in mode "queue": atomic under the Writers mutex.
Snapshot(s) ==
  /\ stats' = [QueueTotalCount |-> stats.QueueTotalCount + s.count,
               QueueSize |-> s.size,
               QueueFailCount |->
                 stats.QueueFailCount + (IF s.success THEN 0 ELSE 1),
               QueueFailTotal |->
                 stats.QueueFailTotal + (IF s.success THEN 0 ELSE s.count)]
  /\ snapshots' = snapshots \ {s}
  /\ UNCHANGED <<queue, pc, items, success, calls, batch, written>>

(***************************************************************************)
(* loopRead.                                                                *)
(***************************************************************************)

\* PopBackN(batch), the copy into items, the call of WriteTimeSeries.
PopBatch ==
  /\ batch = NoSeries
  /\ queue # NoSeries
  /\ batch' = PopBackN(queue, BatchSize)
  /\ queue' = AfterPopBackN(queue, BatchSize)
  /\ UNCHANGED <<pc, items, success, calls, snapshots, stats, written>>

\* WriteTimeSeries returned: back to the head of the loop.
BatchWritten ==
  /\ batch # NoSeries
  /\ batch' = NoSeries
  /\ written' = written \o batch
  /\ UNCHANGED <<queue, pc, items, success, calls, snapshots, stats>>

\* PopBackN returned nothing: time.Sleep and back to the head of the loop.
SleepOnEmpty ==
  /\ batch = NoSeries
  /\ queue = NoSeries
  /\ UNCHANGED wqVars

-------------------------------------------------------------------------------
Produce(p) ==
  \/ \E n \in 0..MaxItems : BeginWriteSamples(p, n)
  \/ CheckLimit(p)
  \/ Push(p)
  \/ SpawnSnapshot(p)

RunSnapshot == \E s \in snapshots : Snapshot(s)

LoopRead == PopBatch \/ BatchWritten \/ SleepOnEmpty

WQNext ==
  \/ \E p \in Producers : Produce(p)
  \/ RunSnapshot
  \/ LoopRead

\* Goroutines that can run do run; how often a producer calls is its own
\* affair, so starting a call is not fair.
WQFairness ==
  /\ \A p \in Producers : WF_wqVars(CheckLimit(p) \/ Push(p) \/ SpawnSnapshot(p))
  /\ WF_wqVars(RunSnapshot)
  /\ WF_wqVars(LoopRead)

WQSpec == WQInit /\ [][WQNext]_wqVars
WQFairSpec == WQSpec /\ WQFairness
-------------------------------------------------------------------------------
(***************************************************************************)
(* Properties.                                                              *)
(***************************************************************************)

\* Everything the queue ever accepted, oldest first.
Accepted == written \o batch \o queue

\* The length the queue can really reach: every producer may have passed the
\* length test at MaxSize - 1 before the first of them pushes.
Capacity == MaxSize - 1 + Cardinality(Producers) * MaxItems

\* The queue never outgrows its limit by more than one call per producer, in
\* whatever order the length tests and the pushes of PushFrontN interleave.  It
\* does outgrow it: "SafeList with Limited Size" (pkg/types/safe_list.go:103) is
\* true of Capacity and not of MaxSize.
QueueBound == Len(queue) <= Capacity

\* Producers that passed the length test and have not pushed yet.
Pushing == {p \in Producers : pc[p] = "push"}

\* A call under way has a number, and converts at most MaxItems samples.
CallsOpen ==
  \A p \in Producers :
    /\ Len(items[p]) <= MaxItems
    /\ pc[p] # "idle" => calls[p] >= 1

\* The queue together with what the producers between the test and the push of
\* PushFrontN may still add stays within Capacity: the length test reserves
\* room for the pushes that are already on their way.  Inductive.
RoomReserved ==
  /\ WQTypeOK
  /\ CallsOpen
  /\ Len(queue) + Cardinality(Pushing) * MaxItems <= Capacity

\* Order of two series of one producer in the program.
Earlier(s, t) == s.call < t.call \/ (s.call = t.call /\ s.pos < t.pos)

\* Series leave the queue in the order their producer wrote them, and no
\* series is in the queue and the batches twice.
FifoPerProducer ==
  \A i, j \in 1..Len(Accepted) :
    i < j /\ Accepted[i].from = Accepted[j].from
      => Earlier(Accepted[i], Accepted[j])

\* The items of one WriteSamples call stay together: no other producer's
\* series is pushed between two of them.
CallsContiguous ==
  \A i, j \in 1..Len(Accepted) :
    /\ i < j
    /\ Accepted[i].from = Accepted[j].from
    /\ Accepted[i].call = Accepted[j].call
    => Accepted[j].pos - Accepted[i].pos = j - i

\* What keeps both: a call under way still holds its own items, and the queue
\* has series of earlier calls only until that call has pushed.  Inductive with
\* the two and the types.
CallNumbers ==
  /\ \A p \in Producers :
       pc[p] # "idle" => items[p] = Convert(p, calls[p], Len(items[p]))
  /\ \A i \in 1..Len(Accepted) :
       LET p == Accepted[i].from
       IN /\ Accepted[i].call <= calls[p]
          /\ pc[p] \in {"check", "push"} => Accepted[i].call < calls[p]

\* Where the series of one call are in a list of series.
CallPositions(L, p, c) == {i \in 1..Len(L) : L[i].from = p /\ L[i].call = c}

\* The series of the calls whose snapshot goroutine has run.
ReportedPositions ==
  {i \in 1..Len(Accepted) :
     LET s == Accepted[i]
     IN /\ \A w \in snapshots : ~(w.from = s.from /\ w.call = s.call)
        /\ ~(pc[s.from] # "idle" /\ calls[s.from] = s.call)}

\* QueueTotalCount - QueueFailTotal counts exactly the series the queue took
\* from the calls whose snapshot goroutine has run, although those goroutines
\* run in any order, long after the push and among the calls that follow.
CountersAccount ==
  stats.QueueTotalCount - stats.QueueFailTotal = Cardinality(ReportedPositions)

\* What keeps it: a snapshot that is still to run belongs to a call of its own
\* that has returned, and its count, like the items of a call that returned from
\* PushFrontN, is what the queue took from that call.  Inductive with OrderInv.
SnapshotsTrue ==
  /\ \A w \in snapshots :
       /\ w.call <= calls[w.from]
       /\ pc[w.from] # "idle" => w.call < calls[w.from]
       /\ Cardinality(CallPositions(Accepted, w.from, w.call))
            = IF w.success THEN w.count ELSE 0
  /\ \A v, w \in snapshots : v.from = w.from /\ v.call = w.call => v = w
  /\ \A p \in Producers :
       pc[p] = "len" => Cardinality(CallPositions(Accepted, p, calls[p]))
                          = IF success[p] THEN Len(items[p]) ELSE 0

\* The abstract pipe: what a batch in flight and the queue hold together.
Pipe == INSTANCE MetricPipe WITH
          PipeSize <- Capacity + BatchSize,
          pipe <- batch \o queue,
          delivered <- written

\* The queue, its producers and loopRead implement the bounded pipe: pushes
\* enter whole at its end, batches leave from its head, nothing else happens.
ImplementsPipe == Pipe!PipeSpec
===============================================================================
