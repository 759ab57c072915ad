-------------------------------- MODULE Writers --------------------------------
(***************************************************************************)
(* internal/writer as a whole: the queue (WriteQueue) and the map of        *)
(* writers (WriterFanout) in one process.  loopRead joins them: it pops a   *)
(* batch and enters WriteTimeSeries, and returns to the queue only when     *)
(* WriteTimeSeries does.  The Writers mutex is one for both: a "queue"      *)
(* snapshot waits for a Register or DeRegister that holds it.  A crash of   *)
(* the process takes the queue, the batch and every producer with it.       *)
(***************************************************************************)
EXTENDS WriteQueue, WriterFanout, SequencesExt

VARIABLES
  contents,    \* history: the batches popped, in order
  sentTo,      \* history: name -> the series sent under it, in order
  constantly   \* history: names registered since before the first batch

historyVars == <<contents, sentTo, constantly>>
writersVars == <<wqVars, fanVars, historyVars>>

WritersInit ==
  /\ WQInit
  /\ FanInit
  /\ contents = <<>>
  /\ sentTo = [n \in Names |-> <<>>]
  /\ constantly = {}

\* WriteSamples in a producer.
ProducerStep ==
  /\ ~crashed
  /\ \E p \in Producers : Produce(p)
  /\ UNCHANGED <<fanVars, historyVars>>

\* snapshot(..., "queue") in its goroutine, under the mutex.
SnapshotStep ==
  /\ ~crashed /\ LockFree
  /\ RunSnapshot
  /\ UNCHANGED <<fanVars, historyVars>>

\* loopRead: PopBackN, then into WriteTimeSeries.
LoopReadPop ==
  /\ PopBatch
  /\ BeginFanout
  /\ contents' = Append(contents, batch')
  /\ constantly' = IF contents = <<>> THEN Registered ELSE constantly
  /\ UNCHANGED sentTo

\* Mutant: loopRead puts the batch back.
LoopReadReturn_Requeues ==
  /\ EndFanout
  /\ batch # NoSeries
  /\ batch' = NoSeries
  /\ queue' = PushFrontN(queue, batch)
  /\ UNCHANGED <<producerVars, snapshots, stats, written, historyVars>>

\* WriteTimeSeries returns to loopRead.
LoopReadReturn ==
  /\ EndFanout
  /\ BatchWritten
  /\ UNCHANGED historyVars

LoopReadSleep ==
  /\ ~crashed
  /\ SleepOnEmpty
  /\ UNCHANGED <<fanVars, historyVars>>

\* The range and the goroutines of WriteTimeSeries.  A post sends the series of
\* the batch its goroutine was spawned for.
WriteStep ==
  /\ \/ \E n \in Names : RangeNext(n)
     \/ RangeEnd
     \/ \E g \in DOMAIN gos : Goroutine(g)
     \/ RaceDetected
  /\ sentTo' = [n \in Names |->
                  IF posted'[n] = posted[n] THEN sentTo[n]
                  ELSE sentTo[n] \o contents[Last(posted'[n]).batch]]
  /\ UNCHANGED <<wqVars, contents, constantly>>

\* Register and DeRegister of the PrometheusPush reconciler.
ReconcileStep ==
  /\ Reconcile
  /\ constantly' = constantly \cap {n \in Names : writerMap'[n] # NoWriter}
  /\ UNCHANGED <<wqVars, contents, sentTo>>

WritersNext ==
  \/ ProducerStep
  \/ SnapshotStep
  \/ LoopReadPop
  \/ LoopReadReturn
  \/ LoopReadSleep
  \/ WriteStep
  \/ ReconcileStep

WritersFairness ==
  /\ \A p \in Producers :
       WF_writersVars(~crashed /\ (CheckLimit(p) \/ Push(p) \/ SpawnSnapshot(p))
                      /\ UNCHANGED <<fanVars, historyVars>>)
  /\ WF_writersVars(SnapshotStep)
  /\ WF_writersVars(LoopReadPop \/ LoopReadReturn)
  /\ WF_writersVars(WriteStep)
  /\ WF_writersVars(ReconcileStep /\ EndMapWrite)

WritersSpec == WritersInit /\ [][WritersNext]_writersVars
WritersFairSpec == WritersSpec /\ WritersFairness
-------------------------------------------------------------------------------
\* Between two batches, a writer that was registered before the first batch
\* and stayed registered was sent every series the queue accepted and
\* loopRead took, once and in order, but for the batches that could not be
\* marshalled.
ConstantWriterGetsAll ==
  fan = "idle" /\ writes.WriteFailTotal = 0 =>
    \A n \in constantly : sentTo[n] = written

\* With the map of writers added, the queue still behaves as WriteQueue: its
\* theorems and its runs hold for the composition.
QueueRefined == WQSpec

\* Every series the queue accepted reaches every writer that stays registered,
\* unless the process dies or the batch cannot be marshalled.
EndToEnd ==
  \A p \in Producers : \A c \in 1..MaxCalls : \A i \in 1..MaxItems : \A n \in Names :
    LET s == [from |-> p, call |-> c, pos |-> i]
    IN (Contains(queue, s) /\ n \in Registered)
         ~> \/ Contains(sentTo[n], s)
            \/ n \notin Registered
            \/ writes.WriteFailTotal > 0
            \/ crashed
===============================================================================
