----------------------------- MODULE WriterFanout -----------------------------
(***************************************************************************)
(* The write side of internal/writer: Writers.writerMap, the Register and   *)
(* DeRegister calls of the PrometheusPush reconciler, and WriteTimeSeries,  *)
(* which loopRead calls with one batch after the other.                     *)
(*                                                                          *)
(* Register and DeRegister hold the Writers mutex while they change the     *)
(* map.  WriteTimeSeries ranges over the map, and each goroutine it spawns  *)
(* looks its writer up again, without that mutex.  So the map write has a   *)
(* begin and an end here, and the reads of the other side fall before, in   *)
(* between or after it:                                                     *)
(*   - a read during a write is a data race; the runtime either notices it  *)
(*     (fatal error: concurrent map iteration/read and map write) or the    *)
(*     read sees the map as it was;                                         *)
(*   - a lookup after the key was deleted gives the zero Writer, whose nil  *)
(*     Client panics in post.                                               *)
(* Either ends the process: no goroutine recovers.                          *)
(***************************************************************************)
EXTENDS Naturals, Sequences, FiniteSets, FiniteSetsExt

CONSTANTS
  Names,        \* names of PrometheusPush objects: the keys of writerMap
  Options,      \* kinds of WriterOption that occur, a subset of OptionKinds
  MaxBatches,   \* bound: batches loopRead pops
  MaxChanges,   \* bound: Register and DeRegister calls
  NoWriter      \* the value of a key that is not in the map

\* "good"; "badUrl": api.NewClient cannot parse the address; "oddHeaders": the
\* Headers list has odd length, so post reads one element past its end.
OptionKinds == {"good", "badUrl", "oddHeaders"}

ASSUME NamesAssumption == IsFiniteSet(Names)
ASSUME OptionsAssumption == Options \subseteq OptionKinds
ASSUME BoundsAssumption == MaxBatches \in Nat /\ MaxChanges \in Nat

VARIABLES
  writerMap,   \* Writers.writerMap: name -> Writer, or NoWriter
  mapWrite,    \* the map write in progress: a set with at most one record
  changes,     \* Register and DeRegister calls so far
  fan,         \* loopRead in WriteTimeSeries: "idle", "range", "wait"
  batchNo,     \* number of the batch loopRead popped last
  must,        \* keys the range has to yield: there from its start, undeleted
  visited,     \* keys the range has yielded (and that were not deleted since)
  gos,         \* goroutines of WriteTimeSeries, in the order spawned
  writes,      \* WriteTotalCount and WriteFailTotal
  crashed,     \* the process is gone
  posted,      \* history: name -> what was sent under that name, in order
  touched      \* history: the map was written during this WriteTimeSeries

mapVars == <<writerMap, mapWrite, changes>>
rangeVars == <<fan, batchNo, must, visited>>
fanVars == <<writerMap, mapWrite, changes, fan, batchNo, must, visited, gos,
             writes, crashed, posted, touched>>

\* A Writer is known by the Register call that made it ("gen", with its "opt");
\* "during" is the batch in flight at that moment (0: none), a history value.
FanInit ==
  /\ writerMap = [n \in Names |-> NoWriter]
  /\ mapWrite = {}
  /\ changes = 0
  /\ fan = "idle"
  /\ batchNo = 0
  /\ must = {}
  /\ visited = {}
  /\ gos = <<>>
  /\ writes = [WriteTotalCount |-> 0, WriteFailTotal |-> 0]
  /\ crashed = FALSE
  /\ posted = [n \in Names |-> <<>>]
  /\ touched = FALSE

Registered == {n \in Names : writerMap[n] # NoWriter}
LockFree == mapWrite = {}

(***************************************************************************)
(* Register and DeRegister, called by the one PrometheusPush reconciler.    *)
(***************************************************************************)

\* Mutant: the error is ignored and the zero Writer stored.
NewWriterFails_Ignored(opt) == FALSE

\* newWriter: an error leaves the map alone.
NewWriterFails(opt) == opt = "badUrl"

\* Register up to the map write, which the mutex guards.
BeginRegister(n, opt) ==
  /\ ~crashed /\ LockFree /\ changes < MaxChanges
  /\ changes' = changes + 1
  /\ mapWrite' =
       IF NewWriterFails(opt) THEN {}
       ELSE {[name |-> n,
              value |-> [gen |-> changes + 1, opt |-> opt,
                         during |-> IF fan = "idle" THEN 0 ELSE batchNo]]}
  /\ touched' = (touched \/ mapWrite' # {})
  /\ UNCHANGED <<writerMap, rangeVars, gos, writes, crashed, posted>>

\* A name that is not in the map is an error and no write.
BeginDeRegister(n) ==
  /\ ~crashed /\ LockFree /\ changes < MaxChanges
  /\ changes' = changes + 1
  /\ mapWrite' = IF n \in Registered THEN {[name |-> n, value |-> NoWriter]}
                 ELSE {}
  /\ touched' = (touched \/ mapWrite' # {})
  /\ UNCHANGED <<writerMap, rangeVars, gos, writes, crashed, posted>>

\* The write reaches the map and the mutex is released.  A deleted entry is no
\* longer owed to a running range; an entry made during the range is a new
\* one, even under a key that was yielded before.
EndMapWrite ==
  /\ ~crashed
  /\ \E w \in mapWrite :
       /\ writerMap' = [writerMap EXCEPT ![w.name] = w.value]
       /\ must' = IF w.value = NoWriter THEN must \ {w.name} ELSE must
       /\ visited' = IF w.value = NoWriter THEN visited \ {w.name} ELSE visited
  /\ mapWrite' = {}
  /\ UNCHANGED <<changes, fan, batchNo, gos, writes, crashed, posted, touched>>

(***************************************************************************)
(* WriteTimeSeries.                                                         *)
(***************************************************************************)

\* Every goroutine of WriteTimeSeries has called wg.Done().
AllEnded == \A g \in DOMAIN gos : gos[g].st \in {"done", "failed"}

\* loopRead popped a batch; the range over writerMap starts.  The goroutines of
\* the batch before have ended and are forgotten.
BeginFanout ==
  /\ ~crashed /\ fan = "idle" /\ batchNo < MaxBatches
  /\ batchNo' = batchNo + 1
  /\ fan' = "range"
  /\ must' = Registered
  /\ visited' = {}
  /\ gos' = IF AllEnded THEN <<>> ELSE gos
  /\ touched' = ~LockFree
  /\ UNCHANGED <<mapVars, writes, crashed, posted>>

\* Mutant: a key is yielded again.
RangeNext_Again(n) ==
  /\ ~crashed /\ fan = "range"
  /\ n \in Registered
  /\ visited' = visited \cup {n}
  /\ gos' = Append(gos, [key |-> n, batch |-> batchNo, st |-> "run",
                         writer |-> NoWriter])
  /\ UNCHANGED <<mapVars, fan, batchNo, must, writes, crashed, posted, touched>>

\* wg.Add(1) and "go func(key)" for the next key of the range.
RangeNext(n) ==
  /\ ~crashed /\ fan = "range"
  /\ n \in Registered \ visited
  /\ visited' = visited \cup {n}
  /\ gos' = Append(gos, [key |-> n, batch |-> batchNo, st |-> "run",
                             writer |-> NoWriter])
  /\ UNCHANGED <<mapVars, fan, batchNo, must, writes, crashed, posted, touched>>

\* Mutant: the range stops before it has yielded every key.
RangeEnd_Early ==
  /\ ~crashed /\ fan = "range"
  /\ fan' = "wait"
  /\ UNCHANGED <<mapVars, batchNo, must, visited, gos, writes, crashed,
                 posted, touched>>

\* The range is over when it has yielded every key it owes.
RangeEnd ==
  /\ ~crashed /\ fan = "range"
  /\ must \subseteq visited
  /\ fan' = "wait"
  /\ UNCHANGED <<mapVars, batchNo, must, visited, gos, writes, crashed,
                 posted, touched>>

\* A range step or a lookup meets a map write: the runtime may stop the
\* process.
RaceDetected ==
  /\ ~crashed /\ ~LockFree
  /\ fan = "range" \/ \E g \in DOMAIN gos : gos[g].st = "run"
  /\ crashed' = TRUE
  /\ UNCHANGED <<mapVars, rangeVars, gos, writes, posted, touched>>

\* ws.writerMap[key] in the goroutine.
Lookup(g) ==
  /\ ~crashed /\ gos[g].st = "run"
  /\ gos' = [gos EXCEPT ![g].st = "write", ![g].writer = writerMap[gos[g].key]]
  /\ UNCHANGED <<mapVars, rangeVars, writes, crashed, posted, touched>>

\* post panics: nil Client of the zero Writer (newWriter returns one with its
\* error), or Headers[i+1] out of range.
Panics(w) == IF w = NoWriter THEN TRUE ELSE w.opt \in {"badUrl", "oddHeaders"}

\* Writer.Write: proto.Marshal fails and the error is returned ...
MarshalFails(g) ==
  /\ ~crashed /\ gos[g].st = "write"
  /\ gos' = [gos EXCEPT ![g].st = "snaperr"]
  /\ UNCHANGED <<mapVars, rangeVars, writes, crashed, posted, touched>>

\* ... or the batch is posted.  What the endpoint answers is only logged:
\* Write returns nil for a failed post too.
Post(g) ==
  LET w == gos[g].writer IN
  /\ ~crashed /\ gos[g].st = "write"
  /\ IF Panics(w)
       THEN crashed' = TRUE /\ UNCHANGED <<gos, posted>>
       ELSE /\ gos' = [gos EXCEPT ![g].st = "snapok"]
            /\ posted' = [posted EXCEPT ![gos[g].key] =
                            Append(@, [batch |-> gos[g].batch, writer |-> w])]
            /\ UNCHANGED crashed
  /\ UNCHANGED <<mapVars, rangeVars, writes, touched>>

\* Mutant: a failed Write returns without wg.Done().
WriteSnapshot_NoDone(g) ==
  /\ ~crashed /\ LockFree
  /\ gos[g].st = "snapok"
  /\ writes' = [writes EXCEPT !.WriteTotalCount = @ + 1]
  /\ gos' = [gos EXCEPT ![g].st = "done"]
  /\ UNCHANGED <<mapVars, rangeVars, crashed, posted, touched>>

\* ws.snapshot(1, 0, err == nil, "write") under the mutex, then wg.Done().
WriteSnapshot(g) ==
  /\ ~crashed /\ LockFree
  /\ gos[g].st \in {"snapok", "snaperr"}
  /\ writes' = [WriteTotalCount |-> writes.WriteTotalCount + 1,
                WriteFailTotal |->
                  writes.WriteFailTotal + (IF gos[g].st = "snaperr" THEN 1 ELSE 0)]
  /\ gos' = [gos EXCEPT ![g].st = IF @ = "snaperr" THEN "failed" ELSE "done"]
  /\ UNCHANGED <<mapVars, rangeVars, crashed, posted, touched>>

\* Mutant: no wg.Wait().
EndFanout_NoWait ==
  /\ ~crashed /\ fan = "wait"
  /\ fan' = "idle"
  /\ UNCHANGED <<mapVars, batchNo, must, visited, gos, writes, crashed,
                 posted, touched>>

\* wg.Wait() returns, and WriteTimeSeries with it.
EndFanout ==
  /\ ~crashed /\ fan = "wait"
  /\ AllEnded
  /\ fan' = "idle"
  /\ UNCHANGED <<mapVars, batchNo, must, visited, gos, writes, crashed,
                 posted, touched>>

-------------------------------------------------------------------------------
Reconcile ==
  \/ \E n \in Names, opt \in Options : BeginRegister(n, opt)
  \/ \E n \in Names : BeginDeRegister(n)
  \/ EndMapWrite

Goroutine(g) == Lookup(g) \/ MarshalFails(g) \/ Post(g) \/ WriteSnapshot(g)

WriteTimeSeries ==
  \/ \E n \in Names : RangeNext(n)
  \/ RangeEnd
  \/ \E g \in DOMAIN gos : Goroutine(g)
  \/ EndFanout

FanNext == Reconcile \/ BeginFanout \/ WriteTimeSeries \/ RaceDetected

\* Runnable goroutines run, and every post ends: the endpoint answers or the
\* dial or response timeout of the writer is set and expires.
FanFairness == WF_fanVars(WriteTimeSeries) /\ WF_fanVars(EndMapWrite)

FanSpec == FanInit /\ [][FanNext]_fanVars
FanFairSpec == FanSpec /\ FanFairness
-------------------------------------------------------------------------------
(***************************************************************************)
(* Properties.                                                              *)
(***************************************************************************)

\* Batch b went out under name n.
Sent(n, b) == \E i \in DOMAIN posted[n] : posted[n][i].batch = b

\* proto.Marshal refused the current batch for name n.
Refused(n) == \E g \in DOMAIN gos : /\ gos[g].key = n
                                    /\ gos[g].st \in {"snaperr", "failed"}

\* When WriteTimeSeries returns, every writer that was registered before it
\* began and never deregistered since was given the batch, whatever Register
\* and DeRegister did to other names meanwhile.
StableWritersServed ==
  [][fan = "wait" /\ fan' = "idle" =>
       \A n \in must : Sent(n, batchNo) \/ Refused(n)]_fanVars

\* A writer gets the batches in the order loopRead popped them: wg.Wait lets no
\* goroutine of one batch run into the next.
BatchOrder ==
  \A n \in Names : \A i, j \in DOMAIN posted[n] :
    i < j => posted[n][i].batch <= posted[n][j].batch

\* A writer gets a batch twice only if it was registered anew while that very
\* batch was being written (the range may yield a key that was deleted and
\* stored again).
DuplicatesOnlyByReRegister ==
  \A n \in Names : \A i, j \in DOMAIN posted[n] :
    /\ i # j
    /\ posted[n][i].batch = posted[n][j].batch
    => \/ posted[n][i].writer.during = posted[n][i].batch
       \/ posted[n][j].writer.during = posted[n][j].batch

\* The process dies in WriteTimeSeries only if a reconcile wrote the map
\* during it, or a writer with an odd Headers list was registered: a missing
\* or half-made writer is never left in the map.
CrashCause ==
  crashed => \/ touched
             \/ \E n \in Names : /\ writerMap[n] # NoWriter
                                 /\ writerMap[n].opt = "oddHeaders"

\* "WriteTimeSeries write prompb.TimeSeries to all writers"
\* (internal/writer/writers.go:160): a writer that is registered when the range
\* starts gets the batch unless it is deregistered.
WritesToAllWriters ==
  \A n \in Names : \A b \in 1..MaxBatches :
    (fan = "range" /\ batchNo = b /\ n \in must)
      ~> (Sent(n, b) \/ Refused(n) \/ n \notin must)
===============================================================================
