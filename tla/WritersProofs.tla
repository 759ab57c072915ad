----------------------------- MODULE WritersProofs -----------------------------
(***************************************************************************)
(* Proofs about WriterFanout and Writers.                                   *)
(*                                                                          *)
(* The fan-out, for every set of writer names and options and every bound:  *)
(* batches reach a writer in order, twice only after a new Register, the    *)
(* process dies only of the causes CrashCause names, and WriteTimeSeries    *)
(* serves every writer that stays registered.  All of them hold while       *)
(* Register and DeRegister change the map at any moment.                    *)
(*                                                                          *)
(* The queue and the fan-out composed behave each as specified alone, so    *)
(* every theorem about one of them holds for the whole of internal/writer,  *)
(* and a writer that stays registered is sent all of what the queue took.   *)
(***************************************************************************)
EXTENDS Writers, WriteQueueProofs

-------------------------------------------------------------------------------
(***************************************************************************)
(* The inductive invariant of the fan-out.                                  *)
(***************************************************************************)

\* A Writer that newWriter made without an error.
WriterRecs == [gen : Nat, opt : {"good", "oddHeaders"}, during : Nat]
Entries == WriterRecs \cup {NoWriter}

GoStates == {"run", "write", "snapok", "snaperr", "done", "failed"}
Goroutines == [key : Names, batch : Nat, st : GoStates, writer : Entries]
Posts == [batch : Nat, writer : Entries]

FanTypes ==
  /\ writerMap \in [Names -> Entries]
  /\ mapWrite \subseteq [name : Names, value : Entries]
  /\ changes \in Nat
  /\ fan \in {"idle", "range", "wait"}
  /\ batchNo \in Nat
  /\ must \subseteq Names
  /\ visited \subseteq Names
  /\ gos \in Seq(Goroutines)
  /\ crashed \in BOOLEAN
  /\ posted \in [Names -> Seq(Posts)]
  /\ touched \in BOOLEAN

\* A map write during WriteTimeSeries is remembered.
WriteSeen == fan # "idle" /\ mapWrite # {} => touched

\* wg.Wait: outside WriteTimeSeries no goroutine of it runs, and inside only
\* those of the current batch.
OneBatch ==
  /\ fan = "idle" => AllEnded
  /\ \A g \in DOMAIN gos : gos[g].batch = batchNo

\* As long as nobody writes the map, a goroutine finds the writer it was
\* spawned for.
LookedUp ==
  fan # "idle" /\ ~touched =>
    \A g \in DOMAIN gos :
      /\ writerMap[gos[g].key] # NoWriter
      /\ gos[g].st # "run" => gos[g].writer = writerMap[gos[g].key]

\* Nothing was posted of a batch still to come, and what was posted of the
\* current one was posted by a goroutine that is remembered.
PostedBy ==
  \A n \in Names : \A i \in DOMAIN posted[n] :
    /\ posted[n][i].batch <= batchNo
    /\ posted[n][i].writer # NoWriter
    /\ posted[n][i].batch = batchNo =>
         \E g \in DOMAIN gos : /\ gos[g].key = n
                               /\ gos[g].st \in {"snapok", "done"}
                               /\ gos[g].writer = posted[n][i].writer

\* A writer that was registered during the current batch, or none.
Fresh(w) == w = NoWriter \/ w.during = batchNo
FreshEntry(n) == Fresh(writerMap[n]) /\ \A w \in mapWrite : w.name = n => Fresh(w.value)

\* A key that was yielded and may be yielded again was deleted since: whatever
\* is stored under it from now on is fresh.
ReYield ==
  fan # "idle" =>
    \A g \in DOMAIN gos : gos[g].key \notin visited => FreshEntry(gos[g].key)

\* So the second goroutine for a key finds a fresh writer, or none.
Twice ==
  fan # "idle" =>
    \A g, h \in DOMAIN gos :
      g < h /\ gos[g].key = gos[h].key =>
        /\ FreshEntry(gos[g].key)
        /\ gos[h].st # "run" => Fresh(gos[h].writer)

\* What the range yielded has a goroutine; it ends when it owes nothing; a
\* goroutine past its post has sent the batch.
Served ==
  /\ \A n \in visited : \E g \in DOMAIN gos : gos[g].key = n
  /\ fan = "wait" => must \subseteq visited
  /\ \A g \in DOMAIN gos :
       gos[g].st \in {"snapok", "done"} => Sent(gos[g].key, batchNo)

FanInv ==
  /\ FanTypes
  /\ WriteSeen
  /\ OneBatch
  /\ LookedUp
  /\ PostedBy
  /\ ReYield
  /\ Twice
  /\ Served
  /\ BatchOrder
  /\ DuplicatesOnlyByReRegister
  /\ CrashCause

-------------------------------------------------------------------------------
(***************************************************************************)
(* Lemmas about the goroutines and the posts.                               *)
(***************************************************************************)

\* The fields of a goroutine, of a post and of a map write.
LEMMA GoFields ==
  ASSUME FanTypes
  PROVE  /\ DOMAIN gos = 1..Len(gos) /\ Len(gos) \in Nat
         /\ \A g \in DOMAIN gos : /\ gos[g] \in Goroutines
                                  /\ gos[g].key \in Names /\ gos[g].batch \in Nat
                                  /\ gos[g].st \in GoStates /\ gos[g].writer \in Entries
         /\ \A n \in Names :
              /\ DOMAIN posted[n] = 1..Len(posted[n]) /\ Len(posted[n]) \in Nat
              /\ \A i \in DOMAIN posted[n] : /\ posted[n][i].batch \in Nat
                                             /\ posted[n][i].writer \in Entries
<1>1. DOMAIN gos = 1..Len(gos) /\ Len(gos) \in Nat
  BY DEF FanTypes
<1>2. \A g \in DOMAIN gos : gos[g] \in Goroutines
  BY <1>1, ElementOfSeq DEF FanTypes
<1>3. \A n \in Names : posted[n] \in Seq(Posts)
  BY DEF FanTypes
<1>4. \A n \in Names : DOMAIN posted[n] = 1..Len(posted[n]) /\ Len(posted[n]) \in Nat
  BY <1>3
<1>5. \A n \in Names : \A i \in DOMAIN posted[n] : posted[n][i] \in Posts
  BY <1>3, <1>4, ElementOfSeq
<1> QED
  BY <1>1, <1>2, <1>4, <1>5 DEF Goroutines, Posts

\* A goroutine goes from one state to another.
LEMMA GoMoves ==
  ASSUME FanTypes, NEW g \in DOMAIN gos, NEW r \in Goroutines,
         r.key = gos[g].key, r.batch = gos[g].batch, gos' = [gos EXCEPT ![g] = r]
  PROVE  /\ gos' \in Seq(Goroutines)
         /\ DOMAIN gos' = DOMAIN gos
         /\ gos'[g] = r
         /\ \A h \in DOMAIN gos : /\ gos'[h].key = gos[h].key
                                  /\ gos'[h].batch = gos[h].batch
                                  /\ h # g => gos'[h] = gos[h]
<1>1. DOMAIN gos = 1..Len(gos) /\ Len(gos) \in Nat /\ gos \in Seq(Goroutines)
  BY GoFields DEF FanTypes
<1>2. gos' \in Seq(Goroutines) /\ DOMAIN gos' = DOMAIN gos
  BY <1>1
<1> QED
  BY <1>1, <1>2

\* It enters the state s and keeps its writer.
LEMMA GoEnters ==
  ASSUME FanTypes, NEW g \in DOMAIN gos, NEW s \in GoStates,
         gos' = [gos EXCEPT ![g].st = s]
  PROVE  /\ gos' \in Seq(Goroutines)
         /\ DOMAIN gos' = DOMAIN gos
         /\ gos'[g].st = s
         /\ \A h \in DOMAIN gos : /\ gos'[h].key = gos[h].key
                                  /\ gos'[h].batch = gos[h].batch
                                  /\ gos'[h].writer = gos[h].writer
                                  /\ h # g => gos'[h] = gos[h]
<1> DEFINE r == [gos[g] EXCEPT !.st = s]
<1>1. gos[g] \in Goroutines
  BY GoFields
<1>2. /\ r \in Goroutines /\ r.key = gos[g].key /\ r.batch = gos[g].batch
      /\ r.writer = gos[g].writer /\ r.st = s
  BY <1>1 DEF Goroutines
<1>3. gos' = [gos EXCEPT ![g] = r]
  OBVIOUS
<1> HIDE DEF r
<1> QED
  BY <1>2, <1>3, GoMoves

-------------------------------------------------------------------------------
(***************************************************************************)
(* Register and DeRegister.                                                 *)
(***************************************************************************)

\* A map write that begins, or is refused.
LEMMA BeginWriteStep ==
  ASSUME FanInv,
         \/ \E n \in Names, opt \in Options : BeginRegister(n, opt)
         \/ \E n \in Names : BeginDeRegister(n)
  PROVE  FanInv'
<1>1. /\ UNCHANGED <<writerMap, fan, batchNo, must, visited, gos, crashed, posted>>
      /\ ~crashed /\ mapWrite = {} /\ changes' = changes + 1
      /\ touched' = (touched \/ mapWrite' # {})
  BY DEF BeginRegister, BeginDeRegister, rangeVars, LockFree
<1>2. /\ mapWrite' \subseteq [name : Names, value : Entries]
      /\ \A w \in mapWrite' : w.value = NoWriter
                              \/ w.value.during = IF fan = "idle" THEN 0 ELSE batchNo
  <2>1. CASE \E n \in Names : BeginDeRegister(n)
    BY <2>1 DEF BeginDeRegister, Entries
  <2>2. CASE \E n \in Names, opt \in Options : BeginRegister(n, opt)
    <3>1. PICK n \in Names, opt \in Options : BeginRegister(n, opt)
      BY <2>2
    <3> DEFINE v == [gen |-> changes + 1, opt |-> opt,
                     during |-> IF fan = "idle" THEN 0 ELSE batchNo]
    <3>2. mapWrite' = {} \/ (opt # "badUrl" /\ mapWrite' = {[name |-> n, value |-> v]})
      BY <3>1 DEF BeginRegister, NewWriterFails
    <3>3. opt # "badUrl" => v \in WriterRecs
      BY OptionsAssumption DEF OptionKinds, WriterRecs, FanInv, FanTypes
    <3>4. v.during = IF fan = "idle" THEN 0 ELSE batchNo
      OBVIOUS
    <3> HIDE DEF v
    <3> QED
      BY <3>2, <3>3, <3>4 DEF Entries
  <2> QED
    BY <2>1, <2>2
<1>3. FanTypes'
  BY <1>1, <1>2 DEF FanInv, FanTypes
<1>4. WriteSeen' /\ OneBatch' /\ LookedUp' /\ PostedBy' /\ Served'
  <2>1. WriteSeen'
    BY <1>1 DEF WriteSeen
  <2>2. LookedUp'
    BY <1>1 DEF FanInv, LookedUp
  <2>3. OneBatch' /\ PostedBy' /\ Served'
    BY <1>1 DEF FanInv, OneBatch, AllEnded, PostedBy, Served, Sent
  <2> QED
    BY <2>1, <2>2, <2>3
<1>5. fan # "idle" => \A n \in Names : FreshEntry(n) => FreshEntry(n)'
  BY <1>1, <1>2 DEF FreshEntry, Fresh
<1>6. ReYield' /\ Twice'
  <2>1. \A g \in DOMAIN gos : gos[g].key \in Names
    BY GoFields DEF FanInv
  <2> QED
    BY <1>1, <1>5, <2>1 DEF FanInv, ReYield, Twice, Fresh
<1>7. BatchOrder' /\ DuplicatesOnlyByReRegister' /\ CrashCause'
  BY <1>1 DEF FanInv, BatchOrder, DuplicatesOnlyByReRegister, CrashCause
<1> QED
  BY <1>3, <1>4, <1>6, <1>7 DEF FanInv

\* The write reaches the map.
LEMMA EndWriteStep ==
  ASSUME FanInv, EndMapWrite
  PROVE  FanInv'
<1>1. PICK w \in mapWrite :
        /\ writerMap' = [writerMap EXCEPT ![w.name] = w.value]
        /\ must' = IF w.value = NoWriter THEN must \ {w.name} ELSE must
        /\ visited' = IF w.value = NoWriter THEN visited \ {w.name} ELSE visited
  BY DEF EndMapWrite
<1>2. /\ mapWrite' = {} /\ ~crashed
      /\ UNCHANGED <<changes, fan, batchNo, gos, crashed, posted, touched>>
  BY DEF EndMapWrite
<1>3. w.name \in Names /\ w.value \in Entries
  BY DEF FanInv, FanTypes
<1>4. \A n \in Names : writerMap'[n] = IF n = w.name THEN w.value ELSE writerMap[n]
  BY <1>1, <1>3 DEF FanInv, FanTypes
<1>5. FanTypes'
  BY <1>1, <1>2, <1>3 DEF FanInv, FanTypes
<1>6. fan # "idle" => touched
  BY DEF FanInv, WriteSeen
<1>7. WriteSeen' /\ OneBatch' /\ LookedUp' /\ PostedBy'
  BY <1>2, <1>6 DEF FanInv, WriteSeen, OneBatch, AllEnded, LookedUp, PostedBy
<1>8. Served'
  BY <1>1, <1>2 DEF FanInv, Served, Sent
<1>9. \A n \in Names : FreshEntry(n) => FreshEntry(n)'
  BY <1>2, <1>4 DEF FreshEntry, Fresh
<1>10. \A g \in DOMAIN gos : gos[g].key \in Names
  BY GoFields DEF FanInv
<1>11. Twice'
  BY <1>2, <1>9, <1>10 DEF FanInv, Twice, Fresh
<1>12. ReYield'
  <2> SUFFICES ASSUME fan # "idle", NEW g \in DOMAIN gos, gos[g].key \notin visited'
               PROVE  FreshEntry(gos[g].key)'
    BY <1>2 DEF ReYield
  <2>1. CASE gos[g].key \notin visited
    BY <1>2, <1>9, <1>10, <2>1 DEF FanInv, ReYield
  <2>2. CASE gos[g].key \in visited
    <3>1. gos[g].key = w.name /\ w.value = NoWriter
      BY <1>1, <2>2
    <3> QED
      BY <1>2, <1>3, <1>4, <3>1 DEF FreshEntry, Fresh
  <2> QED
    BY <2>1, <2>2
<1>13. BatchOrder' /\ DuplicatesOnlyByReRegister' /\ CrashCause'
  BY <1>2 DEF FanInv, BatchOrder, DuplicatesOnlyByReRegister, CrashCause
<1> QED
  BY <1>5, <1>7, <1>8, <1>11, <1>12, <1>13 DEF FanInv

-------------------------------------------------------------------------------
(***************************************************************************)
(* WriteTimeSeries.                                                         *)
(***************************************************************************)

\* A batch begins with no goroutine.
LEMMA BeginFanoutStep ==
  ASSUME FanInv, BeginFanout
  PROVE  FanInv'
<1>1. /\ fan = "idle" /\ ~crashed /\ fan' = "range" /\ batchNo' = batchNo + 1
      /\ must' = Registered /\ visited' = {} /\ touched' = (mapWrite # {})
      /\ UNCHANGED <<writerMap, mapWrite, changes, crashed, posted>>
  BY DEF BeginFanout, mapVars, LockFree
<1>2. gos' = <<>>
  BY DEF BeginFanout, FanInv, OneBatch
<1>3. DOMAIN gos' = {}
  BY <1>2
<1>4. FanTypes'
  BY <1>1, <1>2 DEF FanInv, FanTypes, Registered
<1>5. OneBatch' /\ LookedUp' /\ ReYield' /\ Twice' /\ Served'
  BY <1>1, <1>3 DEF OneBatch, LookedUp, ReYield, Twice, Served
<1>6. WriteSeen'
  BY <1>1 DEF WriteSeen
<1>7. PostedBy'
  <2>1. \A n \in Names : \A i \in DOMAIN posted[n] :
          posted[n][i].batch \in Nat /\ batchNo \in Nat
    BY GoFields DEF FanInv, FanTypes
  <2> QED
    BY <1>1, <2>1 DEF FanInv, PostedBy
<1>8. BatchOrder' /\ DuplicatesOnlyByReRegister' /\ CrashCause'
  BY <1>1 DEF FanInv, BatchOrder, DuplicatesOnlyByReRegister, CrashCause
<1> QED
  BY <1>4, <1>5, <1>6, <1>7, <1>8 DEF FanInv

\* The range yields a key: a goroutine more.
LEMMA RangeNextStep ==
  ASSUME FanInv, NEW n \in Names, RangeNext(n)
  PROVE  FanInv'
<1> DEFINE new == [key |-> n, batch |-> batchNo, st |-> "run", writer |-> NoWriter]
           last == Len(gos) + 1
<1>1. /\ ~crashed /\ fan = "range" /\ writerMap[n] # NoWriter /\ n \notin visited
      /\ visited' = visited \cup {n} /\ gos' = Append(gos, new)
      /\ UNCHANGED <<writerMap, mapWrite, changes, fan, batchNo, must, crashed,
                     posted, touched>>
  BY DEF RangeNext, mapVars, Registered
<1>2. new \in Goroutines
  BY DEF FanInv, FanTypes, Goroutines, GoStates, Entries
<1>3. new.key = n /\ new.batch = batchNo /\ new.st = "run"
  OBVIOUS
<1> HIDE DEF new
<1>4. /\ gos' \in Seq(Goroutines) /\ last \in Nat
      /\ DOMAIN gos = 1..(last - 1) /\ DOMAIN gos' = 1..last
      /\ gos'[last] = new
      /\ \A g \in DOMAIN gos : gos'[g] = gos[g]
  BY <1>1, <1>2 DEF FanInv, FanTypes
<1>5. DOMAIN gos' = DOMAIN gos \cup {last} /\ \A g \in DOMAIN gos : g < last
  BY <1>4
<1>6. \A g \in DOMAIN gos : gos[g].key \in Names
  BY GoFields DEF FanInv
<1>7. FanTypes'
  BY <1>1, <1>4 DEF FanInv, FanTypes
<1>8. WriteSeen' /\ OneBatch' /\ LookedUp' /\ Served'
  <2>1. WriteSeen'
    BY <1>1 DEF FanInv, WriteSeen
  <2>2. OneBatch'
    BY <1>1, <1>3, <1>4, <1>5 DEF FanInv, OneBatch
  <2>3. LookedUp'
    BY <1>1, <1>3, <1>4, <1>5 DEF FanInv, LookedUp
  <2>4. Served'
    <3>1. \A b \in visited' : \E g \in DOMAIN gos' : gos'[g].key = b
      BY <1>1, <1>3, <1>4, <1>5 DEF FanInv, Served
    <3>2. \A g \in DOMAIN gos' :
            gos'[g].st \in {"snapok", "done"} => Sent(gos'[g].key, batchNo)
      BY <1>3, <1>4, <1>5 DEF FanInv, Served
    <3> QED
      BY <1>1, <3>1, <3>2 DEF FanInv, Served, Sent
  <2> QED
    BY <2>1, <2>2, <2>3, <2>4
<1>9. PostedBy'
  BY <1>1, <1>4, <1>5 DEF FanInv, PostedBy
<1>10. \A m \in Names : FreshEntry(m)' = FreshEntry(m)
  BY <1>1 DEF FreshEntry, Fresh
<1>11. ReYield'
  <2> SUFFICES ASSUME NEW g \in DOMAIN gos', gos'[g].key \notin visited'
               PROVE  FreshEntry(gos[g].key)'
    BY <1>1 DEF ReYield
  <2>1. g \in DOMAIN gos
    BY <1>1, <1>3, <1>4, <1>5
  <2>2. FreshEntry(gos[g].key)
    BY <1>1, <1>4, <2>1 DEF FanInv, ReYield
  <2> QED
    BY <1>4, <1>6, <1>10, <2>1, <2>2
<1>12. Twice'
  <2> SUFFICES ASSUME NEW g \in DOMAIN gos', NEW h \in DOMAIN gos',
                      g < h, gos'[g].key = gos'[h].key
               PROVE  /\ FreshEntry(gos[g].key)'
                      /\ gos'[h].st # "run" => Fresh(gos[h].writer)'
    BY <1>1 DEF Twice
  <2>1. g \in DOMAIN gos /\ gos'[g] = gos[g] /\ gos[g].key \in Names
    BY <1>4, <1>5, <1>6
  <2>2. CASE h = last
    <3>1. gos[g].key = n /\ gos'[h].st = "run"
      BY <1>3, <1>4, <2>1, <2>2
    <3>2. FreshEntry(n)
      BY <1>1, <2>1, <3>1 DEF FanInv, ReYield
    <3> QED
      BY <1>10, <2>1, <3>1, <3>2
  <2>3. CASE h # last
    <3>1. h \in DOMAIN gos /\ gos'[h] = gos[h]
      BY <1>4, <1>5, <2>3
    <3>2. /\ FreshEntry(gos[g].key)
          /\ gos[h].st # "run" => Fresh(gos[h].writer)
      BY <1>1, <2>1, <3>1 DEF FanInv, Twice
    <3> QED
      BY <1>1, <1>10, <2>1, <3>1, <3>2 DEF Fresh
  <2> QED
    BY <2>2, <2>3
<1>13. BatchOrder' /\ DuplicatesOnlyByReRegister' /\ CrashCause'
  BY <1>1 DEF FanInv, BatchOrder, DuplicatesOnlyByReRegister, CrashCause
<1> QED
  BY <1>7, <1>8, <1>9, <1>11, <1>12, <1>13 DEF FanInv

\* The range ends, wg.Wait returns, or the runtime notices a race.
LEMMA ControlStep ==
  ASSUME FanInv, RangeEnd \/ EndFanout \/ RaceDetected
  PROVE  FanInv'
<1>1. /\ UNCHANGED <<writerMap, mapWrite, changes, batchNo, must, visited, gos,
                     posted, touched>>
      /\ ~crashed
  BY DEF RangeEnd, EndFanout, RaceDetected, mapVars, rangeVars
<1>2. \/ fan = "range" /\ fan' = "wait" /\ must \subseteq visited /\ crashed' = crashed
      \/ fan = "wait" /\ fan' = "idle" /\ AllEnded /\ crashed' = crashed
      \/ fan' = fan /\ fan # "idle" /\ mapWrite # {} /\ crashed' = TRUE
  <2>1. CASE RaceDetected
    <3>1. fan = "range" \/ ~AllEnded
      BY <2>1 DEF RaceDetected, AllEnded
    <3> QED
      BY <2>1, <3>1 DEF RaceDetected, rangeVars, LockFree, FanInv, OneBatch
  <2> QED
    BY <2>1 DEF RangeEnd, EndFanout
<1>3. FanTypes'
  BY <1>1, <1>2 DEF FanInv, FanTypes
<1>4. WriteSeen' /\ LookedUp'
  BY <1>1, <1>2 DEF FanInv, WriteSeen, LookedUp
<1>5. OneBatch' /\ PostedBy' /\ Served'
  BY <1>1, <1>2 DEF FanInv, OneBatch, AllEnded, PostedBy, Served, Sent
<1>6. ReYield' /\ Twice'
  BY <1>1, <1>2 DEF FanInv, ReYield, Twice, FreshEntry, Fresh
<1>7. BatchOrder' /\ DuplicatesOnlyByReRegister'
  BY <1>1 DEF FanInv, BatchOrder, DuplicatesOnlyByReRegister
<1>8. CrashCause'
  BY <1>1, <1>2 DEF FanInv, WriteSeen, CrashCause
<1> QED
  BY <1>3, <1>4, <1>5, <1>6, <1>7, <1>8 DEF FanInv

\* A goroutine moves, finding a writer or not, without sending anything.
LEMMA QuietGoStep ==
  ASSUME FanInv, NEW g \in DOMAIN gos, NEW r \in Goroutines,
         ~crashed,
         r.key = gos[g].key, r.batch = gos[g].batch,
         gos' = [gos EXCEPT ![g] = r],
         gos[g].st \notin {"done", "failed"},
         gos[g].st # "run" => r.writer = gos[g].writer,
         gos[g].st = "run" => r.writer = writerMap[gos[g].key],
         r.st # "run",
         r.st \in {"snapok", "done"} <=> gos[g].st \in {"snapok", "done"},
         UNCHANGED <<mapVars, rangeVars, crashed, posted, touched>>
  PROVE  FanInv'
<1>1. /\ gos' \in Seq(Goroutines) /\ DOMAIN gos' = DOMAIN gos /\ gos'[g] = r
      /\ \A h \in DOMAIN gos : /\ gos'[h].key = gos[h].key
                               /\ gos'[h].batch = gos[h].batch
                               /\ h # g => gos'[h] = gos[h]
  BY GoMoves DEF FanInv
<1>2. /\ UNCHANGED <<writerMap, mapWrite, changes, fan, batchNo, must, visited,
                     crashed, posted, touched>>
      /\ fan # "idle"
  BY DEF mapVars, rangeVars, FanInv, OneBatch, AllEnded
<1>3. \A h \in DOMAIN gos : gos[h].key \in Names
  BY GoFields DEF FanInv
<1>4. FanTypes'
  BY <1>1, <1>2 DEF FanInv, FanTypes
<1>5. WriteSeen' /\ OneBatch'
  BY <1>1, <1>2 DEF FanInv, WriteSeen, OneBatch
<1>6. LookedUp'
  BY <1>1, <1>2 DEF FanInv, LookedUp
<1>7. PostedBy'
  BY <1>1, <1>2 DEF FanInv, PostedBy
<1>8. Served'
  BY <1>1, <1>2 DEF FanInv, Served, Sent
<1>9. ReYield'
  BY <1>1, <1>2 DEF FanInv, ReYield, FreshEntry, Fresh
<1>10. Twice'
  <2> SUFFICES ASSUME NEW f \in DOMAIN gos, NEW h \in DOMAIN gos,
                      f < h, gos[f].key = gos[h].key
               PROVE  /\ FreshEntry(gos[f].key)'
                      /\ gos'[h].st # "run" => Fresh(gos[h].writer)'
    BY <1>1, <1>2 DEF Twice
  <2>1. /\ FreshEntry(gos[f].key)
        /\ gos[h].st # "run" => Fresh(gos[h].writer)
    BY <1>2 DEF FanInv, Twice
  <2>2. FreshEntry(gos[f].key)'
    BY <1>1, <1>2, <2>1 DEF FreshEntry, Fresh
  <2>3. gos'[h].st # "run" => Fresh(gos[h].writer)'
    <3>1. CASE h = g /\ gos[h].st = "run"
      BY <1>1, <1>2, <2>1, <3>1 DEF FreshEntry, Fresh
    <3>2. CASE ~(h = g /\ gos[h].st = "run")
      BY <1>1, <1>2, <2>1, <3>2 DEF Fresh
    <3> QED
      BY <3>1, <3>2
  <2> QED
    BY <2>2, <2>3
<1>11. BatchOrder' /\ DuplicatesOnlyByReRegister' /\ CrashCause'
  BY <1>2 DEF FanInv, BatchOrder, DuplicatesOnlyByReRegister, CrashCause
<1> QED
  BY <1>4, <1>5, <1>6, <1>7, <1>8, <1>9, <1>10, <1>11 DEF FanInv

\* ws.writerMap[key], a failed Marshal and the snapshot are such moves.
LEMMA QuietGo ==
  ASSUME FanInv, NEW g \in DOMAIN gos, Lookup(g) \/ MarshalFails(g) \/ WriteSnapshot(g)
  PROVE  FanInv'
<1>1. gos[g] \in Goroutines /\ gos[g].key \in Names /\ writerMap[gos[g].key] \in Entries
  BY GoFields DEF FanInv, FanTypes
<1>2. CASE Lookup(g)
  <2> DEFINE r == [[gos[g] EXCEPT !.st = "write"] EXCEPT !.writer = writerMap[gos[g].key]]
  <2>1. /\ gos' = [gos EXCEPT ![g].st = "write", ![g].writer = writerMap[gos[g].key]]
        /\ gos[g].st = "run" /\ ~crashed
        /\ UNCHANGED <<mapVars, rangeVars, crashed, posted, touched>>
    BY <1>2 DEF Lookup
  <2>2. gos' = [gos EXCEPT ![g] = r]
    BY <2>1
  <2>3. /\ r \in Goroutines /\ r.key = gos[g].key /\ r.batch = gos[g].batch
        /\ r.writer = writerMap[gos[g].key] /\ r.st = "write"
    BY <1>1 DEF Goroutines, GoStates
  <2> HIDE DEF r
  <2> QED
    BY <2>1, <2>2, <2>3, QuietGoStep
<1>3. ASSUME NEW s \in {"snaperr", "done", "failed"},
             gos' = [gos EXCEPT ![g].st = s], ~crashed,
             gos[g].st \in {"write", "snapok", "snaperr"},
             s = "done" <=> gos[g].st = "snapok",
             UNCHANGED <<mapVars, rangeVars, crashed, posted, touched>>
      PROVE  FanInv'
  <2> DEFINE r == [gos[g] EXCEPT !.st = s]
  <2>1. gos' = [gos EXCEPT ![g] = r]
    BY <1>3
  <2>2. /\ r \in Goroutines /\ r.key = gos[g].key /\ r.batch = gos[g].batch
        /\ r.writer = gos[g].writer /\ r.st = s
    BY <1>1 DEF Goroutines, GoStates
  <2> HIDE DEF r
  <2> QED
    BY <1>3, <2>1, <2>2, QuietGoStep
<1>4. CASE MarshalFails(g)
  BY <1>3, <1>4 DEF MarshalFails
<1>5. CASE WriteSnapshot(g)
  <2> DEFINE s == IF gos[g].st = "snaperr" THEN "failed" ELSE "done"
  <2>1. /\ gos' = [gos EXCEPT ![g].st = s] /\ gos[g].st \in {"snapok", "snaperr"}
        /\ ~crashed /\ UNCHANGED <<mapVars, rangeVars, crashed, posted, touched>>
    BY <1>5 DEF WriteSnapshot
  <2> QED
    BY <1>3, <2>1
<1> QED
  BY <1>2, <1>4, <1>5

\* post panics: the goroutine found no writer, which takes a map write, or a
\* registered writer with an odd Headers list.
LEMMA PostPanics ==
  ASSUME FanInv, NEW g \in DOMAIN gos, Post(g), Panics(gos[g].writer)
  PROVE  FanInv'
<1>1. /\ UNCHANGED <<writerMap, mapWrite, changes, fan, batchNo, must, visited, gos,
                     posted, touched>>
      /\ gos[g].st = "write" /\ crashed' = TRUE
  BY DEF Post, mapVars, rangeVars
<1>2. fan # "idle"
  BY <1>1 DEF FanInv, OneBatch, AllEnded
<1>3. CrashCause'
  <2>1. gos[g].key \in Names
    BY GoFields DEF FanInv
  <2>2. writerMap[gos[g].key] \in Entries
    BY <2>1 DEF FanInv, FanTypes
  <2>3. ASSUME ~touched
        PROVE  /\ writerMap[gos[g].key] # NoWriter
               /\ writerMap[gos[g].key].opt = "oddHeaders"
    <3>1. gos[g].writer = writerMap[gos[g].key] /\ writerMap[gos[g].key] # NoWriter
      BY <1>1, <1>2, <2>3 DEF FanInv, LookedUp
    <3>2. writerMap[gos[g].key].opt \in {"badUrl", "oddHeaders"}
      BY <3>1 DEF Panics
    <3>3. writerMap[gos[g].key].opt \in {"good", "oddHeaders"}
      BY <2>2, <3>1 DEF Entries, WriterRecs
    <3> QED
      BY <3>1, <3>2, <3>3
  <2> QED
    BY <1>1, <2>1, <2>3 DEF CrashCause
<1>4. FanTypes'
  BY <1>1 DEF FanInv, FanTypes
<1>5. WriteSeen' /\ LookedUp' /\ OneBatch' /\ PostedBy' /\ Served'
  BY <1>1 DEF FanInv, WriteSeen, LookedUp, OneBatch, AllEnded, PostedBy, Served, Sent
<1>6. ReYield' /\ Twice'
  BY <1>1 DEF FanInv, ReYield, Twice, FreshEntry, Fresh
<1>7. BatchOrder' /\ DuplicatesOnlyByReRegister'
  BY <1>1 DEF FanInv, BatchOrder, DuplicatesOnlyByReRegister
<1> QED
  BY <1>3, <1>4, <1>5, <1>6, <1>7 DEF FanInv

\* The batch is posted: it is the newest the writer got, and if the writer got
\* it before, one of the two goroutines found a fresh writer.
LEMMA PostSends ==
  ASSUME FanInv, NEW g \in DOMAIN gos, Post(g), ~Panics(gos[g].writer)
  PROVE  FanInv'
<1> DEFINE k == gos[g].key
           new == [batch |-> gos[g].batch, writer |-> gos[g].writer]
           last == Len(posted[k]) + 1
<1>1. /\ UNCHANGED <<writerMap, mapWrite, changes, fan, batchNo, must, visited,
                     crashed, touched>>
      /\ gos[g].st = "write" /\ ~crashed
      /\ gos' = [gos EXCEPT ![g].st = "snapok"]
      /\ posted' = [posted EXCEPT ![k] = Append(posted[k], new)]
  BY DEF Post, mapVars, rangeVars
<1>2. /\ gos' \in Seq(Goroutines) /\ DOMAIN gos' = DOMAIN gos /\ gos'[g].st = "snapok"
      /\ \A h \in DOMAIN gos : /\ gos'[h].key = gos[h].key
                               /\ gos'[h].batch = gos[h].batch
                               /\ gos'[h].writer = gos[h].writer
                               /\ h # g => gos'[h] = gos[h]
  BY <1>1, GoEnters DEF FanInv, GoStates
<1>3. fan # "idle"
  BY <1>1 DEF FanInv, OneBatch, AllEnded
<1>4. /\ k \in Names /\ gos[g].batch = batchNo /\ batchNo \in Nat
      /\ gos[g].writer \in Entries /\ gos[g].writer # NoWriter
      /\ \A h \in DOMAIN gos : gos[h].key \in Names
  BY GoFields DEF FanInv, FanTypes, OneBatch, Panics
<1>5. /\ new \in Posts /\ new.batch = batchNo /\ new.writer = gos[g].writer
  BY <1>4 DEF Posts
<1> HIDE DEF new
<1>6. posted[k] \in Seq(Posts) /\ last \in Nat /\ DOMAIN posted[k] = 1..(last - 1)
  BY <1>4, GoFields DEF FanInv, FanTypes
<1>7. /\ posted'[k] \in Seq(Posts)
      /\ DOMAIN posted'[k] = 1..last
      /\ posted'[k][last] = new
      /\ \A i \in DOMAIN posted[k] : posted'[k][i] = posted[k][i]
  <2>1. posted'[k] = Append(posted[k], new)
    BY <1>1, <1>4 DEF FanInv, FanTypes
  <2> QED
    BY <1>5, <1>6, <2>1
<1>8. DOMAIN posted'[k] = DOMAIN posted[k] \cup {last} /\ last \notin DOMAIN posted[k]
  BY <1>6, <1>7
<1>9. \A n \in Names \ {k} : posted'[n] = posted[n]
  BY <1>1 DEF FanInv, FanTypes
<1>10. posted' \in [Names -> Seq(Posts)]
  BY <1>1, <1>4, <1>5, <1>6 DEF FanInv, FanTypes
<1>11. FanTypes'
  BY <1>1, <1>2, <1>10 DEF FanInv, FanTypes
<1> HIDE DEF k, last
<1>12. WriteSeen' /\ OneBatch'
  BY <1>1, <1>2, <1>3 DEF FanInv, WriteSeen, OneBatch
<1>13. LookedUp'
  BY <1>1, <1>2 DEF FanInv, LookedUp
<1>14. Served'
  <2>1. ASSUME NEW n \in Names, NEW b, Sent(n, b)
        PROVE  \E i \in DOMAIN posted'[n] : posted'[n][i].batch = b
    BY <1>7, <1>8, <1>9, <2>1 DEF Sent
  <2>2. \E i \in DOMAIN posted'[k] : posted'[k][i].batch = batchNo
    BY <1>5, <1>7, <1>8
  <2>3. ASSUME NEW h \in DOMAIN gos, gos'[h].st \in {"snapok", "done"}
        PROVE  \E i \in DOMAIN posted'[gos[h].key] :
                 posted'[gos[h].key][i].batch = batchNo
    <3>1. CASE h = g
      BY <2>2, <3>1 DEF k
    <3>2. CASE h # g
      <4>1. Sent(gos[h].key, batchNo)
        BY <1>2, <2>3, <3>2 DEF FanInv, Served
      <4> QED
        BY <1>4, <2>1, <4>1
    <3> QED
      BY <3>1, <3>2
  <2> QED
    BY <1>1, <1>2, <2>3 DEF FanInv, Served, Sent
<1>15. ReYield' /\ Twice'
  BY <1>1, <1>2 DEF FanInv, ReYield, Twice, FreshEntry, Fresh
<1>16. PostedBy'
  <2> SUFFICES ASSUME NEW n \in Names, NEW i \in DOMAIN posted'[n]
               PROVE  /\ posted'[n][i].batch <= batchNo
                      /\ posted'[n][i].writer # NoWriter
                      /\ posted'[n][i].batch = batchNo =>
                           \E h \in DOMAIN gos' : /\ gos'[h].key = n
                                                  /\ gos'[h].st \in {"snapok", "done"}
                                                  /\ gos'[h].writer = posted'[n][i].writer
    BY <1>1 DEF PostedBy
  <2>1. CASE n = k /\ i = last
    BY <1>2, <1>4, <1>5, <1>7, <2>1 DEF k
  <2>2. CASE ~(n = k /\ i = last)
    <3>1. i \in DOMAIN posted[n] /\ posted'[n][i] = posted[n][i]
      BY <1>7, <1>8, <1>9, <2>2
    <3>2. \A h \in DOMAIN gos : gos[h].st \in {"snapok", "done"} => h # g
      BY <1>1
    <3> QED
      BY <1>2, <3>1, <3>2 DEF FanInv, PostedBy
  <2> QED
    BY <2>1, <2>2
<1>17. BatchOrder'
  <2> SUFFICES ASSUME NEW n \in Names, NEW i \in DOMAIN posted'[n],
                      NEW j \in DOMAIN posted'[n], i < j
               PROVE  posted'[n][i].batch <= posted'[n][j].batch
    BY DEF BatchOrder
  <2>1. CASE n = k /\ j = last
    <3>1. i \in DOMAIN posted[k]
      BY <1>6, <1>8, <2>1 DEF last
    <3> QED
      BY <1>4, <1>5, <1>7, <2>1, <3>1 DEF FanInv, PostedBy
  <2>2. CASE ~(n = k /\ j = last)
    <3>1. i \in DOMAIN posted[n] /\ j \in DOMAIN posted[n]
      BY <1>6, <1>7, <1>8, <1>9, <2>2 DEF last
    <3> QED
      BY <1>7, <1>9, <3>1 DEF FanInv, BatchOrder
  <2> QED
    BY <2>1, <2>2
<1>18. ASSUME NEW i \in DOMAIN posted[k], posted[k][i].batch = batchNo
       PROVE  posted[k][i].writer.during = batchNo \/ gos[g].writer.during = batchNo
  <2>1. PICK h \in DOMAIN gos : /\ gos[h].key = k
                                /\ gos[h].st \in {"snapok", "done"}
                                /\ gos[h].writer = posted[k][i].writer
    BY <1>4, <1>18 DEF FanInv, PostedBy
  <2>2. posted[k][i].writer # NoWriter
    BY <1>4 DEF FanInv, PostedBy
  <2>3. h # g /\ gos[h].key = gos[g].key
    BY <1>1, <2>1 DEF k
  <2>4. g < h \/ h < g
    BY <2>3, GoFields DEF FanInv
  <2>5. g < h => Fresh(gos[h].writer)
    BY <1>3, <2>1, <2>3 DEF FanInv, Twice
  <2>6. h < g => Fresh(gos[g].writer)
    BY <1>1, <1>3, <2>3 DEF FanInv, Twice
  <2> QED
    BY <1>4, <2>1, <2>2, <2>4, <2>5, <2>6 DEF Fresh
<1>19. DuplicatesOnlyByReRegister'
  <2> SUFFICES ASSUME NEW n \in Names, NEW i \in DOMAIN posted'[n],
                      NEW j \in DOMAIN posted'[n],
                      i # j, posted'[n][i].batch = posted'[n][j].batch
               PROVE  \/ posted'[n][i].writer.during = posted'[n][i].batch
                      \/ posted'[n][j].writer.during = posted'[n][j].batch
    BY DEF DuplicatesOnlyByReRegister
  <2>1. CASE n = k /\ i = last
    BY <1>5, <1>7, <1>8, <1>18, <2>1
  <2>2. CASE n = k /\ j = last
    BY <1>5, <1>7, <1>8, <1>18, <2>2
  <2>3. CASE n # k \/ (i # last /\ j # last)
    <3>1. i \in DOMAIN posted[n] /\ j \in DOMAIN posted[n]
      BY <1>8, <1>9, <2>3
    <3> QED
      BY <1>7, <1>9, <3>1 DEF FanInv, DuplicatesOnlyByReRegister
  <2> QED
    BY <2>1, <2>2, <2>3
<1>20. CrashCause'
  BY <1>1 DEF CrashCause
<1> QED
  BY <1>11, <1>12, <1>13, <1>14, <1>15, <1>16, <1>17, <1>19, <1>20 DEF FanInv

-------------------------------------------------------------------------------
(***************************************************************************)
(* The theorems.                                                            *)
(***************************************************************************)

\* No writer is registered and nothing was posted at the start.
LEMMA FanInitInv == FanInit => FanInv
<1> SUFFICES ASSUME FanInit PROVE FanInv
  OBVIOUS
<1>1. /\ gos = <<>> /\ DOMAIN gos = {} /\ fan = "idle" /\ ~crashed /\ visited = {}
      /\ mapWrite = {}
  BY DEF FanInit
<1>2. \A n \in Names : posted[n] = <<>> /\ DOMAIN posted[n] = {}
  BY DEF FanInit
<1>3. FanTypes
  <2>1. writerMap \in [Names -> Entries] /\ posted \in [Names -> Seq(Posts)]
    BY DEF FanInit, Entries
  <2>2. gos \in Seq(Goroutines)
    BY <1>1
  <2> QED
    BY <1>1, <2>1, <2>2 DEF FanInit, FanTypes
<1>4. WriteSeen /\ OneBatch /\ LookedUp /\ ReYield /\ Twice /\ Served /\ CrashCause
  BY <1>1 DEF WriteSeen, OneBatch, AllEnded, LookedUp, ReYield, Twice, Served, CrashCause
<1>5. PostedBy /\ BatchOrder /\ DuplicatesOnlyByReRegister
  BY <1>2 DEF PostedBy, BatchOrder, DuplicatesOnlyByReRegister
<1> QED
  BY <1>3, <1>4, <1>5 DEF FanInv

\* Every step of Register, DeRegister, the range and the goroutines preserves
\* the invariant.
LEMMA FanStep ==
  ASSUME FanInv, [FanNext]_fanVars
  PROVE  FanInv'
<1>1. CASE Reconcile
  BY <1>1, BeginWriteStep, EndWriteStep DEF Reconcile
<1>2. CASE BeginFanout
  BY <1>2, BeginFanoutStep
<1>3. CASE WriteTimeSeries
  <2>1. ASSUME NEW g \in DOMAIN gos, Goroutine(g)
        PROVE  FanInv'
    BY <2>1, QuietGo, PostPanics, PostSends DEF Goroutine
  <2> QED
    BY <1>3, <2>1, RangeNextStep, ControlStep DEF WriteTimeSeries
<1>4. CASE RaceDetected
  BY <1>4, ControlStep
<1>5. CASE UNCHANGED fanVars
  <2>1. UNCHANGED <<writerMap, mapWrite, changes, fan, batchNo, must, visited, gos,
                    crashed, posted, touched>>
    BY <1>5 DEF fanVars
  <2>2. FanTypes'
    BY <2>1 DEF FanInv, FanTypes
  <2>3. WriteSeen' /\ LookedUp' /\ CrashCause'
    BY <2>1 DEF FanInv, WriteSeen, LookedUp, CrashCause
  <2>4. OneBatch' /\ PostedBy' /\ Served'
    BY <2>1 DEF FanInv, OneBatch, AllEnded, PostedBy, Served, Sent
  <2>5. ReYield' /\ Twice'
    BY <2>1 DEF FanInv, ReYield, Twice, FreshEntry, Fresh
  <2>6. BatchOrder' /\ DuplicatesOnlyByReRegister'
    BY <2>1 DEF FanInv, BatchOrder, DuplicatesOnlyByReRegister
  <2> QED
    BY <2>2, <2>3, <2>4, <2>5, <2>6 DEF FanInv
<1> QED
  BY <1>1, <1>2, <1>3, <1>4, <1>5 DEF FanNext

\* The invariant holds in every reachable state of the writers.
LEMMA FanAlways == FanSpec => []FanInv
<1>1. FanInv /\ [FanNext]_fanVars => FanInv'
  BY FanStep
<1> QED
  BY <1>1, FanInitInv, PTL DEF FanSpec

\* A writer gets the batches in the order loopRead popped them, whatever
\* Register and DeRegister do meanwhile.
THEOREM InOrder == FanSpec => []BatchOrder
<1>1. FanInv => BatchOrder
  BY DEF FanInv
<1> QED
  BY <1>1, FanAlways, PTL

\* A writer gets a batch twice only if Register stored it anew while the batch
\* was being written.
THEOREM OnceUnlessReRegistered == FanSpec => []DuplicatesOnlyByReRegister
<1>1. FanInv => DuplicatesOnlyByReRegister
  BY DEF FanInv
<1> QED
  BY <1>1, FanAlways, PTL

\* The process dies in WriteTimeSeries only of a map write during it or of a
\* registered writer with an odd Headers list.
THEOREM CrashCaused == FanSpec => []CrashCause
<1>1. FanInv => CrashCause
  BY DEF FanInv
<1> QED
  BY <1>1, FanAlways, PTL

\* WriteTimeSeries returns only when every writer that was registered at its
\* start and not deregistered since was given the batch.
THEOREM StableServed == FanSpec => StableWritersServed
<1> DEFINE Step == fan = "wait" /\ fan' = "idle" =>
                     \A n \in must : Sent(n, batchNo) \/ Refused(n)
<1>1. ASSUME FanInv, [FanNext]_fanVars
      PROVE  [Step]_fanVars
  <2> SUFFICES ASSUME fan = "wait", fan' = "idle", NEW n \in must
               PROVE  Sent(n, batchNo) \/ Refused(n)
    OBVIOUS
  <2>1. AllEnded
    <3>1. FanNext
      BY <1>1 DEF fanVars
    <3> QED
      BY <3>1 DEF FanNext, Reconcile, BeginRegister, BeginDeRegister, EndMapWrite,
         BeginFanout, WriteTimeSeries, RangeNext, RangeEnd, EndFanout, Goroutine, Lookup,
         MarshalFails, Post, WriteSnapshot, RaceDetected, rangeVars
  <2>2. PICK g \in DOMAIN gos : gos[g].key = n
    BY <1>1 DEF FanInv, Served
  <2> QED
    BY <1>1, <2>1, <2>2 DEF AllEnded, FanInv, Served, Refused
<1>2. FanInv /\ [FanNext]_fanVars => [Step]_fanVars
  BY <1>1
<1> QED
  BY <1>2, FanAlways, PTL DEF FanSpec, StableWritersServed

-------------------------------------------------------------------------------
(***************************************************************************)
(* Refinement of the two components.                                        *)
(***************************************************************************)
LEMMA QueueStep == [WritersNext]_writersVars => [WQNext]_wqVars
<1> SUFFICES ASSUME [WritersNext]_writersVars PROVE [WQNext]_wqVars
  OBVIOUS
<1>1. CASE ProducerStep
  BY <1>1 DEF ProducerStep, WQNext
<1>2. CASE SnapshotStep
  BY <1>2 DEF SnapshotStep, WQNext
<1>3. CASE LoopReadPop
  BY <1>3 DEF LoopReadPop, WQNext, LoopRead
<1>4. CASE LoopReadReturn
  BY <1>4 DEF LoopReadReturn, WQNext, LoopRead
<1>5. CASE LoopReadSleep
  BY <1>5 DEF LoopReadSleep, WQNext, LoopRead
<1>6. CASE WriteStep
  BY <1>6 DEF WriteStep
<1>7. CASE ReconcileStep
  BY <1>7 DEF ReconcileStep
<1>8. CASE UNCHANGED writersVars
  BY <1>8 DEF writersVars
<1> QED
  BY <1>1, <1>2, <1>3, <1>4, <1>5, <1>6, <1>7, <1>8 DEF WritersNext

LEMMA FanoutStep == [WritersNext]_writersVars => [FanNext]_fanVars
<1> SUFFICES ASSUME [WritersNext]_writersVars PROVE [FanNext]_fanVars
  OBVIOUS
<1>1. CASE ProducerStep
  BY <1>1 DEF ProducerStep
<1>2. CASE SnapshotStep
  BY <1>2 DEF SnapshotStep
<1>3. CASE LoopReadPop
  BY <1>3 DEF LoopReadPop, FanNext
<1>4. CASE LoopReadReturn
  BY <1>4 DEF LoopReadReturn, FanNext, WriteTimeSeries
<1>5. CASE LoopReadSleep
  BY <1>5 DEF LoopReadSleep
<1>6. CASE WriteStep
  BY <1>6 DEF WriteStep, FanNext, WriteTimeSeries
<1>7. CASE ReconcileStep
  BY <1>7 DEF ReconcileStep, FanNext
<1>8. CASE UNCHANGED writersVars
  BY <1>8 DEF writersVars
<1> QED
  BY <1>1, <1>2, <1>3, <1>4, <1>5, <1>6, <1>7, <1>8 DEF WritersNext

\* The composition with the map of writers, its mutex and its crashes is still
\* the queue of WriteQueue: every step is one of its steps or leaves it alone.
THEOREM RefinesQueue == WritersSpec => QueueRefined
<1>1. WritersInit => WQInit
  BY DEF WritersInit
<1> QED
  BY <1>1, QueueStep, PTL DEF WritersSpec, QueueRefined, WQSpec

\* It is also the fan-out of WriterFanout, fed with the batches of the queue.
THEOREM RefinesFanout == WritersSpec => FanSpec
<1>1. WritersInit => FanInit
  BY DEF WritersInit
<1> QED
  BY <1>1, FanoutStep, PTL DEF WritersSpec, FanSpec

-------------------------------------------------------------------------------
(***************************************************************************)
(* The invariant that joins them.                                           *)
(***************************************************************************)
HistoryTypes ==
  /\ contents \in Seq(Seq(Series))
  /\ sentTo \in [Names -> Seq(Series)]
  /\ constantly \subseteq Names
  /\ writes \in [WriteTotalCount : Nat, WriteFailTotal : Nat]

\* WriteTimeSeries works on the batch loopRead popped last.
InStep ==
  /\ Len(contents) = batchNo
  /\ fan # "idle" => batchNo >= 1 /\ contents[batchNo] = batch
  /\ batchNo = 0 => /\ fan = "idle"
                    /\ written = <<>>
                    /\ \A n \in Names : sentTo[n] = <<>>

\* A writer that was never deregistered is owed the current batch, and the range
\* yields its key once.
StillOwed ==
  /\ constantly \subseteq Registered
  /\ fan # "idle" =>
       /\ constantly \subseteq must
       /\ \A g \in DOMAIN gos :
            gos[g].key \in constantly =>
              /\ gos[g].key \in visited
              /\ \A h \in DOMAIN gos : gos[h].key = gos[g].key => h = g

FailSeen ==
  writes.WriteFailTotal = 0 => \A g \in DOMAIN gos : gos[g].st # "failed"

\* The goroutine of n is past its post.
HasPosted(n) ==
  \E g \in DOMAIN gos : gos[g].key = n /\ gos[g].st \in {"snapok", "done"}

\* What such a writer was sent: all batches so far, the current one as soon as
\* its goroutine has posted.
SentSoFar ==
  writes.WriteFailTotal = 0 =>
    \A n \in constantly :
      sentTo[n] = IF fan # "idle" /\ HasPosted(n) THEN written \o batch ELSE written

Joined == HistoryTypes /\ InStep /\ StillOwed /\ FailSeen /\ SentSoFar

\* Steps of the producers and of the snapshots.
LEMMA ElsewhereStep ==
  ASSUME Joined, UNCHANGED <<fanVars, historyVars, batch, written>> PROVE Joined'
<1>1. /\ UNCHANGED <<writerMap, fan, batchNo, must, visited, gos, writes>>
      /\ UNCHANGED <<contents, sentTo, constantly, batch, written>>
  BY DEF fanVars, historyVars
<1>2. HistoryTypes' /\ InStep' /\ FailSeen'
  BY <1>1 DEF Joined, HistoryTypes, InStep, FailSeen
<1>3. StillOwed' /\ SentSoFar'
  BY <1>1 DEF Joined, StillOwed, SentSoFar, Registered, HasPosted
<1> QED
  BY <1>2, <1>3 DEF Joined

\* loopRead pops a batch and enters WriteTimeSeries.
LEMMA PopStep ==
  ASSUME WQTypeOK, FanInv, Joined, LoopReadPop PROVE Joined'
<1>1. /\ fan = "idle" /\ fan' = "range"
      /\ batchNo \in Nat /\ batchNo' = batchNo + 1
      /\ must' = Registered /\ writerMap' = writerMap
      /\ contents' = Append(contents, batch')
      /\ constantly' = (IF contents = <<>> THEN Registered ELSE constantly)
      /\ UNCHANGED <<writes, sentTo, written>>
  BY DEF LoopReadPop, BeginFanout, PopBatch, mapVars, FanInv, FanTypes
<1>2. gos' = <<>>
  BY <1>1 DEF LoopReadPop, BeginFanout, FanInv, OneBatch
<1>3. DOMAIN gos' = {}
  BY <1>2
<1>4. batch' \in Seq(Series)
  <2>1. BatchSize \in Nat /\ queue \in Seq(Series)
    BY SizesAssumption DEF WQTypeOK
  <2> QED
    BY <2>1, PopSplits DEF LoopReadPop, PopBatch
<1>5. contents \in Seq(Seq(Series)) /\ Len(contents) = batchNo
  BY DEF Joined, HistoryTypes, InStep
<1>6. /\ contents' \in Seq(Seq(Series))
      /\ Len(contents') = batchNo + 1
      /\ contents'[batchNo + 1] = batch'
  BY <1>1, <1>4, <1>5, AppendProperties
<1>7. HistoryTypes'
  BY <1>1, <1>6 DEF Joined, HistoryTypes, Registered
<1>8. InStep'
  BY <1>1, <1>6 DEF InStep
<1>9. StillOwed'
  BY <1>1, <1>3 DEF Joined, StillOwed, Registered
<1>10. FailSeen'
  BY <1>3 DEF FailSeen
<1>11. SentSoFar'
  <2>1. \A n \in Names : ~HasPosted(n)'
    BY <1>3 DEF HasPosted
  <2>2. constantly' \subseteq Names
    BY <1>7 DEF HistoryTypes
  <2> SUFFICES ASSUME writes.WriteFailTotal = 0, NEW n \in constantly'
               PROVE  sentTo[n] = written
    BY <1>1, <2>1, <2>2 DEF SentSoFar
  <2>3. CASE contents = <<>>
    BY <1>1, <1>5, <2>2, <2>3 DEF Joined, InStep
  <2>4. CASE contents # <<>>
    BY <1>1, <2>4 DEF Joined, SentSoFar
  <2> QED
    BY <2>3, <2>4
<1> QED
  BY <1>7, <1>8, <1>9, <1>10, <1>11 DEF Joined

\* WriteTimeSeries returns: wg.Wait has seen every goroutine end.
LEMMA ReturnStep ==
  ASSUME WQTypeOK, FanInv, Joined, LoopReadReturn PROVE Joined'
<1>1. /\ fan = "wait" /\ fan' = "idle" /\ AllEnded
      /\ written' = written \o batch
      /\ UNCHANGED <<writerMap, batchNo, gos, writes, contents, sentTo, constantly>>
  BY DEF LoopReadReturn, EndFanout, BatchWritten, mapVars, historyVars
<1>2. HistoryTypes' /\ FailSeen'
  BY <1>1 DEF Joined, HistoryTypes, FailSeen
<1>3. InStep'
  BY <1>1 DEF Joined, InStep, FanInv, FanTypes
<1>4. StillOwed'
  BY <1>1 DEF Joined, StillOwed, Registered
<1>5. SentSoFar'
  <2> SUFFICES ASSUME writes.WriteFailTotal = 0, NEW n \in constantly
               PROVE  sentTo[n] = written \o batch
    BY <1>1 DEF SentSoFar
  <2>1. n \in visited
    BY <1>1 DEF Joined, StillOwed, FanInv, Served
  <2>2. PICK g \in DOMAIN gos : gos[g].key = n
    BY <2>1 DEF FanInv, Served
  <2>3. gos[g].st = "done"
    BY <1>1, <2>2 DEF AllEnded, Joined, FailSeen
  <2>4. HasPosted(n)
    BY <2>2, <2>3 DEF HasPosted
  <2> QED
    BY <1>1, <2>4 DEF Joined, SentSoFar
<1> QED
  BY <1>2, <1>3, <1>4, <1>5 DEF Joined

\* Register and DeRegister.
LEMMA MapStep ==
  ASSUME FanInv, Joined, ReconcileStep PROVE Joined'
<1>1. /\ UNCHANGED <<fan, batchNo, gos, writes, contents, sentTo, batch, written>>
      /\ constantly' = constantly \cap {n \in Names : writerMap'[n] # NoWriter}
  BY DEF ReconcileStep, Reconcile, BeginRegister, BeginDeRegister, EndMapWrite,
     rangeVars, wqVars
<1>2. \A n \in constantly' : (n \in must => n \in must') /\ (n \in visited => n \in visited')
  <2>1. CASE UNCHANGED <<must, visited>>
    BY <2>1
  <2>2. CASE EndMapWrite
    <3>1. PICK w \in mapWrite :
             /\ writerMap' = [writerMap EXCEPT ![w.name] = w.value]
             /\ must' = IF w.value = NoWriter THEN must \ {w.name} ELSE must
             /\ visited' = IF w.value = NoWriter THEN visited \ {w.name} ELSE visited
      BY <2>2 DEF EndMapWrite
    <3>2. w.value = NoWriter => w.name \notin constantly'
      BY <1>1, <3>1 DEF FanInv, FanTypes
    <3> QED
      BY <3>1, <3>2
  <2> QED
    BY <2>1, <2>2 DEF ReconcileStep, Reconcile, BeginRegister, BeginDeRegister, rangeVars
<1>3. HistoryTypes' /\ InStep' /\ FailSeen'
  BY <1>1 DEF Joined, HistoryTypes, InStep, FailSeen
<1>4. StillOwed'
  BY <1>1, <1>2 DEF Joined, StillOwed, Registered
<1>5. SentSoFar'
  BY <1>1 DEF Joined, SentSoFar, HasPosted
<1> QED
  BY <1>3, <1>4, <1>5 DEF Joined

\* The range and the goroutines: a step without a post sends nothing.
LEMMA SilentStep ==
  ASSUME Joined, WriteStep, posted' = posted
  PROVE  UNCHANGED <<sentTo, contents, constantly, batch, written>>
<1>1. sentTo' = [n \in Names |-> sentTo[n]]
  BY DEF WriteStep
<1>2. sentTo' = sentTo
  BY <1>1 DEF Joined, HistoryTypes
<1> QED
  BY <1>2 DEF WriteStep, wqVars

LEMMA RangeStep ==
  ASSUME FanInv, Joined, WriteStep,
         RangeEnd \/ RaceDetected \/ \E n \in Names : RangeNext(n)
  PROVE  Joined'
<1>1. /\ UNCHANGED <<sentTo, contents, constantly, batch, written>>
      /\ UNCHANGED <<writerMap, batchNo, must, writes>>
  BY SilentStep DEF RangeEnd, RaceDetected, RangeNext, mapVars, rangeVars
<1>2. CASE RangeEnd \/ RaceDetected
  <2>1. /\ UNCHANGED <<visited, gos>>
        /\ (fan' # "idle") = (fan # "idle")
    BY <1>2 DEF RangeEnd, RaceDetected, rangeVars
  <2>2. HistoryTypes' /\ InStep' /\ FailSeen'
    BY <1>1, <2>1 DEF Joined, HistoryTypes, InStep, FailSeen
  <2>3. StillOwed' /\ SentSoFar'
    BY <1>1, <2>1 DEF Joined, StillOwed, SentSoFar, Registered, HasPosted
  <2> QED
    BY <2>2, <2>3 DEF Joined
<1>3. ASSUME NEW n \in Names, RangeNext(n) PROVE Joined'
  <2> DEFINE r == [key |-> n, batch |-> batchNo, st |-> "run", writer |-> NoWriter]
  <2>1. /\ n \notin visited /\ visited' = visited \cup {n}
        /\ gos' = Append(gos, r) /\ fan = "range" /\ fan' = fan
    BY <1>3 DEF RangeNext
  <2>2. r \in Goroutines /\ r.key = n /\ r.st = "run"
    BY DEF FanInv, FanTypes, Goroutines, GoStates, Entries
  <2> HIDE DEF r
  <2>3. /\ DOMAIN gos = 1..Len(gos) /\ Len(gos) \in Nat
        /\ DOMAIN gos' = 1..(Len(gos) + 1)
        /\ \A g \in DOMAIN gos : gos'[g] = gos[g]
        /\ gos'[Len(gos) + 1] = r
    BY <2>1, <2>2, AppendProperties, GoFields DEF FanInv, FanTypes
  <2>4. \A g \in DOMAIN gos' : g \in DOMAIN gos \/ g = Len(gos) + 1
    BY <2>3
  <2>5. DOMAIN gos \subseteq DOMAIN gos'
    BY <2>3
  <2>6. HistoryTypes' /\ InStep'
    BY <1>1, <2>1 DEF Joined, HistoryTypes, InStep
  <2>7. FailSeen'
    BY <1>1, <2>2, <2>3, <2>4 DEF Joined, FailSeen
  <2>8. StillOwed'
    BY <1>1, <2>1, <2>2, <2>3, <2>4 DEF Joined, StillOwed, Registered
  <2>9. \A k \in Names : HasPosted(k)' <=> HasPosted(k)
    BY <2>2, <2>3, <2>4, <2>5 DEF HasPosted
  <2>10. SentSoFar'
    BY <1>1, <2>1, <2>9 DEF Joined, HistoryTypes, SentSoFar
  <2> QED
    BY <2>6, <2>7, <2>8, <2>10 DEF Joined
<1> QED
  BY <1>2, <1>3

\* A goroutine that neither posts nor returns from a failed Write.
LEMMA QuietWrite ==
  ASSUME FanInv, Joined, WriteStep, NEW g \in DOMAIN gos,
         UNCHANGED <<writerMap, rangeVars, posted>>,
         DOMAIN gos' = DOMAIN gos,
         \A h \in DOMAIN gos : gos'[h].key = gos[h].key,
         \A h \in DOMAIN gos :
           /\ (gos'[h].st \in {"snapok", "done"}) <=> (gos[h].st \in {"snapok", "done"})
           /\ writes'.WriteFailTotal = 0 => (gos'[h].st = "failed" => gos[h].st = "failed"),
         writes' \in [WriteTotalCount : Nat, WriteFailTotal : Nat],
         writes'.WriteFailTotal >= writes.WriteFailTotal
  PROVE  Joined'
<1>1. /\ UNCHANGED <<sentTo, contents, constantly, batch, written>>
      /\ UNCHANGED <<fan, batchNo, must, visited>>
  BY SilentStep DEF rangeVars
<1>2. writes'.WriteFailTotal = 0 => writes.WriteFailTotal = 0
  <2>1. writes.WriteFailTotal \in Nat /\ writes'.WriteFailTotal \in Nat
    BY DEF Joined, HistoryTypes
  <2> QED
    BY <2>1
<1>3. HistoryTypes' /\ InStep'
  BY <1>1 DEF Joined, HistoryTypes, InStep
<1>4. FailSeen'
  BY <1>1, <1>2 DEF Joined, FailSeen
<1>5. StillOwed'
  BY <1>1 DEF Joined, StillOwed, Registered
<1>6. \A n \in Names : HasPosted(n)' <=> HasPosted(n)
  BY DEF HasPosted
<1>7. SentSoFar'
  BY <1>1, <1>2, <1>6 DEF Joined, HistoryTypes, SentSoFar
<1> QED
  BY <1>3, <1>4, <1>5, <1>7 DEF Joined

LEMMA QuietWrites ==
  ASSUME FanInv, Joined, WriteStep, NEW g \in DOMAIN gos,
         Lookup(g) \/ MarshalFails(g) \/ WriteSnapshot(g)
  PROVE  Joined'
<1>1. /\ gos[g] \in Goroutines /\ gos[g].key \in Names /\ FanTypes
      /\ writes \in [WriteTotalCount : Nat, WriteFailTotal : Nat]
      /\ writes.WriteFailTotal \in Nat /\ writes.WriteTotalCount \in Nat
  BY GoFields DEF FanInv, Joined, HistoryTypes
<1>2. CASE Lookup(g)
  <2> DEFINE w == writerMap[gos[g].key]
             r == [[gos[g] EXCEPT !.st = "write"] EXCEPT !.writer = w]
  <2>1. /\ gos[g].st = "run" /\ gos' = [gos EXCEPT ![g] = r]
        /\ UNCHANGED <<writerMap, rangeVars, posted, writes>>
    BY <1>2 DEF Lookup, mapVars
  <2>2. w \in Entries
    BY <1>1 DEF FanTypes
  <2> HIDE DEF w
  <2>3. r \in Goroutines /\ r.key = gos[g].key /\ r.batch = gos[g].batch /\ r.st = "write"
    BY <1>1, <2>2 DEF Goroutines, GoStates
  <2> HIDE DEF r
  <2>4. /\ DOMAIN gos' = DOMAIN gos /\ gos'[g] = r
        /\ \A h \in DOMAIN gos : gos'[h].key = gos[h].key /\ (h # g => gos'[h] = gos[h])
    BY <1>1, <2>1, <2>3, GoMoves
  <2> QED
    BY <1>1, <2>1, <2>3, <2>4, QuietWrite
<1>3. CASE MarshalFails(g)
  <2>1. /\ gos[g].st = "write" /\ gos' = [gos EXCEPT ![g].st = "snaperr"]
        /\ UNCHANGED <<writerMap, rangeVars, posted, writes>>
    BY <1>3 DEF MarshalFails, mapVars
  <2>2. /\ DOMAIN gos' = DOMAIN gos /\ gos'[g].st = "snaperr"
        /\ \A h \in DOMAIN gos : gos'[h].key = gos[h].key /\ (h # g => gos'[h] = gos[h])
    BY <1>1, <2>1, GoEnters DEF GoStates
  <2> QED
    BY <1>1, <2>1, <2>2, QuietWrite
<1>4. CASE WriteSnapshot(g)
  <2> DEFINE s == IF gos[g].st = "snaperr" THEN "failed" ELSE "done"
  <2>1. /\ gos[g].st \in {"snapok", "snaperr"} /\ gos' = [gos EXCEPT ![g].st = s]
        /\ UNCHANGED <<writerMap, rangeVars, posted>>
    BY <1>4 DEF WriteSnapshot, mapVars
  <2>2. /\ writes' \in [WriteTotalCount : Nat, WriteFailTotal : Nat]
        /\ writes'.WriteFailTotal =
             writes.WriteFailTotal + (IF gos[g].st = "snaperr" THEN 1 ELSE 0)
    BY <1>1, <1>4 DEF WriteSnapshot
  <2>3. s \in GoStates /\ (s = "done" <=> gos[g].st = "snapok")
        /\ (s = "failed" <=> gos[g].st = "snaperr")
    BY <2>1 DEF GoStates
  <2> HIDE DEF s
  <2>4. /\ DOMAIN gos' = DOMAIN gos /\ gos'[g].st = s
        /\ \A h \in DOMAIN gos : gos'[h].key = gos[h].key /\ (h # g => gos'[h] = gos[h])
    BY <1>1, <2>1, <2>3, GoEnters
  <2>5. /\ writes'.WriteFailTotal >= writes.WriteFailTotal
        /\ writes'.WriteFailTotal = 0 => s # "failed"
    BY <1>1, <2>2, <2>3
  <2>6. s \in {"done", "failed"}
    BY DEF s
  <2> QED
    BY <2>1, <2>2, <2>3, <2>4, <2>5, <2>6, QuietWrite
<1> QED
  BY <1>2, <1>3, <1>4

\* A post: the writer of its name is sent the batch in flight.
LEMMA PostStep ==
  ASSUME FanInv, Joined, WriteStep, NEW g \in DOMAIN gos, Post(g) PROVE Joined'
<1>1. /\ gos[g].st = "write" /\ gos[g].key \in Names
      /\ UNCHANGED <<writerMap, rangeVars, writes>>
      /\ UNCHANGED <<contents, constantly, batch, written>>
  BY GoFields DEF Post, mapVars, WriteStep, wqVars, FanInv
<1>2. CASE Panics(gos[g].writer)
  <2>1. UNCHANGED <<gos, posted>>
    BY <1>2 DEF Post
  <2> QED
    BY <1>1, <2>1, QuietWrite DEF Joined, HistoryTypes
<1>3. CASE ~Panics(gos[g].writer)
  <2> DEFINE k == gos[g].key
             r == [batch |-> gos[g].batch, writer |-> gos[g].writer]
  <2>1. /\ gos' = [gos EXCEPT ![g].st = "snapok"]
        /\ posted' = [posted EXCEPT ![k] = Append(@, r)]
    BY <1>3 DEF Post
  <2>2. fan # "idle" /\ gos[g].batch = batchNo
    BY <1>1 DEF FanInv, OneBatch, AllEnded
  <2>3. r \in Posts /\ r.batch = batchNo
    BY <2>2, GoFields DEF FanInv, Posts
  <2> HIDE DEF r
  <2>4. /\ DOMAIN gos' = DOMAIN gos /\ gos'[g].st = "snapok"
        /\ \A h \in DOMAIN gos : gos'[h].key = gos[h].key /\ (h # g => gos'[h] = gos[h])
    BY <2>1, GoEnters DEF GoStates, FanInv
  <2>5. /\ posted'[k] = Append(posted[k], r) /\ posted[k] \in Seq(Posts)
        /\ \A n \in Names : n # k => posted'[n] = posted[n]
    BY <1>1, <2>1 DEF FanInv, FanTypes
  <2>6. posted'[k] # posted[k] /\ Last(posted'[k]) = r
    BY <2>3, <2>5, AppendProperties DEF Last
  <2>7. contents[batchNo] = batch
    BY <2>2 DEF Joined, InStep
  <2>8. /\ sentTo'[k] = sentTo[k] \o batch
        /\ \A n \in Names : n # k => sentTo'[n] = sentTo[n]
    BY <1>1, <2>3, <2>5, <2>6, <2>7 DEF WriteStep
  <2>9. sentTo' \in [Names -> Seq(Series)]
    <3>1. batch \in Seq(Series)
      <4>1. contents \in Seq(Seq(Series)) /\ batchNo \in 1..Len(contents)
        BY <2>2 DEF Joined, HistoryTypes, InStep, FanInv, FanTypes
      <4>2. contents[batchNo] \in Seq(Series)
        BY <4>1, ElementOfSeq
      <4> QED
        BY <2>7, <4>2
    <3>2. \A n \in Names : sentTo[n] \in Seq(Series)
      BY DEF Joined, HistoryTypes
    <3>3. sentTo'[k] \in Seq(Series)
      BY <1>1, <2>8, <3>1, <3>2, ConcatProperties
    <3>4. \A n \in Names : sentTo'[n] \in Seq(Series)
      BY <2>8, <3>2, <3>3
    <3>5. sentTo' = [n \in Names |-> sentTo'[n]]
      BY DEF WriteStep
    <3> QED
      BY <3>4, <3>5
  <2>10. HistoryTypes'
    BY <1>1, <2>9 DEF Joined, HistoryTypes
  <2>11. UNCHANGED <<fan, batchNo, must, visited>>
    BY <1>1 DEF rangeVars
  <2>12. InStep'
    BY <1>1, <2>2, <2>11 DEF Joined, InStep
  <2>13. FailSeen'
    BY <1>1, <2>4 DEF Joined, FailSeen
  <2>14. StillOwed'
    BY <1>1, <2>4, <2>11 DEF Joined, StillOwed, Registered
  <2>15. SentSoFar'
    <3> SUFFICES ASSUME writes.WriteFailTotal = 0, NEW n \in constantly
                 PROVE  sentTo'[n] = IF HasPosted(n)' THEN written \o batch ELSE written
      BY <1>1, <2>2, <2>11 DEF SentSoFar
    <3>1. sentTo[n] = IF HasPosted(n) THEN written \o batch ELSE written
      BY <2>2 DEF Joined, SentSoFar
    <3>2. CASE n = k
      <4>1. HasPosted(n)'
        BY <2>4, <3>2 DEF HasPosted
      <4>2. ~HasPosted(n)
        BY <1>1, <2>2, <3>2 DEF HasPosted, Joined, StillOwed
      <4> QED
        BY <2>8, <3>1, <3>2, <4>1, <4>2
    <3>3. CASE n # k
      <4>1. HasPosted(n)' <=> HasPosted(n)
        BY <2>4, <3>3 DEF HasPosted
      <4>2. n \in Names
        BY DEF Joined, HistoryTypes
      <4> QED
        BY <2>8, <3>1, <3>3, <4>1, <4>2
    <3> QED
      BY <3>2, <3>3
  <2> QED
    BY <2>10, <2>12, <2>13, <2>14, <2>15 DEF Joined
<1> QED
  BY <1>2, <1>3

LEMMA JoinedInit == WritersInit => Joined
<1> SUFFICES ASSUME WritersInit PROVE Joined
  OBVIOUS
<1>1. /\ fan = "idle" /\ batchNo = 0 /\ gos = <<>> /\ DOMAIN gos = {}
      /\ contents = <<>> /\ Len(contents) = 0 /\ constantly = {} /\ written = <<>>
      /\ \A n \in Names : sentTo[n] = <<>>
  BY DEF WritersInit, FanInit, WQInit, NoSeries
<1>2. sentTo \in [Names -> Seq(Series)]
  BY DEF WritersInit
<1>3. writes \in [WriteTotalCount : Nat, WriteFailTotal : Nat]
  BY DEF WritersInit, FanInit
<1> QED
  BY <1>1, <1>2, <1>3
  DEF Joined, HistoryTypes, InStep, StillOwed, FailSeen, SentSoFar

LEMMA JoinedStep ==
  WQTypeOK /\ FanInv /\ Joined /\ [WritersNext]_writersVars => Joined'
<1> SUFFICES ASSUME WQTypeOK, FanInv, Joined, [WritersNext]_writersVars
             PROVE  Joined'
  OBVIOUS
<1>1. CASE ProducerStep
  BY <1>1, ElsewhereStep DEF ProducerStep, Produce, BeginWriteSamples, CheckLimit,
     Push, SpawnSnapshot
<1>2. CASE SnapshotStep
  BY <1>2, ElsewhereStep DEF SnapshotStep, RunSnapshot, Snapshot
<1>3. CASE LoopReadPop
  BY <1>3, PopStep
<1>4. CASE LoopReadReturn
  BY <1>4, ReturnStep
<1>5. CASE LoopReadSleep
  BY <1>5, ElsewhereStep DEF LoopReadSleep, SleepOnEmpty, wqVars
<1>6. CASE WriteStep
  BY <1>6, RangeStep, QuietWrites, PostStep DEF WriteStep, Goroutine
<1>7. CASE ReconcileStep
  BY <1>7, MapStep
<1>8. CASE UNCHANGED writersVars
  BY <1>8, ElsewhereStep DEF writersVars, wqVars
<1> QED
  BY <1>1, <1>2, <1>3, <1>4, <1>5, <1>6, <1>7, <1>8 DEF WritersNext

\* A writer that is registered before the first batch and never deregistered was
\* sent, whenever WriteTimeSeries has returned, exactly the series loopRead took
\* from the queue, in that order: no other Register or DeRegister, and no order
\* of the goroutines, makes it miss or repeat one.
THEOREM ConstantWriterServed == WritersSpec => []ConstantWriterGetsAll
<1>1. WritersSpec => []FanInv
  BY RefinesFanout, FanAlways, PTL
<1>2. WritersSpec => []WQTypeOK
  BY RefinesQueue, Types, PTL DEF QueueRefined
<1>3. WritersSpec => []Joined
  BY <1>1, <1>2, JoinedInit, JoinedStep, PTL DEF WritersSpec
<1>4. Joined => ConstantWriterGetsAll
  BY DEF Joined, SentSoFar, ConstantWriterGetsAll
<1> QED
  BY <1>3, <1>4, PTL

\* The promises of the two components for internal/writer as a whole.
COROLLARY WritersKeepPromises ==
  WritersSpec => /\ []QueueBound /\ []FifoPerProducer /\ []CallsContiguous
                 /\ []CountersAccount /\ ImplementsPipe
                 /\ []BatchOrder /\ []DuplicatesOnlyByReRegister /\ []CrashCause
                 /\ StableWritersServed
BY RefinesQueue, RefinesFanout, Bounded, Fifo, Contiguous, CountersRight,
   RefinesPipe, InOrder,
   OnceUnlessReRegistered, CrashCaused, StableServed, PTL DEF QueueRefined
===============================================================================
