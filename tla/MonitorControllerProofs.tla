------------------------ MODULE MonitorControllerProofs ------------------------
(***************************************************************************)
(* Proofs about MonitorController for every set of Monitors, namespaces and *)
(* specs and every bound: its types, and that the task table and the loops  *)
(* agree whatever the reconciler, the informer, the loops and the shutdown  *)
(* do in whatever order.                                                    *)
(***************************************************************************)
EXTENDS MonitorController, KubeObjectsProofs, FiniteSetTheorems

-------------------------------------------------------------------------------
(***************************************************************************)
(* The task table and the loops.                                            *)
(***************************************************************************)

\* The fields of a loop.
LEMMA LoopFields ==
  ASSUME WorkersTypeOK, NEW i \in DOMAIN loops
  PROVE  loops[i].name \in Names /\ loops[i].job \in Jobs /\ loops[i].ch \in Nat
<1>1. loops \in Seq([name : Names, job : Jobs, ch : Nat])
  BY DEF WorkersTypeOK
<1>2. loops[i] \in [name : Names, job : Jobs, ch : Nat]
  <2>1. i \in 1..Len(loops)
    BY <1>1
  <2> QED
    BY <1>1, <2>1, ElementOfSeq
<1> QED
  BY <1>2

\* AddWorkerTask and Run for a name that has no task: a new channel, and the
\* only loop on it.
LEMMA AddAndRunInv ==
  ASSUME TaskInv, NEW n \in Names, NEW job \in Jobs, ~Exist(n), AddAndRun(n, job)
  PROVE  TaskInv'
<1> DEFINE c == channels + 1
           last == Len(loops) + 1
<1>1. c \in Nat /\ channels \in Nat /\ Len(loops) \in Nat /\ Len(lpc) = Len(loops)
  BY DEF TaskInv, WorkersTypeOK
<1>2. /\ Tasks' = [Tasks EXCEPT ![n] = c] /\ channels' = c
      /\ closed' = closed /\ panicked' = panicked
      /\ loops' = Append(loops, [name |-> n, job |-> job, ch |-> c])
      /\ lpc' = Append(lpc, "top")
  BY DEF AddAndRun, TaskChannel
<1>3. /\ Len(loops') = last
      /\ DOMAIN loops = 1..Len(loops) /\ DOMAIN loops' = 1..last
      /\ \A i \in DOMAIN loops : loops'[i] = loops[i]
      /\ loops'[last] = [name |-> n, job |-> job, ch |-> c]
  BY <1>2 DEF TaskInv, WorkersTypeOK
<1>4. loops'[last].name = n /\ loops'[last].ch = c
  BY <1>3
<1>5. DOMAIN loops' = DOMAIN loops \cup {last} /\ last \notin DOMAIN loops
  BY <1>1, <1>3
<1>6. WorkersTypeOK'
  <2>1. Tasks' \in [Names -> Nat \cup {NoTask}]
    BY <1>1, <1>2 DEF TaskInv, WorkersTypeOK
  <2>2. closed' \subseteq 1..channels'
    BY <1>1, <1>2 DEF TaskInv, WorkersTypeOK
  <2>3. loops' \in Seq([name : Names, job : Jobs, ch : Nat])
    BY <1>1, <1>2 DEF TaskInv, WorkersTypeOK
  <2>4. lpc' \in Seq(LoopStates) /\ Len(lpc') = Len(loops')
    BY <1>1, <1>2, <1>3 DEF TaskInv, WorkersTypeOK, LoopStates
  <2> QED
    BY <1>1, <1>2, <2>1, <2>2, <2>3, <2>4 DEF TaskInv, WorkersTypeOK
<1>7. \A m \in Names : Tasks'[m] = IF m = n THEN c ELSE Tasks[m]
  BY <1>2 DEF TaskInv, WorkersTypeOK
<1>8. \A m \in Names : Tasks'[m] # NoTask => Tasks'[m] \in (1..channels') \ closed'
  BY <1>1, <1>2, <1>7 DEF TaskInv, WorkersTypeOK, Exist
<1>9. \A m, k \in Names : Tasks'[m] # NoTask /\ Tasks'[m] = Tasks'[k] => m = k
  BY <1>1, <1>7, NoTaskAssumption DEF TaskInv, WorkersTypeOK, Exist
<1>10. \A i \in DOMAIN loops' : loops'[i].ch \in 1..channels'
  BY <1>1, <1>2, <1>3, <1>4, <1>5 DEF TaskInv
<1>11. \A i, j \in DOMAIN loops' : loops'[i].ch = loops'[j].ch => i = j
  BY <1>1, <1>3, <1>4, <1>5 DEF TaskInv
<1>12. NoLeakedLoop'
  <2>1. ASSUME NEW i \in DOMAIN loops, loops[i].ch \notin closed
        PROVE  Tasks'[loops[i].name] = loops[i].ch
    <3>1. Tasks[loops[i].name] = loops[i].ch /\ loops[i].ch \in Nat
          /\ loops[i].name \in Names
      BY <2>1, LoopFields DEF TaskInv, NoLeakedLoop, Closed
    <3>2. loops[i].name # n
      BY <3>1, NoTaskAssumption DEF Exist
    <3> QED
      BY <1>7, <3>1, <3>2
  <2>2. Tasks'[loops'[last].name] = loops'[last].ch
    BY <1>4, <1>7
  <2> QED
    BY <1>2, <1>3, <1>5, <2>1, <2>2 DEF NoLeakedLoop, Closed
<1> QED
  BY <1>2, <1>6, <1>8, <1>9, <1>10, <1>11, <1>12 DEF TaskInv, NoDoubleClose, Exist

\* Stop closes an open channel and takes it out of the table.
LEMMA StopInv ==
  ASSUME TaskInv, NEW n \in Names, Stop(n)
  PROVE  TaskInv'
<1>1. CASE ~Exist(n)
  BY <1>1 DEF Stop, TaskInv, WorkersTypeOK, Exist, NoLeakedLoop, NoDoubleClose,
              Closed, workerVars
<1>2. CASE Exist(n)
  <2> DEFINE c == Tasks[n]
  <2>1. c \in (1..channels) \ closed
    BY <1>2 DEF TaskInv
  <2>2. /\ closed' = closed \cup {c} /\ panicked' = panicked
        /\ Tasks' = [Tasks EXCEPT ![n] = NoTask]
        /\ channels' = channels /\ loops' = loops /\ lpc' = lpc
    BY <1>2, <2>1 DEF Stop, TaskInv, WorkersTypeOK
  <2>3. WorkersTypeOK'
    BY <2>1, <2>2 DEF TaskInv, WorkersTypeOK
  <2>4. \A m \in Names : Tasks'[m] = IF m = n THEN NoTask ELSE Tasks[m]
    BY <2>2 DEF TaskInv, WorkersTypeOK
  <2>5. \A m \in Names : Tasks'[m] # NoTask => Tasks'[m] \in (1..channels') \ closed'
    BY <1>2, <2>2, <2>4 DEF TaskInv, Exist
  <2>6. \A m, k \in Names : Tasks'[m] # NoTask /\ Tasks'[m] = Tasks'[k] => m = k
    BY <2>4 DEF TaskInv, Exist
  <2>7. ASSUME NEW i \in DOMAIN loops, loops[i].ch \notin closed \cup {c}
        PROVE  Tasks'[loops[i].name] = loops[i].ch
    <3>1. Tasks[loops[i].name] = loops[i].ch /\ loops[i].name \in Names
      BY <2>7, LoopFields DEF TaskInv, NoLeakedLoop, Closed
    <3>2. loops[i].name # n
      BY <2>7, <3>1
    <3> QED
      BY <2>4, <3>1, <3>2
  <2>8. NoLeakedLoop'
    BY <2>2, <2>7 DEF NoLeakedLoop, Closed
  <2> QED
    BY <2>2, <2>3, <2>5, <2>6, <2>8 DEF TaskInv, NoDoubleClose, Exist
<1> QED
  BY <1>1, <1>2

\* StopAll closes each open channel once.
LEMMA StopAllInv ==
  ASSUME TaskInv, StopAll
  PROVE  TaskInv'
<1> DEFINE open == {Tasks[n] : n \in {m \in Names : Exist(m)}}
<1>1. open \subseteq (1..channels) \ closed
  BY DEF TaskInv
<1>2. ~\E m, n \in Names : m # n /\ Exist(m) /\ Tasks[m] = Tasks[n]
  BY DEF TaskInv
<1>3. /\ closed' = closed \cup open
      /\ Tasks' = [n \in Names |-> NoTask]
      /\ channels' = channels /\ loops' = loops /\ lpc' = lpc
  BY DEF StopAll
<1>4. panicked' = FALSE
  BY <1>1, <1>2 DEF StopAll, TaskInv, NoDoubleClose
<1>5. WorkersTypeOK'
  BY <1>1, <1>3, <1>4 DEF TaskInv, WorkersTypeOK
<1>6. \A i \in DOMAIN loops : loops[i].ch \in closed'
  <2> TAKE i \in DOMAIN loops
  <2>1. loops[i].name \in Names /\ loops[i].ch \in Nat
    BY LoopFields DEF TaskInv
  <2>2. loops[i].ch \in closed \/ Tasks[loops[i].name] = loops[i].ch
    BY DEF TaskInv, NoLeakedLoop, Closed
  <2> QED
    BY <1>3, <2>1, <2>2, NoTaskAssumption DEF Exist
<1>7. NoLeakedLoop'
  BY <1>3, <1>6 DEF NoLeakedLoop, Closed
<1> QED
  BY <1>3, <1>4, <1>5, <1>7 DEF TaskInv, NoDoubleClose, Exist

\* A loop changes its own place only.
LEMMA LoopInv ==
  ASSUME TaskInv, NEW i \in DOMAIN loops,
         LoopTop(i) \/ LoopRunDone(i) \/ LoopWait(i)
  PROVE  TaskInv'
<1>1. /\ UNCHANGED <<Tasks, channels, closed, loops, panicked>>
      /\ \E s \in LoopStates : lpc' = [lpc EXCEPT ![i] = s]
  BY DEF LoopTop, LoopRunDone, LoopWait, LoopStates
<1>2. lpc' \in Seq(LoopStates) /\ Len(lpc') = Len(lpc)
  BY <1>1 DEF TaskInv, WorkersTypeOK
<1> QED
  BY <1>1, <1>2 DEF TaskInv, WorkersTypeOK, Exist, NoLeakedLoop, NoDoubleClose, Closed

\* All that a step of the controller may do to the task table and the loops.
WorkerStep ==
  \/ UNCHANGED workerVars
  \/ \E n \in Names, job \in Jobs : ~Exist(n) /\ AddAndRun(n, job)
  \/ \E n \in Names : Stop(n)
  \/ StopAll
  \/ \E i \in DOMAIN loops : LoopTop(i) \/ LoopRunDone(i) \/ LoopWait(i)

\* Every step that touches the task map or a worker loop keeps each open stop
\* channel owned by one task and no channel closed twice.
LEMMA WorkerStepInv ==
  ASSUME TaskInv, WorkerStep
  PROVE  TaskInv'
<1>1. CASE UNCHANGED workerVars
  BY <1>1 DEF workerVars, TaskInv, WorkersTypeOK, Exist, NoLeakedLoop,
              NoDoubleClose, Closed
<1> QED
  BY <1>1, AddAndRunInv, StopInv, StopAllInv, LoopInv DEF WorkerStep

-------------------------------------------------------------------------------
(***************************************************************************)
(* Types of the controller.                                                 *)
(***************************************************************************)

\* The worker goroutine has one key at most.
OneInHand ==
  \/ taken = {} /\ request = {}
  \/ request = {} /\ \E k \in Keys : taken = {k}
  \/ taken = {} /\ \E r \in request : request = {r}

\* The types that do not follow from TaskInv.
KubeTypeOK ==
  /\ store \in [Keys -> Objects]
  /\ version \in Nat
  /\ edits \in 0..MaxEdits
  /\ events \in [Keys -> Seq(Objects)]
  /\ cache \in [Keys -> Objects]
  /\ notices \in [Keys -> Nat]
  /\ dirty \subseteq Keys /\ delayed \subseteq Keys /\ taken \subseteq Keys
  /\ request \subseteq [key : Keys, seen : Objects]
  /\ OneInHand

LoopTypeOK ==
  /\ status \in Seq(Statuses)
  /\ Len(status) = Len(loops)
  /\ runs \in 0..MaxRuns
  /\ faults \in 0..MaxFaults
  /\ phase \in {"up", "stopping", "down"}

HistoryTypeOK ==
  /\ wrote \in [Keys -> 0..Len(loops)]
  /\ cut \subseteq DOMAIN loops

\* A request key carries an object name.
LEMMA NameOfKey == ASSUME NEW k \in Keys PROVE NameOf(k) \in Names
  BY KeysAssumption DEF NameOf

\* What Reconcile got for its request.
LEMMA RequestFields ==
  ASSUME KubeTypeOK, NEW r \in request
  PROVE  /\ r.key \in Keys
         /\ r.seen \in Objects
         /\ r.seen # NoObject => r.seen.spec \in Specs
<1>1. r \in [key : Keys, seen : Objects]
  BY DEF KubeTypeOK
<1> QED
  BY <1>1 DEF Objects, Monitors

\* An object stays one when fields of it are overwritten.
LEMMA ObjectWritten ==
  ASSUME NEW m \in Monitors, NEW s \in Specs, NEW t \in Nat, NEW v \in Nat
  PROVE  WithSpec(m, s, v) \in Objects /\ WithPush(m, t, v) \in Objects
  BY DEF Monitors, Objects, WithSpec, WithPush

\* The record of a run is one when its parts are in their sets.
LEMMA AttemptType ==
  ASSUME NEW step \in StatusSteps, NEW time \in Nat, NEW tries \in Nat,
         NEW got \in Objects
  PROVE  Attempt(step, time, tries, got) \in Statuses
  BY DEF Attempt, Statuses

\* A write by the API server, an event, the work queue.
LEMMA WriteType ==
  ASSUME KubeTypeOK, NEW k \in Keys, NEW o \in Objects, Write(k, o),
         UNCHANGED <<queueVars, taken, request>>, edits' \in 0..MaxEdits
  PROVE  KubeTypeOK'
<1>1. store' \in [Keys -> Objects] /\ version' \in Nat /\ cache' = cache
  BY DEF KubeTypeOK, Write
<1>2. events' \in [Keys -> Seq(Objects)]
  BY DEF KubeTypeOK, Write
<1> QED
  BY <1>1, <1>2 DEF KubeTypeOK, OneInHand, queueVars

\* The informer's cache and its listener keep the state well formed.
LEMMA LearnType ==
  ASSUME KubeTypeOK, NEW k \in Keys, Learn(k), UNCHANGED edits
  PROVE  KubeTypeOK'
<1>1. events[k] \in Seq(Objects) /\ events[k] # <<>>
  BY DEF KubeTypeOK, Learn
<1>2. Head(events[k]) \in Objects /\ Tail(events[k]) \in Seq(Objects)
  BY <1>1
<1>3. notices' \in [Keys -> Nat]
  BY DEF KubeTypeOK, Learn
<1> QED
  BY <1>2, <1>3 DEF KubeTypeOK, OneInHand, Learn

\* A key that is added to the work queue, and one that is taken from it.
LEMMA QueueType ==
  ASSUME KubeTypeOK, NEW k \in Keys, Notify(k) \/ Ripe(k) \/ Take(k), UNCHANGED edits
  PROVE  KubeTypeOK'
<1>1. notices' \in [Keys -> Nat]
  BY DEF KubeTypeOK, Notify, Ripe, Take
<1>2. OneInHand'
  BY DEF KubeTypeOK, OneInHand, Notify, Ripe, Take
<1> QED
  BY <1>1, <1>2 DEF KubeTypeOK, Notify, Ripe, Take, objectVars

\* Get returns for the key in hand.
LEMMA GetType ==
  ASSUME KubeTypeOK, Get, UNCHANGED edits
  PROVE  KubeTypeOK'
<1>1. PICK k \in Keys : taken = {k}
  BY DEF KubeTypeOK, OneInHand, Get
<1> DEFINE r == [key |-> k, seen |-> cache[k]]
<1>2. request' = {r} /\ taken' = {}
  BY <1>1 DEF Get
<1>3. r \in [key : Keys, seen : Objects]
  BY DEF KubeTypeOK
<1> HIDE DEF r
<1>4. UNCHANGED <<store, version, events, cache, notices, dirty, delayed>>
  BY DEF Get, objectVars, queueVars
<1> QED
  BY <1>2, <1>3, <1>4 DEF KubeTypeOK, OneInHand

\* A Reconcile that returns, with or without an error, gives its request back.
LEMMA EndType ==
  ASSUME KubeTypeOK, Forget \/ Requeue, UNCHANGED edits
  PROVE  KubeTypeOK'
<1>1. request' = {} /\ taken' = {} /\ delayed' \subseteq Keys
  BY RequestFields DEF KubeTypeOK, Forget, Requeue, queueVars
<1> QED
  BY <1>1 DEF KubeTypeOK, OneInHand, Forget, Requeue, objectVars, queueVars

\* A run of a loop writes its own status record.
LEMMA StatusType ==
  ASSUME LoopTypeOK, NEW i \in DOMAIN loops, WorkersTypeOK
  PROVE  /\ i \in DOMAIN status
         /\ status[i] \in Statuses
         /\ \A s \in Statuses : /\ [status EXCEPT ![i] = s] \in Seq(Statuses)
                                /\ Len([status EXCEPT ![i] = s]) = Len(status)
<1>1. i \in 1..Len(status) /\ status \in Seq(Statuses)
  BY DEF LoopTypeOK, WorkersTypeOK
<1> QED
  BY <1>1

\* A loop that is not updating its status is in a legal state.
LEMMA IdleType == Idle \in Statuses
  BY AttemptType DEF Idle, StatusSteps, Objects

\* A running loop collects for the key of a Monitor object.
LEMMA KeyOfType ==
  ASSUME WorkersTypeOK, NEW i \in DOMAIN loops
  PROVE  KeyOf(i) \in Keys
<1>1. loops[i].job \in Jobs
  BY LoopFields
<1> QED
  BY <1>1, JobsAssumption DEF KeyOf

\* The steps of users, informer and reconciler.
LEMMA UserType ==
  ASSUME KubeTypeOK, UserStep
  PROVE  KubeTypeOK' /\ UNCHANGED <<loopVars, faults, phase>>
<1>1. ASSUME NEW k \in Keys, NEW s \in Specs, Create(k, s)
      PROVE  KubeTypeOK' /\ UNCHANGED <<loopVars, faults, phase>>
  <2>1. [uid |-> version + 1, rv |-> version + 1, spec |-> s, push |-> 0] \in Objects
    BY DEF KubeTypeOK, Objects, Monitors
  <2>2. edits' \in 0..MaxEdits
    BY <1>1, LimitsAssumption DEF Create, Edit, KubeTypeOK
  <2> QED
    BY <1>1, <2>1, <2>2, WriteType DEF Create, Edit
<1>2. ASSUME NEW k \in Keys, NEW s \in Specs, Update(k, s)
      PROVE  KubeTypeOK' /\ UNCHANGED <<loopVars, faults, phase>>
  <2>1. store[k] \in Monitors
    BY <1>2 DEF Update, KubeTypeOK, Objects
  <2>2. WithSpec(store[k], s, version + 1) \in Objects
    BY <2>1, ObjectWritten DEF KubeTypeOK
  <2>3. edits' \in 0..MaxEdits
    BY <1>2, LimitsAssumption DEF Update, Edit, KubeTypeOK
  <2> QED
    BY <1>2, <2>2, <2>3, WriteType DEF Update, Edit
<1>3. ASSUME NEW k \in Keys, Delete(k)
      PROVE  KubeTypeOK' /\ UNCHANGED <<loopVars, faults, phase>>
  <2>1. edits' \in 0..MaxEdits
    BY <1>3, LimitsAssumption DEF Delete, Edit, KubeTypeOK
  <2> QED
    BY <1>3, <2>1, WriteType DEF Delete, Edit, Objects
<1> QED
  BY <1>1, <1>2, <1>3 DEF UserStep

\* Whatever path Reconcile takes it keeps the state well formed, and changes the
\* task map and the loops only through the worker operations.
LEMMA ReconcileType ==
  ASSUME TaskInv, KubeTypeOK, LoopTypeOK, FinishReconcile
  PROVE  KubeTypeOK' /\ LoopTypeOK' /\ WorkerStep
<1>0. CASE GetReturns
  BY <1>0, GetType DEF GetReturns, LoopTypeOK, WorkerStep, loopVars, workerVars
<1>1. CASE GetFails
  BY <1>1, EndType, LimitsAssumption DEF GetFails, LoopTypeOK, WorkerStep, loopVars, workerVars
<1>2. CASE ReconcileGone
  <2> PICK r \in request : r.seen = NoObject /\ Stop(NameOf(r.key))
    BY <1>2 DEF ReconcileGone
  <2>1. NameOf(r.key) \in Names
    BY RequestFields, NameOfKey
  <2>2. WorkerStep
    BY <2>1 DEF WorkerStep
  <2>3. loops' = loops
    BY DEF Stop, workerVars
  <2> QED
    BY <1>2, <2>2, <2>3, EndType DEF ReconcileGone, LoopTypeOK
<1>3. CASE ReconcileSkips \/ ReconcileInitFails
  <2>1. UNCHANGED <<workerVars, edits, status, runs, faults, phase>>
        /\ (Forget \/ Requeue)
    BY <1>3 DEF ReconcileSkips, ReconcileInitFails, loopVars
  <2> QED
    BY <2>1, EndType DEF LoopTypeOK, WorkerStep, workerVars
<1>4. CASE ReconcileStarts
  <2> PICK r \in request :
         /\ r.seen # NoObject
         /\ ~Exist(NameOf(r.key))
         /\ AddAndRun(NameOf(r.key), [key |-> r.key, spec |-> r.seen.spec])
    BY <1>4 DEF ReconcileStarts
  <2>1. NameOf(r.key) \in Names
    BY RequestFields, NameOfKey
  <2>2. [key |-> r.key, spec |-> r.seen.spec] \in Jobs
    BY RequestFields, JobsAssumption
  <2>3. WorkerStep
    BY <2>1, <2>2 DEF WorkerStep
  <2>4. Len(loops') = Len(loops) + 1
    BY DEF AddAndRun, TaskInv, WorkersTypeOK
  <2>5. status' \in Seq(Statuses) /\ Len(status') = Len(status) + 1
    BY <1>4, IdleType DEF ReconcileStarts, LoopTypeOK
  <2> QED
    BY <1>4, <2>3, <2>4, <2>5, EndType DEF ReconcileStarts, LoopTypeOK
<1> QED
  BY <1>0, <1>1, <1>2, <1>3, <1>4 DEF FinishReconcile

\* The end of one collection starts a status update and moves only the loop.
LEMMA RunDoneType ==
  ASSUME WorkersTypeOK, LoopTypeOK, NEW i \in DOMAIN loops, RunDone(i)
  PROVE  /\ status' \in Seq(Statuses) /\ Len(status') = Len(loops')
         /\ WorkerStep
<1>1. loops' = loops /\ WorkerStep
  BY DEF RunDone, LoopRunDone, WorkerStep
<1> QED
  BY <1>1, StatusType, IdleType DEF RunDone, LoopTypeOK

\* The steps of a loop.
LEMMA LoopStepType ==
  ASSUME TaskInv, KubeTypeOK, LoopTypeOK, NEW i \in DOMAIN loops, LoopStep(i)
  PROVE  KubeTypeOK' /\ LoopTypeOK' /\ WorkerStep
<1> DEFINE st == status[i]
<1>1. /\ WorkersTypeOK /\ st \in Statuses /\ KeyOf(i) \in Keys
      /\ st.time \in Nat /\ st.tries \in Nat /\ st.got \in Objects
  BY StatusType, KeyOfType DEF TaskInv, Statuses
<1>2. CASE Tick(i)
  <2>1. LoopTop(i) /\ loops' = loops /\ WorkerStep
    BY <1>2 DEF Tick, LoopTop, WorkerStep
  <2>2. [st EXCEPT !.step = "gather"] \in Statuses
    BY <1>1 DEF Statuses, StatusSteps
  <2>3. status' \in Seq(Statuses) /\ Len(status') = Len(status)
    BY <1>1, <1>2, <2>2, StatusType DEF Tick, LoopTypeOK
  <2>4. runs' \in 0..MaxRuns
    BY <1>2, LimitsAssumption DEF Tick, LoopTypeOK
  <2> QED
    BY <1>2, <2>1, <2>3, <2>4
    DEF Tick, LoopTypeOK, KubeTypeOK, OneInHand, kubeVars, objectVars, queueVars
<1>3. CASE GatherDone(i)
  <2>1. runs \in Nat /\ NoObject \in Objects
    BY LimitsAssumption DEF LoopTypeOK, Objects
  <2>2. Attempt("get", runs, 0, NoObject) \in Statuses
    BY <2>1, AttemptType DEF StatusSteps
  <2>3. status' = [status EXCEPT ![i] = Attempt("get", runs, 0, NoObject)]
    BY <1>3 DEF GatherDone
  <2>4. status' \in Seq(Statuses) /\ Len(status') = Len(status)
    BY <1>1, <2>2, <2>3, StatusType
  <2> QED
    BY <1>3, <2>4
    DEF GatherDone, LoopTypeOK, KubeTypeOK, OneInHand, kubeVars, objectVars, queueVars, WorkerStep, workerVars
<1>4. CASE StatusGet(i)
  <2>1. CASE RunDone(i)
    BY <1>1, <1>4, <2>1, RunDoneType
    DEF StatusGet, LoopTypeOK, KubeTypeOK, OneInHand, kubeVars, objectVars, queueVars
  <2>2. CASE /\ status' = [status EXCEPT ![i] =
                    Attempt("put", @.time, @.tries, cache[KeyOf(i)])]
             /\ UNCHANGED workerVars
    <3>1. cache[KeyOf(i)] \in Objects
      BY <1>1 DEF KubeTypeOK
    <3>2. Attempt("put", st.time, st.tries, cache[KeyOf(i)]) \in Statuses
      BY <1>1, <3>1, AttemptType DEF StatusSteps
    <3>4. status' \in Seq(Statuses) /\ Len(status') = Len(status)
      BY <1>1, <2>2, <3>2, StatusType
    <3> QED
      BY <1>4, <2>2, <3>4
      DEF StatusGet, LoopTypeOK, KubeTypeOK, OneInHand, kubeVars, objectVars, queueVars, WorkerStep, workerVars
  <2> QED
    BY <1>4, <2>1, <2>2 DEF StatusGet
<1>5. CASE StatusPut(i)
  <2>1. store[KeyOf(i)] \in Monitors
    BY <1>1, <1>5 DEF StatusPut, KubeTypeOK, Objects
  <2>2. WithPush(store[KeyOf(i)], st.time, version + 1) \in Objects
    <3>1. store[KeyOf(i)].spec \in Specs
      BY <2>1 DEF Monitors
    <3>2. version + 1 \in Nat
      BY DEF KubeTypeOK
    <3> HIDE DEF st
    <3> QED
      BY <1>1, <2>1, <3>1, <3>2, ObjectWritten
  <2>3. edits' \in 0..MaxEdits /\ UNCHANGED <<queueVars, taken, request>>
    BY <1>5 DEF StatusPut, KubeTypeOK
  <2>4. KubeTypeOK'
    BY <1>1, <1>5, <2>2, <2>3, WriteType DEF StatusPut
  <2>5. RunDone(i) /\ UNCHANGED <<runs, faults, phase>>
    BY <1>5 DEF StatusPut
  <2> QED
    BY <1>1, <2>4, <2>5, RunDoneType DEF LoopTypeOK
<1>6. CASE StatusConflict(i)
  <2>1. CASE RunDone(i)
    BY <1>1, <1>6, <2>1, RunDoneType
    DEF StatusConflict, LoopTypeOK, KubeTypeOK, OneInHand, kubeVars, objectVars, queueVars
  <2>2. CASE /\ status' = [status EXCEPT ![i] =
                    Attempt("get", @.time, @.tries + 1, NoObject)]
             /\ UNCHANGED workerVars
    <3>1. st.tries + 1 \in Nat /\ NoObject \in Objects
      BY <1>1 DEF Objects
    <3>2. Attempt("get", st.time, st.tries + 1, NoObject) \in Statuses
      BY <1>1, <3>1, AttemptType DEF StatusSteps
    <3>4. status' \in Seq(Statuses) /\ Len(status') = Len(status)
      BY <1>1, <2>2, <3>2, StatusType
    <3> QED
      BY <1>6, <2>2, <3>4
      DEF StatusConflict, LoopTypeOK, KubeTypeOK, OneInHand, kubeVars, objectVars, queueVars, WorkerStep, workerVars
  <2> QED
    BY <1>6, <2>1, <2>2 DEF StatusConflict
<1>7. CASE StatusFails(i)
  <2>1. faults' \in 0..MaxFaults
    BY <1>7, LimitsAssumption DEF StatusFails, LoopTypeOK
  <2> QED
    BY <1>1, <1>7, <2>1, RunDoneType
    DEF StatusFails, LoopTypeOK, KubeTypeOK, OneInHand, kubeVars, objectVars, queueVars
<1>8. CASE Wait(i)
  BY <1>8 DEF Wait, LoopWait, WorkerStep, LoopTypeOK, KubeTypeOK, OneInHand, kubeVars, objectVars, queueVars
<1> QED
  BY <1>2, <1>3, <1>4, <1>5, <1>6, <1>7, <1>8 DEF LoopStep

\* The inductive invariant of the controller.
ControllerInv == TaskInv /\ KubeTypeOK /\ LoopTypeOK /\ HistoryTypeOK

\* The controller starts with no task, no loop and an empty work queue.
LEMMA ControllerInit == MCInit => ControllerInv
<1> SUFFICES ASSUME MCInit PROVE ControllerInv
  OBVIOUS
<1>1. TaskInv
  <2>1. /\ \A n \in Names : Tasks[n] = NoTask
        /\ loops = <<>> /\ DOMAIN loops = {} /\ ~panicked
    BY DEF MCInit, WorkersInit
  <2>2. WorkersTypeOK
    <3>1. Tasks \in [Names -> Nat \cup {NoTask}]
      BY DEF MCInit, WorkersInit
    <3>2. channels \in Nat /\ closed \subseteq 1..channels /\ panicked \in BOOLEAN
      BY DEF MCInit, WorkersInit
    <3>3. /\ loops \in Seq([name : Names, job : Jobs, ch : Nat])
          /\ lpc \in Seq(LoopStates) /\ Len(lpc) = Len(loops)
      BY DEF MCInit, WorkersInit
    <3> QED
      BY <3>1, <3>2, <3>3 DEF WorkersTypeOK
  <2> QED
    BY <2>1, <2>2 DEF TaskInv, Exist, NoLeakedLoop, NoDoubleClose
<1>2. KubeTypeOK
  BY LimitsAssumption DEF MCInit, KubeInit, KubeTypeOK, OneInHand, Objects
<1>3. LoopTypeOK
  BY LimitsAssumption DEF MCInit, WorkersInit, LoopTypeOK
<1>4. HistoryTypeOK
  BY DEF MCInit, WorkersInit, HistoryTypeOK
<1> QED
  BY <1>1, <1>2, <1>3, <1>4 DEF ControllerInv

\* No loop is ever taken off the list.
LEMMA LoopsGrow ==
  ASSUME WorkersTypeOK, WorkerStep
  PROVE  /\ Len(loops) \in Nat /\ Len(loops') \in Nat /\ Len(loops) <= Len(loops')
         /\ DOMAIN loops \subseteq DOMAIN loops'
         /\ \A i \in DOMAIN loops : loops'[i] = loops[i]
<1>1. loops \in Seq([name : Names, job : Jobs, ch : Nat])
  BY DEF WorkersTypeOK
<1>2. CASE UNCHANGED loops
  BY <1>1, <1>2
<1>3. ASSUME NEW n \in Names, NEW job \in Jobs, ~Exist(n), AddAndRun(n, job)
      PROVE  /\ Len(loops') = Len(loops) + 1
             /\ DOMAIN loops \subseteq DOMAIN loops'
             /\ \A i \in DOMAIN loops : loops'[i] = loops[i]
  <2> DEFINE l == [name |-> n, job |-> job, ch |-> TaskChannel(n)]
  <2>1. loops' = Append(loops, l)
    BY <1>3 DEF AddAndRun
  <2> HIDE DEF l
  <2> QED
    BY <1>1, <2>1
<1>4. CASE \E n \in Names, job \in Jobs : ~Exist(n) /\ AddAndRun(n, job)
  BY <1>1, <1>3, <1>4
<1> QED
  BY <1>2, <1>4 DEF WorkerStep, workerVars, Stop, StopAll, LoopTop, LoopRunDone, LoopWait

\* What a step writes in the history.
HistoryStep ==
  \/ UNCHANGED history
  \/ Cut /\ UNCHANGED wrote
  \/ \E i \in DOMAIN loops, k \in Keys : wrote' = [wrote EXCEPT ![k] = i] /\ UNCHANGED cut

LEMMA HistorySteps ==
  ASSUME WorkersTypeOK, [MCNext]_mcVars PROVE HistoryStep
<1>1. CASE \E i \in DOMAIN loops : StatusPut(i)
  BY <1>1, KeyOfType DEF StatusPut, HistoryStep
<1>2. CASE ~\E i \in DOMAIN loops : StatusPut(i)
  BY <1>2 DEF HistoryStep, history, loopVars, mcVars, MCNext, UserStep, Create, Update,
     Delete, Edit, Deliver, Enqueue, Retry, BeginReconcile, FinishReconcile, GetReturns,
     GetFails, ReconcileGone, ReconcileSkips, ReconcileInitFails, ReconcileStarts, LoopStep,
     Tick, GatherDone, StatusGet, StatusConflict, StatusFails, Wait, Signal, MainReturns,
     MainExits
<1> QED
  BY <1>1, <1>2

LEMMA HistoryType ==
  ASSUME WorkersTypeOK, HistoryTypeOK, HistoryStep, WorkerStep
  PROVE  HistoryTypeOK'
<1>1. /\ Len(loops) \in Nat /\ Len(loops') \in Nat /\ Len(loops) <= Len(loops')
      /\ DOMAIN loops \subseteq DOMAIN loops'
  BY LoopsGrow
<1>2. 0..Len(loops) \subseteq 0..Len(loops') /\ DOMAIN loops \subseteq 0..Len(loops)
  BY <1>1 DEF WorkersTypeOK
<1>3. cut' \subseteq DOMAIN loops
  BY DEF HistoryStep, HistoryTypeOK, Cut, history
<1>4. wrote' \in [Keys -> 0..Len(loops)]
  BY <1>2 DEF HistoryStep, HistoryTypeOK, history
<1> QED
  BY <1>1, <1>2, <1>3, <1>4 DEF HistoryTypeOK

\* Every action of the controller preserves its inductive invariant.
LEMMA ControllerStep ==
  ASSUME ControllerInv, [MCNext]_mcVars
  PROVE  ControllerInv'
<1> SUFFICES KubeTypeOK' /\ LoopTypeOK' /\ WorkerStep
  BY WorkerStepInv, HistorySteps, HistoryType DEF ControllerInv, TaskInv
<1>1. CASE UserStep
  BY <1>1, UserType DEF ControllerInv, LoopTypeOK, WorkerStep, loopVars, workerVars
<1>2. CASE \E k \in Keys : Deliver(k)
  BY <1>2, LearnType DEF Deliver, ControllerInv, LoopTypeOK, WorkerStep, loopVars, workerVars
<1>3. CASE \E k \in Keys : Enqueue(k) \/ Retry(k) \/ BeginReconcile(k)
  <2>1. /\ \E k \in Keys : Notify(k) \/ Ripe(k) \/ Take(k)
        /\ UNCHANGED <<loopVars, edits, faults, phase>>
    BY <1>3 DEF Enqueue, Retry, BeginReconcile
  <2>2. KubeTypeOK'
    BY <2>1, QueueType DEF ControllerInv
  <2> QED
    BY <2>1, <2>2 DEF ControllerInv, LoopTypeOK, WorkerStep, loopVars, workerVars
<1>4. CASE FinishReconcile
  BY <1>4, ReconcileType DEF ControllerInv
<1>5. CASE \E i \in DOMAIN loops : LoopStep(i)
  BY <1>5, LoopStepType DEF ControllerInv
<1>6. CASE Signal \/ MainExits
  BY <1>6 DEF Signal, MainExits, ControllerInv, KubeTypeOK, OneInHand, LoopTypeOK,
              WorkerStep, loopVars, workerVars, kubeVars, objectVars, queueVars
<1>7. CASE MainReturns
  BY <1>7 DEF MainReturns, StopAll, ControllerInv, KubeTypeOK, OneInHand, LoopTypeOK,
              WorkerStep, kubeVars, objectVars, queueVars
<1>8. CASE UNCHANGED mcVars
  BY <1>8 DEF mcVars, ControllerInv, KubeTypeOK, OneInHand, LoopTypeOK, WorkerStep,
              workerVars, kubeVars, objectVars, queueVars
<1> QED
  BY <1>1, <1>2, <1>3, <1>4, <1>5, <1>6, <1>7, <1>8 DEF MCNext

\* In every reachable state of the controller the invariant holds.
LEMMA ControllerAlways == MCSpec => []ControllerInv
<1>1. ControllerInv /\ [MCNext]_mcVars => ControllerInv'
  BY ControllerStep
<1> QED
  BY <1>1, ControllerInit, PTL DEF MCSpec

\* The variables of the Monitor controller and its environment keep their types.
THEOREM MCTypes == MCSpec => []MCTypeOK
<1>1. ASSUME OneInHand PROVE Cardinality(taken) + Cardinality(request) <= 1
  <2>1. \A x : Cardinality({x}) = 1
    BY FS_Singleton
  <2>2. CASE taken = {} /\ request = {}
    BY <2>2, FS_EmptySet
  <2>3. CASE request = {} /\ \E k \in Keys : taken = {k}
    <3>1. PICK k \in Keys : taken = {k}
      BY <2>3
    <3>2. Cardinality(taken) = 1 /\ Cardinality(request) = 0
      BY <2>1, <2>3, <3>1, FS_EmptySet
    <3> QED
      BY <3>2
  <2>4. CASE taken = {} /\ \E r \in request : request = {r}
    <3>1. PICK r \in request : request = {r}
      BY <2>4
    <3>2. Cardinality(request) = 1 /\ Cardinality(taken) = 0
      BY <2>1, <2>4, <3>1, FS_EmptySet
    <3> QED
      BY <3>2
  <2> QED
    BY <1>1, <2>2, <2>3, <2>4 DEF OneInHand
<1>2. ControllerInv => MCTypeOK
  BY <1>1 DEF ControllerInv, TaskInv, KubeTypeOK, LoopTypeOK, HistoryTypeOK, MCTypeOK
<1> QED
  BY <1>2, ControllerAlways, PTL

\* No interleaving of reconciles, deletions and shutdown closes a stop channel
\* twice: worker.Stop and StopAll never panic.
THEOREM ClosedOnce == MCSpec => []NoDoubleClose
<1>1. ControllerInv => NoDoubleClose
  BY DEF ControllerInv, TaskInv
<1> QED
  BY <1>1, ControllerAlways, PTL

\* A collection loop that was not told to stop is in the task table, so that
\* deleting its Monitor stops it.
THEOREM NoneLeaked == MCSpec => []NoLeakedLoop
<1>1. ControllerInv => NoLeakedLoop
  BY DEF ControllerInv, TaskInv
<1> QED
  BY <1>1, ControllerAlways, PTL

\* A Monitor's name never has two loops that both go on.
THEOREM OneLoop == MCSpec => []OneLoopPerName
<1>1. ControllerInv => OneLoopPerName
  BY DEF ControllerInv, TaskInv, NoLeakedLoop, OneLoopPerName
<1> QED
  BY <1>1, ControllerAlways, PTL

-------------------------------------------------------------------------------
(***************************************************************************)
(* The task table follows the Monitors.                                     *)
(***************************************************************************)

\* A key that is neither queued nor in Reconcile has a task exactly if the cache
\* has the object: every other way out of Reconcile queues the key again.
TasksFollowCache ==
  phase = "up" =>
    \A k \in Keys : Reconciled(k) => (Exist(NameOf(k)) <=> cache[k] # NoObject)

FollowInv == Followed /\ TasksFollowCache

\* The task table is keyed by the name alone: two namespaces must not share one.
NamesUnshared == \A k, l \in Keys : NameOf(k) = NameOf(l) => k = l

\* A step that writes the store and leaves the rest of it alone.
LEMMA WriteFollows ==
  ASSUME KubeTypeOK, FollowInv, NEW k \in Keys, NEW o \in Objects, Write(k, o),
         UNCHANGED <<queueVars, taken, request, Tasks, phase>>
  PROVE  FollowInv'
<1>1. Followed' /\ UNCHANGED cache /\ \A l \in Keys : Reconciled(l)' <=> Reconciled(l)
  BY WriteFollowed DEF KubeTypeOK, FollowInv
<1> QED
  BY <1>1 DEF FollowInv, TasksFollowCache, Exist

\* A step outside of Kubernetes and the reconciler.
LEMMA ApartFollows ==
  ASSUME FollowInv, UNCHANGED <<kubeVars, Tasks>>, phase' = "up" => phase = "up"
  PROVE  FollowInv'
<1>1. UNCHANGED <<store, events, cache, notices, dirty, delayed, taken, request>>
  BY DEF kubeVars, objectVars, queueVars
<1>2. Followed'
  BY <1>1 DEF FollowInv, Followed, Informed, OneRequest, FreshRequest
<1> QED
  BY <1>1, <1>2 DEF FollowInv, TasksFollowCache, Reconciled, Pending, Exist

\* The state an object is in after a user's edit.
LEMMA EditWrites ==
  ASSUME KubeTypeOK, NEW k \in Keys,
         (\E s \in Specs : Create(k, s) \/ Update(k, s)) \/ Delete(k)
  PROVE  \E o \in Objects : /\ Write(k, o)
                            /\ UNCHANGED <<loopVars, queueVars, taken, request, phase>>
                            /\ \/ store[k] = NoObject /\ o.push = 0
                               \/ o = NoObject
                               \/ store[k] # NoObject /\ o.push = store[k].push
<1>1. ASSUME NEW s \in Specs, Create(k, s)
      PROVE  \E o \in Objects : /\ Edit(k, o) /\ store[k] = NoObject /\ o.push = 0
  <2> DEFINE o == [uid |-> version + 1, rv |-> version + 1, spec |-> s, push |-> 0]
  <2>1. Edit(k, o) /\ store[k] = NoObject
    BY <1>1 DEF Create
  <2>2. o \in Objects /\ o.push = 0
    BY DEF KubeTypeOK, Objects, Monitors
  <2> QED
    BY <2>1, <2>2
<1>2. ASSUME NEW s \in Specs, Update(k, s)
      PROVE  \E o \in Objects : /\ Edit(k, o) /\ store[k] # NoObject
                                /\ o.push = store[k].push
  <2>1. store[k] \in Monitors
    BY <1>2 DEF Update, KubeTypeOK, Objects
  <2>2. WithSpec(store[k], s, version + 1) \in Objects
    BY <2>1, ObjectWritten DEF KubeTypeOK
  <2>3. WithSpec(store[k], s, version + 1).push = store[k].push
    BY DEF WithSpec
  <2> QED
    BY <1>2, <2>2, <2>3 DEF Update
<1>3. Delete(k) => Edit(k, NoObject) /\ NoObject \in Objects
  BY DEF Delete, Objects
<1> QED
  BY <1>1, <1>2, <1>3 DEF Edit

\* Reconcile ends, and has changed no task but that of its own name.
LEMMA EndFollows ==
  ASSUME NamesUnshared, KubeTypeOK, FollowInv, NEW r \in request,
         UNCHANGED phase,
         \A n \in Names : n # NameOf(r.key) => Tasks'[n] = Tasks[n],
         Requeue \/ (Forget /\ (Exist(NameOf(r.key))' <=> r.seen # NoObject))
  PROVE  FollowInv'
<1>1. /\ Followed' /\ UNCHANGED cache
      /\ \A l \in Keys : Reconciled(l)' =>
           \/ Reconciled(l)
           \/ l = r.key /\ r.seen = cache[l] /\ Forget
      /\ Requeue => ~Reconciled(r.key)'
  BY EndFollowed DEF FollowInv
<1>2. r.key \in Keys
  BY RequestFields
<1>3. ASSUME phase = "up", NEW l \in Keys, Reconciled(l)'
      PROVE  Exist(NameOf(l))' <=> cache'[l] # NoObject
  <2>1. CASE l = r.key
    <3>1. ~Reconciled(l)
      BY <2>1 DEF Reconciled, Pending
    <3>2. r.seen = cache[l] /\ ~Requeue
      BY <1>1, <1>3, <2>1, <3>1
    <3> QED
      BY <1>1, <2>1, <3>2
  <2>2. CASE l # r.key
    <3>1. NameOf(l) # NameOf(r.key) /\ NameOf(l) \in Names
      BY <1>2, <2>2, NameOfKey DEF NamesUnshared
    <3>2. Exist(NameOf(l))' <=> Exist(NameOf(l))
      BY <3>1 DEF Exist
    <3> QED
      BY <1>1, <1>3, <2>2, <3>2 DEF FollowInv, TasksFollowCache
  <2> QED
    BY <2>1, <2>2
<1> QED
  BY <1>1, <1>3 DEF FollowInv, TasksFollowCache

\* The work queue and Reconcile's Get.
LEMMA QueueFollows ==
  ASSUME FollowInv, UNCHANGED <<Tasks, phase>>,
         \/ \E k \in Keys : Notify(k) \/ Ripe(k) \/ Take(k)
         \/ Get
         \/ taken # {} /\ Requeue
  PROVE  FollowInv'
<1>1. /\ Followed' /\ UNCHANGED cache
      /\ \A l \in Keys : Reconciled(l)' => Reconciled(l)
  BY QueueFollowed, TakeFollowed, GetFailsFollowed DEF FollowInv
<1> QED
  BY <1>1 DEF FollowInv, TasksFollowCache, Exist

LEMMA FinishFollows ==
  ASSUME NamesUnshared, ControllerInv, FollowInv, FinishReconcile
  PROVE  FollowInv'
<1>1. KubeTypeOK /\ WorkersTypeOK /\ Tasks \in [Names -> Nat \cup {NoTask}]
  BY DEF ControllerInv, TaskInv, WorkersTypeOK
<1>2. CASE ReconcileInitFails
  <2>1. request # {} /\ Requeue /\ UNCHANGED <<Tasks, phase>>
    BY <1>2 DEF ReconcileInitFails, loopVars, workerVars
  <2> QED
    BY <1>1, <2>1, EndFollows
<1>6. CASE GetReturns \/ GetFails
  BY <1>6, QueueFollows DEF GetReturns, GetFails, loopVars, workerVars
<1>3. CASE ReconcileGone
  <2>1. PICK r \in request : r.seen = NoObject /\ Stop(NameOf(r.key))
    BY <1>3 DEF ReconcileGone
  <2>2. NameOf(r.key) \in Names
    BY <1>1, RequestFields, NameOfKey
  <2>3. /\ \A n \in Names : n # NameOf(r.key) => Tasks'[n] = Tasks[n]
        /\ Tasks'[NameOf(r.key)] = NoTask
    BY <1>1, <2>1, <2>2 DEF Stop, Exist, workerVars
  <2>4. Forget /\ UNCHANGED phase
    BY <1>3 DEF ReconcileGone
  <2> QED
    BY <1>1, <2>1, <2>3, <2>4, EndFollows DEF Exist
<1>4. CASE ReconcileSkips
  <2>1. PICK r \in request : r.seen # NoObject /\ Exist(NameOf(r.key))
    BY <1>4 DEF ReconcileSkips
  <2>2. Forget /\ UNCHANGED <<Tasks, phase>>
    BY <1>4 DEF ReconcileSkips, loopVars, workerVars
  <2> QED
    BY <1>1, <2>1, <2>2, EndFollows DEF Exist
<1>5. CASE ReconcileStarts
  <2>1. PICK r \in request :
          /\ r.seen # NoObject
          /\ ~Exist(NameOf(r.key))
          /\ AddAndRun(NameOf(r.key), [key |-> r.key, spec |-> r.seen.spec])
    BY <1>5 DEF ReconcileStarts
  <2>2. NameOf(r.key) \in Names
    BY <1>1, RequestFields, NameOfKey
  <2>3. /\ \A n \in Names : n # NameOf(r.key) => Tasks'[n] = Tasks[n]
        /\ Tasks'[NameOf(r.key)] = channels + 1
    BY <1>1, <2>1, <2>2 DEF AddAndRun, TaskChannel
  <2>4. channels + 1 # NoTask
    BY <1>1, NoTaskAssumption DEF WorkersTypeOK
  <2>5. Forget /\ UNCHANGED phase
    BY <1>5 DEF ReconcileStarts
  <2> QED
    BY <1>1, <2>1, <2>3, <2>4, <2>5, EndFollows DEF Exist
<1> QED
  BY <1>2, <1>3, <1>4, <1>5, <1>6 DEF FinishReconcile

\* A loop touches Kubernetes only with its status update.
LEMMA LoopFollows ==
  ASSUME ControllerInv, FollowInv, NEW i \in DOMAIN loops, LoopStep(i)
  PROVE  FollowInv'
<1>1. /\ KubeTypeOK /\ KeyOf(i) \in Keys
      /\ status[i] \in Statuses /\ status[i].time \in Nat
  BY KeyOfType, StatusType DEF ControllerInv, TaskInv, Statuses
<1>2. CASE StatusPut(i)
  <2>1. /\ Write(KeyOf(i), WithPush(store[KeyOf(i)], status[i].time, version + 1))
        /\ store[KeyOf(i)] # NoObject
        /\ UNCHANGED <<queueVars, taken, request, Tasks, phase>>
    BY <1>2 DEF StatusPut, RunDone, LoopRunDone
  <2>2. store[KeyOf(i)] \in Monitors /\ version + 1 \in Nat
    BY <1>1, <2>1 DEF KubeTypeOK, Objects
  <2>3. store[KeyOf(i)].spec \in Specs
    BY <2>2 DEF Monitors
  <2>4. WithPush(store[KeyOf(i)], status[i].time, version + 1) \in Objects
    BY <1>1, <2>2, <2>3, ObjectWritten
  <2> QED
    BY <1>1, <2>1, <2>4, WriteFollows
<1>3. CASE ~StatusPut(i)
  BY <1>3, ApartFollows DEF LoopStep, Tick, LoopTop, GatherDone, StatusGet,
     StatusConflict, StatusFails, RunDone, LoopRunDone, Wait, LoopWait, workerVars
<1> QED
  BY <1>2, <1>3

LEMMA FollowStep ==
  ASSUME NamesUnshared, ControllerInv, FollowInv, [MCNext]_mcVars
  PROVE  FollowInv'
<1>1. CASE UserStep
  BY <1>1, EditWrites, WriteFollows DEF UserStep, ControllerInv, loopVars, workerVars
<1>2. ASSUME NEW k \in Keys, Deliver(k) PROVE FollowInv'
  <2>1. /\ Followed'
        /\ \A l \in Keys : Reconciled(l)' => Reconciled(l) /\ cache'[l] = cache[l]
    BY <1>2, LearnFollowed DEF Deliver, ControllerInv, KubeTypeOK, FollowInv
  <2> QED
    BY <1>2, <2>1 DEF Deliver, FollowInv, TasksFollowCache, Exist, loopVars, workerVars
<1>3. CASE \E k \in Keys : Enqueue(k) \/ Retry(k) \/ BeginReconcile(k)
  BY <1>3, QueueFollows DEF Enqueue, Retry, BeginReconcile, loopVars, workerVars
<1>4. CASE FinishReconcile
  BY <1>4, FinishFollows
<1>5. CASE \E i \in DOMAIN loops : LoopStep(i)
  BY <1>5, LoopFollows
<1>6. CASE Signal \/ MainExits
  BY <1>6, ApartFollows DEF Signal, MainExits, loopVars, workerVars
<1>7. CASE MainReturns
  <2>1. Followed'
    BY <1>7 DEF MainReturns, kubeVars, objectVars, queueVars, FollowInv, Followed,
                Informed, OneRequest, FreshRequest
  <2> QED
    BY <1>7, <2>1 DEF MainReturns, FollowInv, TasksFollowCache
<1>8. CASE UNCHANGED mcVars
  BY <1>8, ApartFollows DEF mcVars, workerVars
<1> QED
  BY <1>1, <1>2, <1>3, <1>4, <1>5, <1>6, <1>7, <1>8 DEF MCNext

\* When every event was delivered and every key reconciled, a name has a task
\* exactly if its Monitor exists: stale reads, skipped states, failing Gets and
\* configurations that InitConfig refuses leave no other trace.
THEOREM TasksSettle ==
  ASSUME NamesUnshared PROVE MCSpec => []SettledTasks
<1>1. MCInit => FollowInv
  <2> SUFFICES ASSUME MCInit PROVE FollowInv
    OBVIOUS
  <2>1. \A k \in Keys : ~Exist(NameOf(k)) /\ cache[k] = NoObject
    BY NameOfKey DEF MCInit, WorkersInit, KubeInit, Exist
  <2> QED
    BY <2>1, FollowedInit DEF MCInit, FollowInv, TasksFollowCache
<1>2. ControllerInv /\ FollowInv /\ [MCNext]_mcVars => FollowInv'
  BY FollowStep
<1>3. MCSpec => []FollowInv
  BY <1>1, <1>2, ControllerAlways, PTL DEF MCSpec
<1>4. FollowInv => SettledTasks
  BY DEF FollowInv, TasksFollowCache, Reconciled, Followed, Informed, Quiet, SettledTasks
<1> QED
  BY <1>3, <1>4, PTL

-------------------------------------------------------------------------------
(***************************************************************************)
(* status.lastPush.                                                         *)
(***************************************************************************)

\* A loop is in the table under the name of the Monitor it collects for.
NamedByKey == \A i \in DOMAIN loops : loops[i].name = NameOf(KeyOf(i))

\* pushTime was read from the clock.
TimesPast == \A i \in DOMAIN loops : status[i].time <= runs

\* A run that goes on in a loop that was told to stop is one that was cut.
CutRuns == \A i \in DOMAIN loops : lpc[i] = "run" /\ Closed(i) => i \in cut

\* The loop is about to write a time of t or later, if it writes at all.
NotBefore(st, t) == st.step \in {"get", "put"} => st.time >= t

\* The lastPush of an object was written by one of its loops, and what that loop
\* is about to write is not earlier; if it was stopped between two runs, neither
\* is what its successor writes.
PushedBy ==
  \A k \in Keys :
    store[k] # NoObject /\ store[k].push > 0 =>
      /\ store[k].push <= runs
      /\ wrote[k] \in DOMAIN loops
      /\ KeyOf(wrote[k]) = k
      /\ NotBefore(status[wrote[k]], store[k].push)
      /\ Closed(wrote[k]) /\ wrote[k] \notin cut =>
           \A i \in DOMAIN loops :
             KeyOf(i) = k /\ ~Closed(i) => NotBefore(status[i], store[k].push)

PushInv == NamedByKey /\ TimesPast /\ PushedBy

-------------------------------------------------------------------------------
(* CutRuns is kept: a loop enters its function only with an open channel, and  *)
(* the steps that close channels record the runs they cut.                     *)
LEMMA CutKept ==
  ASSUME WorkersTypeOK, CutRuns,
         \/ UNCHANGED <<loops, lpc>> /\ Cut
         \/ UNCHANGED <<closed, cut, loops>>
            /\ \A i \in DOMAIN loops : lpc'[i] = "run" => lpc[i] = "run" \/ ~Closed(i)
         \/ UNCHANGED <<closed, cut>>
            /\ \E n \in Names, job \in Jobs : AddAndRun(n, job)
  PROVE  CutRuns'
<1>1. CASE UNCHANGED <<loops, lpc>> /\ Cut
  BY <1>1 DEF CutRuns, Cut, Closed
<1>2. CASE /\ UNCHANGED <<closed, cut, loops>>
           /\ \A i \in DOMAIN loops : lpc'[i] = "run" => lpc[i] = "run" \/ ~Closed(i)
  BY <1>2 DEF CutRuns, Closed
<1>3. ASSUME NEW n \in Names, NEW job \in Jobs, AddAndRun(n, job), UNCHANGED <<closed, cut>>
      PROVE  CutRuns'
  <2> DEFINE l == [name |-> n, job |-> job, ch |-> TaskChannel(n)]
             m == Len(loops) + 1
  <2>1. loops' = Append(loops, l) /\ lpc' = Append(lpc, "top")
    BY <1>3 DEF AddAndRun
  <2> HIDE DEF l
  <2>2. /\ DOMAIN loops' = DOMAIN loops \cup {m} /\ lpc'[m] = "top"
        /\ \A i \in DOMAIN loops : loops'[i] = loops[i] /\ lpc'[i] = lpc[i]
    BY <2>1 DEF WorkersTypeOK
  <2> QED
    BY <1>3, <2>2 DEF CutRuns, Closed
<1> QED
  BY <1>1, <1>2, <1>3

LEMMA CutStep ==
  ASSUME ControllerInv, CutRuns, [MCNext]_mcVars PROVE CutRuns'
<1>1. WorkersTypeOK
  BY DEF ControllerInv, TaskInv
<1>2. CASE ReconcileGone \/ MainReturns
  BY <1>1, <1>2, CutKept DEF ReconcileGone, MainReturns, Stop, StopAll, workerVars
<1>3. CASE ReconcileStarts
  <2>1. PICK r \in request :
          AddAndRun(NameOf(r.key), [key |-> r.key, spec |-> r.seen.spec]) /\ r.seen # NoObject
    BY <1>3 DEF ReconcileStarts
  <2>2. NameOf(r.key) \in Names /\ [key |-> r.key, spec |-> r.seen.spec] \in Jobs
    BY <2>1, RequestFields, NameOfKey, JobsAssumption DEF ControllerInv
  <2>3. UNCHANGED <<closed, cut>>
    BY <1>3, <2>1 DEF ReconcileStarts, AddAndRun, history
  <2> QED
    BY <1>1, <2>1, <2>2, <2>3, CutKept
<1>4. ASSUME NEW i \in DOMAIN loops, LoopStep(i) PROVE CutRuns'
  <2>1. UNCHANGED <<closed, cut, loops>>
    BY <1>4 DEF LoopStep, Tick, LoopTop, GatherDone, StatusGet, StatusPut, StatusConflict,
       StatusFails, RunDone, LoopRunDone, Wait, LoopWait, workerVars, history
  <2>2. UNCHANGED lpc \/ LoopTop(i) \/ LoopRunDone(i) \/ LoopWait(i)
    BY <1>4 DEF LoopStep, Tick, GatherDone, StatusGet, StatusPut, StatusConflict,
       StatusFails, RunDone, Wait, workerVars
  <2>3. \A j \in DOMAIN loops : lpc'[j] = "run" => lpc[j] = "run" \/ ~Closed(j)
    <3>1. \/ UNCHANGED lpc
          \/ Closed(i) /\ lpc' = [lpc EXCEPT ![i] = "exit"]
          \/ ~Closed(i) /\ lpc' = [lpc EXCEPT ![i] = "run"]
          \/ lpc' = [lpc EXCEPT ![i] = "wait"]
          \/ lpc' = [lpc EXCEPT ![i] = "top"]
      BY <2>2 DEF LoopTop, LoopRunDone, LoopWait
    <3>2. i \in DOMAIN lpc /\ \A j \in DOMAIN loops : j \in DOMAIN lpc
      BY <1>1 DEF WorkersTypeOK
    <3> QED
      BY <3>1, <3>2
  <2> QED
    BY <1>1, <2>1, <2>3, CutKept
<1>5. CASE ~(\/ ReconcileGone \/ MainReturns \/ ReconcileStarts
             \/ \E i \in DOMAIN loops : LoopStep(i))
  <2>1. UNCHANGED <<closed, cut, loops, lpc>>
    BY <1>5 DEF MCNext, mcVars, UserStep, Create, Update, Delete, Edit, Deliver, Enqueue,
       Retry, BeginReconcile, FinishReconcile, GetReturns, GetFails, ReconcileSkips,
       ReconcileInitFails, Signal, MainExits, loopVars, workerVars, history
  <2> QED
    BY <1>1, <2>1, CutKept
<1> QED
  BY <1>2, <1>3, <1>4, <1>5

LEMMA CutAlways == MCSpec => []CutRuns
<1>1. MCInit => CutRuns
  BY DEF MCInit, WorkersInit, CutRuns
<1>2. ControllerInv /\ CutRuns /\ [MCNext]_mcVars => CutRuns'
  BY CutStep
<1> QED
  BY <1>1, <1>2, ControllerAlways, PTL DEF MCSpec

-------------------------------------------------------------------------------
\* The parts of a status record.
LEMMA StatusFields ==
  ASSUME ControllerInv, NEW i \in DOMAIN loops
  PROVE  /\ status[i] \in Statuses /\ i \in DOMAIN status
         /\ status[i].time \in Nat /\ status[i].tries \in Nat
         /\ runs \in Nat /\ KeyOf(i) \in Keys
BY StatusType, KeyOfType, LimitsAssumption
DEF ControllerInv, TaskInv, Statuses, LoopTypeOK

LEMMA AttemptFields ==
  ASSUME NEW step, NEW time, NEW tries, NEW got
  PROVE  /\ Attempt(step, time, tries, got).step = step
         /\ Attempt(step, time, tries, got).time = time
BY DEF Attempt

\* Objects that keep their lastPush, are gone or have none; loops may be told to
\* stop.  A loop that is told to stop now had no other beside it.
LEMMA StoreKeepsPush ==
  ASSUME ControllerInv, PushInv, UNCHANGED <<loops, status, runs, wrote>>,
         closed \subseteq closed', cut \subseteq cut',
         \A k \in Keys : \/ store'[k] = NoObject
                         \/ store'[k].push = 0
                         \/ store[k] # NoObject /\ store'[k].push = store[k].push
  PROVE  PushInv'
<1>1. NamedByKey' /\ TimesPast'
  BY DEF PushInv, NamedByKey, TimesPast, KeyOf
<1>2. PushedBy'
  <2> SUFFICES ASSUME NEW k \in Keys, store'[k] # NoObject, store'[k].push > 0
               PROVE  /\ store'[k].push <= runs
                      /\ wrote[k] \in DOMAIN loops
                      /\ KeyOf(wrote[k]) = k
                      /\ NotBefore(status[wrote[k]], store'[k].push)
                      /\ loops[wrote[k]].ch \in closed' /\ wrote[k] \notin cut' =>
                           \A i \in DOMAIN loops :
                             KeyOf(i) = k /\ loops[i].ch \notin closed'
                               => NotBefore(status[i], store'[k].push)
    BY DEF PushedBy, KeyOf, Closed
  <2>1. store[k] # NoObject /\ store'[k].push = store[k].push /\ store[k].push > 0
    BY SMT
  <2>2. /\ store[k].push <= runs /\ wrote[k] \in DOMAIN loops /\ KeyOf(wrote[k]) = k
        /\ NotBefore(status[wrote[k]], store[k].push)
        /\ Closed(wrote[k]) /\ wrote[k] \notin cut =>
             \A i \in DOMAIN loops :
               KeyOf(i) = k /\ ~Closed(i) => NotBefore(status[i], store[k].push)
    BY <2>1 DEF PushInv, PushedBy
  <2>3. ASSUME NEW i \in DOMAIN loops, KeyOf(i) = k, loops[i].ch \notin closed',
               loops[wrote[k]].ch \in closed', wrote[k] \notin cut'
        PROVE  NotBefore(status[i], store[k].push)
    <3>1. ~Closed(i) /\ i # wrote[k] /\ loops[i].name = loops[wrote[k]].name
      BY <2>2, <2>3 DEF Closed, PushInv, NamedByKey
    <3>2. Closed(wrote[k])
      BY <2>2, <3>1 DEF ControllerInv, TaskInv, NoLeakedLoop
    <3> QED
      BY <2>2, <2>3, <3>1, <3>2
  <2> QED
    BY <2>1, <2>2, <2>3
<1> QED
  BY <1>1, <1>2 DEF PushInv

LEMMA StoreSame ==
  ASSUME ControllerInv, PushInv, UNCHANGED <<store, loops, status, runs, wrote>>,
         closed \subseteq closed', cut \subseteq cut'
  PROVE  PushInv' /\ UNCHANGED store
BY StoreKeepsPush

\* The run of a loop goes on and the store is left alone: a new time is the
\* clock's, and a time that is kept was kept before.
LEMMA RunGoesOn ==
  ASSUME ControllerInv, PushInv, NEW i \in DOMAIN loops,
         UNCHANGED <<loops, store, closed, history>>,
         runs' \in Nat, runs' >= runs,
         \A j \in DOMAIN loops : j # i => status'[j] = status[j],
         \/ status'[i].step \notin {"get", "put"} /\ status'[i].time \in {0, status[i].time}
         \/ status'[i].time = runs
         \/ status[i].step \in {"get", "put"} /\ status'[i].time = status[i].time
  PROVE  PushInv'
<1>1. \A j \in DOMAIN loops : status[j].time \in Nat /\ runs \in Nat
  BY StatusFields
<1>2. NamedByKey'
  BY DEF PushInv, NamedByKey, KeyOf
<1>3. TimesPast'
  BY <1>1 DEF PushInv, TimesPast
<1>4. \A k \in Keys : store[k] # NoObject => store[k].push \in Nat
  BY DEF ControllerInv, KubeTypeOK, Objects, Monitors
<1>5. ASSUME NEW t \in Nat, t <= runs, NEW j \in DOMAIN loops, NotBefore(status[j], t)
      PROVE  NotBefore(status'[j], t)
  BY <1>1, <1>5 DEF NotBefore
<1>6. PushedBy'
  <2> SUFFICES ASSUME NEW k \in Keys, store[k] # NoObject, store[k].push > 0
               PROVE  /\ store[k].push <= runs'
                      /\ wrote[k] \in DOMAIN loops
                      /\ KeyOf(wrote[k]) = k
                      /\ NotBefore(status'[wrote[k]], store[k].push)
                      /\ Closed(wrote[k]) /\ wrote[k] \notin cut =>
                           \A j \in DOMAIN loops :
                             KeyOf(j) = k /\ ~Closed(j)
                               => NotBefore(status'[j], store[k].push)
    BY DEF PushedBy, KeyOf, Closed, history
  <2>1. /\ store[k].push <= runs /\ wrote[k] \in DOMAIN loops /\ KeyOf(wrote[k]) = k
        /\ NotBefore(status[wrote[k]], store[k].push)
        /\ Closed(wrote[k]) /\ wrote[k] \notin cut =>
             \A j \in DOMAIN loops :
               KeyOf(j) = k /\ ~Closed(j) => NotBefore(status[j], store[k].push)
    BY DEF PushInv, PushedBy
  <2>2. store[k].push <= runs'
    BY <1>1, <1>4, <2>1
  <2> QED
    BY <1>4, <1>5, <2>1, <2>2
<1> QED
  BY <1>2, <1>3, <1>6 DEF PushInv

\* The end of a run, in UpdateStatus or before it.
LEMMA RunEnds ==
  ASSUME ControllerInv, NEW i \in DOMAIN loops, RunDone(i)
  PROVE  /\ UNCHANGED <<loops, closed>> /\ lpc[i] = "run"
         /\ status'[i].step = "no" /\ status'[i].time = 0
         /\ \A j \in DOMAIN loops : j # i => status'[j] = status[j]
<1>1. status' = [status EXCEPT ![i] = Idle] /\ UNCHANGED <<loops, closed>> /\ lpc[i] = "run"
  BY DEF RunDone, LoopRunDone
<1>2. \A j \in DOMAIN loops : j \in DOMAIN status
  BY StatusFields
<1> QED
  BY <1>1, <1>2, AttemptFields DEF Idle

\* Status().Update is accepted: the object's lastPush is the time of this run.
LEMMA PutStep ==
  ASSUME ControllerInv, CutRuns, PushInv, NEW i \in DOMAIN loops, StatusPut(i)
  PROVE  /\ PushInv'
         /\ \A k \in Keys : k # KeyOf(i) => store'[k] = store[k]
         /\ store'[KeyOf(i)].push = status[i].time
         /\ wrote'[KeyOf(i)] = i
<1> DEFINE k == KeyOf(i)
<1>1. /\ store[k] # NoObject /\ RunDone(i) /\ UNCHANGED <<runs, cut>>
      /\ store' = [store EXCEPT ![k] = WithPush(store[k], status[i].time, version + 1)]
      /\ wrote' = [wrote EXCEPT ![k] = i]
  BY DEF StatusPut, Write
<1>2. k \in Keys /\ store \in [Keys -> Objects] /\ status[i].time \in Nat /\ runs \in Nat
  BY StatusFields DEF ControllerInv, KubeTypeOK
<1>3. /\ store'[k].push = status[i].time
      /\ \A l \in Keys : l # k => store'[l] = store[l]
  BY <1>1, <1>2 DEF WithPush
<1>4. /\ UNCHANGED <<loops, closed>> /\ lpc[i] = "run"
      /\ status'[i].step = "no" /\ status'[i].time = 0
      /\ \A j \in DOMAIN loops : j # i => status'[j] = status[j]
  BY <1>1, RunEnds
<1>5. NamedByKey' /\ TimesPast'
  BY <1>1, <1>2, <1>4 DEF PushInv, NamedByKey, TimesPast, KeyOf
<1>6. wrote'[k] = i /\ \A l \in Keys : l # k => wrote'[l] = wrote[l]
  BY <1>1, <1>2 DEF ControllerInv, HistoryTypeOK
<1>7. \A j \in DOMAIN loops, t \in Nat : NotBefore(status[j], t) => NotBefore(status'[j], t)
  BY <1>4 DEF NotBefore
<1>8. Closed(i) => i \in cut
  BY <1>4 DEF CutRuns
<1>9. PushedBy'
  <2> SUFFICES ASSUME NEW l \in Keys, store'[l] # NoObject, store'[l].push > 0
               PROVE  /\ store'[l].push <= runs
                      /\ wrote'[l] \in DOMAIN loops
                      /\ KeyOf(wrote'[l]) = l
                      /\ NotBefore(status'[wrote'[l]], store'[l].push)
                      /\ Closed(wrote'[l]) /\ wrote'[l] \notin cut =>
                           \A j \in DOMAIN loops :
                             KeyOf(j) = l /\ ~Closed(j)
                               => NotBefore(status'[j], store'[l].push)
    BY <1>1, <1>4 DEF PushedBy, KeyOf, Closed
  <2>1. CASE l = k
    <3>1. store'[l].push <= runs
      BY <1>2, <1>3, <2>1 DEF PushInv, TimesPast
    <3> QED
      BY <1>4, <1>6, <1>8, <2>1, <3>1 DEF NotBefore
  <2>2. CASE l # k
    <3>1. store'[l] = store[l] /\ wrote'[l] = wrote[l]
      BY <1>3, <1>6, <2>2
    <3>2. store[l].push \in Nat
      BY <3>1 DEF ControllerInv, KubeTypeOK, Objects, Monitors
    <3>3. /\ store[l].push <= runs /\ wrote[l] \in DOMAIN loops /\ KeyOf(wrote[l]) = l
          /\ NotBefore(status[wrote[l]], store[l].push)
          /\ Closed(wrote[l]) /\ wrote[l] \notin cut =>
               \A j \in DOMAIN loops :
                 KeyOf(j) = l /\ ~Closed(j) => NotBefore(status[j], store[l].push)
      BY <3>1 DEF PushInv, PushedBy
    <3> QED
      BY <1>7, <3>1, <3>2, <3>3
  <2> QED
    BY <2>1, <2>2
<1> QED
  BY <1>3, <1>5, <1>6, <1>9 DEF PushInv

LEMMA LoopKeepsPush ==
  ASSUME ControllerInv, PushInv, NEW i \in DOMAIN loops, LoopStep(i), ~StatusPut(i)
  PROVE  PushInv' /\ UNCHANGED store
<1>1. /\ status[i] \in Statuses /\ status[i].time \in Nat /\ runs \in Nat
      /\ \A j \in DOMAIN loops : j \in DOMAIN status
  BY StatusFields
<1>2. ASSUME RunDone(i), UNCHANGED <<store, runs, history>> PROVE PushInv' /\ UNCHANGED store
  BY <1>1, <1>2, RunEnds, RunGoesOn
<1>3. ASSUME UNCHANGED <<loops, store, closed, history, runs>>,
             \A j \in DOMAIN loops : j # i => status'[j] = status[j],
             \/ status'[i].time = runs
             \/ status[i].step \in {"get", "put"} /\ status'[i].time = status[i].time
      PROVE  PushInv' /\ UNCHANGED store
  BY <1>1, <1>3, RunGoesOn
<1>4. CASE Tick(i)
  <2>1. UNCHANGED <<store, loops, closed, history>>
    BY <1>4 DEF Tick, LoopTop, kubeVars, objectVars
  <2>2. CASE Closed(i)
    BY <1>4, <2>1, <2>2, StoreSame DEF Tick, history
  <2>3. CASE ~Closed(i)
    <3>1. status' = [status EXCEPT ![i].step = "gather"] /\ runs' = runs + 1
      BY <1>4, <2>3 DEF Tick
    <3>2. status'[i].step = "gather" /\ status'[i].time = status[i].time
      BY <1>1, <3>1 DEF Statuses
    <3>3. \A j \in DOMAIN loops : j # i => status'[j] = status[j]
      BY <1>1, <3>1
    <3> QED
      BY <1>1, <2>1, <3>1, <3>2, <3>3, RunGoesOn
  <2> QED
    BY <2>2, <2>3
<1>5. CASE GatherDone(i)
  <2>1. /\ status' = [status EXCEPT ![i] = Attempt("get", runs, 0, NoObject)]
        /\ UNCHANGED <<loops, store, closed, history, runs>>
    BY <1>5 DEF GatherDone, workerVars, kubeVars, objectVars
  <2>2. status'[i].time = runs /\ \A j \in DOMAIN loops : j # i => status'[j] = status[j]
    BY <1>1, <2>1, AttemptFields
  <2> QED
    BY <1>3, <2>1, <2>2
<1>6. CASE StatusGet(i)
  <2>1. status[i].step = "get" /\ UNCHANGED <<store, runs, history>>
    BY <1>6 DEF StatusGet, kubeVars, objectVars
  <2>2. CASE RunDone(i)
    BY <1>2, <2>1, <2>2
  <2>3. CASE ~RunDone(i)
    <3>1. /\ status' = [status EXCEPT ![i] = Attempt("put", status[i].time,
                          status[i].tries, cache[KeyOf(i)])]
          /\ UNCHANGED <<loops, closed>>
      BY <1>6, <2>3 DEF StatusGet, workerVars
    <3>2. /\ status'[i].time = status[i].time
          /\ \A j \in DOMAIN loops : j # i => status'[j] = status[j]
      BY <1>1, <3>1, AttemptFields
    <3> QED
      BY <1>3, <2>1, <3>1, <3>2
  <2> QED
    BY <2>2, <2>3
<1>7. CASE StatusConflict(i)
  <2>1. status[i].step = "put" /\ UNCHANGED <<store, runs, history>>
    BY <1>7 DEF StatusConflict, kubeVars, objectVars
  <2>2. CASE RunDone(i)
    BY <1>2, <2>1, <2>2
  <2>3. CASE ~RunDone(i)
    <3>1. /\ status' = [status EXCEPT ![i] = Attempt("get", status[i].time,
                          status[i].tries + 1, NoObject)]
          /\ UNCHANGED <<loops, closed>>
      BY <1>7, <2>3 DEF StatusConflict, workerVars
    <3>2. /\ status'[i].time = status[i].time
          /\ \A j \in DOMAIN loops : j # i => status'[j] = status[j]
      BY <1>1, <3>1, AttemptFields
    <3> QED
      BY <1>3, <2>1, <3>1, <3>2
  <2> QED
    BY <2>2, <2>3
<1>8. CASE StatusFails(i)
  BY <1>2, <1>8 DEF StatusFails, kubeVars, objectVars
<1>9. CASE Wait(i)
  BY <1>9, StoreSame DEF Wait, LoopWait, kubeVars, objectVars, history
<1> QED
  BY <1>4, <1>5, <1>6, <1>7, <1>8, <1>9 DEF LoopStep

\* A new loop has written nothing.
LEMMA StartKeepsPush ==
  ASSUME ControllerInv, PushInv, ReconcileStarts PROVE PushInv'
<1>1. PICK r \in request :
        AddAndRun(NameOf(r.key), [key |-> r.key, spec |-> r.seen.spec])
  BY DEF ReconcileStarts
<1> DEFINE l == [name |-> NameOf(r.key), job |-> [key |-> r.key, spec |-> r.seen.spec],
                 ch |-> TaskChannel(NameOf(r.key))]
           n == Len(loops) + 1
<1>2. /\ loops' = Append(loops, l) /\ status' = Append(status, Idle)
      /\ UNCHANGED <<store, runs>>
  BY <1>1 DEF ReconcileStarts, AddAndRun, Forget, objectVars
<1>3. l.name = NameOf(r.key) /\ l.job.key = r.key
  OBVIOUS
<1> HIDE DEF l
<1>4. /\ Len(loops) \in Nat /\ Len(status) = Len(loops)
      /\ DOMAIN loops = 1..Len(loops) /\ DOMAIN loops' = 1..n
      /\ \A i \in DOMAIN loops : loops'[i] = loops[i] /\ status'[i] = status[i]
      /\ loops'[n] = l /\ status'[n] = Idle
  BY <1>2 DEF ControllerInv, TaskInv, WorkersTypeOK, LoopTypeOK
<1>5. Idle.time = 0 /\ Idle.step = "no" /\ runs \in Nat
  BY AttemptFields, LimitsAssumption DEF Idle, ControllerInv, LoopTypeOK
<1>6. \A i \in DOMAIN loops' : i \in DOMAIN loops \/ i = n
  BY <1>4
<1>7. NamedByKey'
  BY <1>3, <1>4, <1>6 DEF PushInv, NamedByKey, KeyOf
<1>8. TimesPast'
  BY <1>2, <1>4, <1>5, <1>6 DEF PushInv, TimesPast
<1>9. PushedBy'
  <2>1. DOMAIN loops \subseteq DOMAIN loops' /\ UNCHANGED <<closed, history>>
    BY <1>1, <1>4 DEF ReconcileStarts, AddAndRun
  <2>2. \A t \in Nat : NotBefore(status'[n], t)
    BY <1>4, <1>5 DEF NotBefore
  <2>3. \A k \in Keys : store[k] # NoObject => store[k].push \in Nat
    BY DEF ControllerInv, KubeTypeOK, Objects, Monitors
  <2> SUFFICES ASSUME NEW k \in Keys, store[k] # NoObject, store[k].push > 0
               PROVE  /\ store[k].push <= runs
                      /\ wrote[k] \in DOMAIN loops'
                      /\ loops'[wrote[k]].job.key = k
                      /\ NotBefore(status'[wrote[k]], store[k].push)
                      /\ loops'[wrote[k]].ch \in closed /\ wrote[k] \notin cut =>
                           \A i \in DOMAIN loops' :
                             loops'[i].job.key = k /\ loops'[i].ch \notin closed
                               => NotBefore(status'[i], store[k].push)
    BY <1>2, <2>1 DEF PushedBy, KeyOf, Closed, history
  <2>4. /\ store[k].push <= runs /\ wrote[k] \in DOMAIN loops /\ KeyOf(wrote[k]) = k
        /\ NotBefore(status[wrote[k]], store[k].push)
        /\ Closed(wrote[k]) /\ wrote[k] \notin cut =>
             \A i \in DOMAIN loops :
               KeyOf(i) = k /\ ~Closed(i) => NotBefore(status[i], store[k].push)
    BY DEF PushInv, PushedBy
  <2> QED
    BY <1>4, <1>6, <2>1, <2>2, <2>3, <2>4 DEF KeyOf, Closed
<1> QED
  BY <1>7, <1>8, <1>9 DEF PushInv

\* A user's edit takes no lastPush back.
LEMMA EditKeepsPush ==
  ASSUME ControllerInv, PushInv, UserStep
  PROVE  /\ PushInv'
         /\ \A k \in Keys : \/ store'[k] = NoObject \/ store[k] = NoObject
                            \/ store'[k].push = store[k].push
<1>1. PICK k \in Keys, o \in Objects :
         /\ Write(k, o) /\ UNCHANGED loopVars
         /\ \/ store[k] = NoObject /\ o.push = 0
            \/ o = NoObject
            \/ store[k] # NoObject /\ o.push = store[k].push
  BY EditWrites DEF UserStep, ControllerInv
<1>2. store'[k] = o /\ \A l \in Keys : l # k => store'[l] = store[l]
  BY <1>1 DEF Write, ControllerInv, KubeTypeOK
<1>3. \A l \in Keys : \/ store'[l] = NoObject
                      \/ store[l] = NoObject /\ store'[l].push = 0
                      \/ store[l] # NoObject /\ store'[l].push = store[l].push
  BY <1>1, <1>2
<1>4. PushInv'
  <2>1. UNCHANGED <<loops, status, runs, wrote, closed, cut>>
    BY <1>1 DEF loopVars, workerVars, history
  <2> QED
    BY <1>3, <2>1, StoreKeepsPush
<1> QED
  BY <1>3, <1>4

\* The other steps touch neither objects nor runs.
LEMMA OthersKeepPush ==
  ASSUME ControllerInv, PushInv,
         \/ \E k \in Keys : Deliver(k) \/ Enqueue(k) \/ Retry(k) \/ BeginReconcile(k)
         \/ FinishReconcile /\ ~ReconcileStarts
         \/ Signal \/ MainReturns \/ MainExits \/ UNCHANGED mcVars
  PROVE  PushInv' /\ UNCHANGED store
<1>1. CASE ReconcileGone \/ MainReturns
  <2>1. /\ UNCHANGED <<store, loops, status, runs, wrote>>
        /\ closed \subseteq closed' /\ cut \subseteq cut'
    BY <1>1 DEF ReconcileGone, MainReturns, Forget, Stop, StopAll, Cut, workerVars, kubeVars,
       objectVars
  <2> QED
    BY <2>1, StoreSame
<1>2. CASE ~(ReconcileGone \/ MainReturns)
  <2>1. UNCHANGED <<store, loopVars>>
    BY <1>2 DEF Deliver, Learn, Enqueue, Notify, Retry, Ripe, BeginReconcile, Take,
       FinishReconcile, GetReturns, Get, GetFails, ReconcileSkips, ReconcileInitFails,
       Forget, Requeue, Signal, MainExits, mcVars, loopVars, kubeVars, objectVars
  <2> QED
    BY <2>1, StoreSame DEF loopVars, workerVars, history
<1> QED
  BY <1>1, <1>2

LEMMA PushStep ==
  ASSUME ControllerInv, CutRuns, PushInv, [MCNext]_mcVars PROVE PushInv'
BY EditKeepsPush, OthersKeepPush, StartKeepsPush, LoopKeepsPush, PutStep
DEF MCNext, FinishReconcile

\* status.lastPush goes back only when the loop that writes it is not the one
\* that wrote it last, and one of these two was told to stop with its run going
\* on: no conflict, retry, stale read or late event takes it back.
THEOREM PushGoesBack == MCSpec => LastPushBackwards
<1> DEFINE Step ==
      \A k \in Keys :
       /\ store[k] # NoObject /\ store'[k] # NoObject
       /\ store[k].uid = store'[k].uid
       /\ store'[k].push < store[k].push
       => /\ wrote[k] \in DOMAIN loops
          /\ wrote'[k] # wrote[k]
          /\ KeyOf(wrote[k]) = k /\ KeyOf(wrote'[k]) = k
          /\ {wrote[k], wrote'[k]} \cap cut # {}
<1>1. ASSUME ControllerInv, CutRuns, PushInv, [MCNext]_mcVars PROVE Step
  <2> SUFFICES ASSUME NEW k \in Keys, store[k] # NoObject, store'[k] # NoObject,
                      store'[k].push < store[k].push
               PROVE  /\ wrote[k] \in DOMAIN loops
                      /\ wrote'[k] # wrote[k]
                      /\ KeyOf(wrote[k]) = k /\ KeyOf(wrote'[k]) = k
                      /\ {wrote[k], wrote'[k]} \cap cut # {}
    OBVIOUS
  <2>1. store[k].push \in Nat
    BY <1>1 DEF ControllerInv, KubeTypeOK, Objects, Monitors
  <2>2. store'[k].push # store[k].push
    BY <2>1
  <2>3. ~ReconcileStarts
    BY <2>2 DEF ReconcileStarts, Forget, objectVars
  <2>4. PICK i \in DOMAIN loops : StatusPut(i)
    BY <1>1, <2>2, <2>3, EditKeepsPush, OthersKeepPush, LoopKeepsPush DEF MCNext
  <2>5. KeyOf(i) = k /\ store'[k].push = status[i].time /\ wrote'[k] = i
    BY <1>1, <2>2, <2>4, PutStep
  <2>6. status[i].step = "put" /\ lpc[i] = "run"
    BY <1>1, <2>4, RunEnds DEF StatusPut
  <2>7. status[i].time \in Nat /\ store[k].push > 0 /\ ~(status[i].time >= store[k].push)
    BY <1>1, <2>1, <2>5, StatusFields
  <2>8. ~NotBefore(status[i], store[k].push)
    BY <2>6, <2>7 DEF NotBefore
  <2>9. /\ wrote[k] \in DOMAIN loops /\ KeyOf(wrote[k]) = k
        /\ NotBefore(status[wrote[k]], store[k].push)
        /\ Closed(wrote[k]) /\ wrote[k] \notin cut =>
             \A j \in DOMAIN loops :
               KeyOf(j) = k /\ ~Closed(j) => NotBefore(status[j], store[k].push)
    BY <1>1, <2>7 DEF PushInv, PushedBy
  <2>10. i # wrote[k] /\ loops[i].name = loops[wrote[k]].name
    BY <1>1, <2>5, <2>8, <2>9 DEF PushInv, NamedByKey
  <2>11. Closed(i) \/ Closed(wrote[k])
    BY <1>1, <2>9, <2>10 DEF ControllerInv, TaskInv, NoLeakedLoop
  <2>12. i \in cut \/ wrote[k] \in cut
    BY <1>1, <2>5, <2>6, <2>8, <2>9, <2>11 DEF CutRuns
  <2> QED
    BY <2>5, <2>9, <2>10, <2>12
<1>2. MCInit => PushInv
  <2> SUFFICES ASSUME MCInit PROVE PushInv
    OBVIOUS
  <2>1. DOMAIN loops = {} /\ \A k \in Keys : store[k] = NoObject
    BY DEF MCInit, WorkersInit, KubeInit
  <2> QED
    BY <2>1 DEF PushInv, NamedByKey, TimesPast, PushedBy
<1>3. ControllerInv /\ CutRuns /\ PushInv /\ [MCNext]_mcVars => PushInv'
  BY PushStep
<1>4. MCSpec => []PushInv
  BY <1>2, <1>3, ControllerAlways, CutAlways, PTL DEF MCSpec
<1>5. ControllerInv /\ CutRuns /\ PushInv /\ [MCNext]_mcVars => [Step]_mcVars
  BY <1>1
<1> QED
  BY <1>4, <1>5, ControllerAlways, CutAlways, PTL DEF MCSpec, LastPushBackwards
===============================================================================
