--------------------------- MODULE MonitorController ---------------------------
(***************************************************************************)
(* internal/controller/monitor_controller.go and monitor_worker.go: the     *)
(* Monitor reconciler, the task it starts for a Monitor, and the status     *)
(* update at the end of each run, against the API server, the informer      *)
(* cache and the work queue of controller-runtime.                          *)
(*                                                                          *)
(* Users create, update and delete Monitors in the store.  The cache learns *)
(* of the changes of an object one at a time and late; each change it       *)
(* learns of puts the object's key, later still, in the work queue, which   *)
(* holds a key at most once.  One goroutine takes keys and calls Reconcile, *)
(* which reads the cache.  So Reconcile sees some past state of the object, *)
(* may skip states or see one twice, and acts on what it read although the  *)
(* cache has moved on.  The task table is keyed by the name alone, without  *)
(* the namespace.                                                           *)
(***************************************************************************)
EXTENDS Workers, KubeObjects, FiniteSets

CONSTANTS
  Namespaces,   \* namespaces of Monitor objects
  Specs,        \* values of Monitor.Spec
  BadSpecs,     \* those InitConfig refuses: unknown model, unusable config
  MaxEdits,     \* bound: creations, updates and deletions by users
  MaxRuns,      \* bound: runs of the collection function, all loops together
  MaxFaults,    \* bound: API calls that fail for no reason of the model
  MaxSteps      \* retry.DefaultBackoff.Steps: attempts of UpdateStatus

ASSUME SpecsAssumption == BadSpecs \subseteq Specs
ASSUME LimitsAssumption == /\ MaxEdits \in Nat /\ MaxRuns \in Nat
                           /\ MaxFaults \in Nat /\ MaxSteps \in Nat \ {0}

ASSUME KeysAssumption == Keys = Namespaces \X Names

NameOf(k) == k[2]

\* What the closure given to worker.Run captures: the object's key and spec.
ASSUME JobsAssumption == Jobs = [key : Keys, spec : Specs]

VARIABLES
  edits,     \* writes by users so far
  status,    \* per loop: its UpdateStatus call, or how its run stands
  runs,      \* runs started so far: also the clock that time.Now() reads
  faults,    \* API failures so far
  phase      \* "up", "stopping" (context cancelled), "down" (main returned)

\* History: which loop's Status().Update was accepted last, and which loops were
\* told to stop while their function was running.
VARIABLES
  wrote,     \* key -> number of the loop, 0 if none wrote
  cut        \* set of loops

history == <<wrote, cut>>
loopVars == <<workerVars, status, runs, history>>
mcVars == <<workerVars, kubeVars, edits, status, runs, faults, phase, history>>

\* rv: resourceVersion; push: status.lastPush (0: none); uid: the write that
\* created it.
Monitors == [uid : Nat, rv : Nat, spec : Specs, push : Nat]
Objects == Monitors \cup {NoObject}

\* An object after a write of its spec, and of its status.
WithSpec(m, s, v) == [uid |-> m.uid, rv |-> v, spec |-> s, push |-> m.push]
WithPush(m, t, v) == [uid |-> m.uid, rv |-> v, spec |-> m.spec, push |-> t]

\* In a run: "gather" (the closure), "get" and "put" (UpdateStatus); else "no".
StatusSteps == {"no", "gather", "get", "put"}
Statuses == [step : StatusSteps, time : Nat, tries : Nat, got : Objects]
Attempt(step, time, tries, got) ==
  [step |-> step, time |-> time, tries |-> tries, got |-> got]
Idle == Attempt("no", 0, 0, NoObject)

MCTypeOK ==
  /\ WorkersTypeOK
  /\ store \in [Keys -> Objects]
  /\ version \in Nat
  /\ edits \in 0..MaxEdits
  /\ events \in [Keys -> Seq(Objects)]
  /\ cache \in [Keys -> Objects]
  /\ notices \in [Keys -> Nat]
  /\ dirty \subseteq Keys /\ delayed \subseteq Keys /\ taken \subseteq Keys
  /\ request \subseteq [key : Keys, seen : Objects]
  /\ Cardinality(taken) + Cardinality(request) <= 1
  /\ status \in Seq(Statuses)
  /\ Len(status) = Len(loops)
  /\ runs \in 0..MaxRuns
  /\ faults \in 0..MaxFaults
  /\ phase \in {"up", "stopping", "down"}
  /\ wrote \in [Keys -> 0..Len(loops)]
  /\ cut \subseteq DOMAIN loops

MCInit ==
  /\ WorkersInit
  /\ KubeInit
  /\ edits = 0
  /\ status = <<>>
  /\ runs = 0
  /\ faults = 0
  /\ phase = "up"
  /\ wrote = [k \in Keys |-> 0]
  /\ cut = {}

Running == phase # "down" /\ ~panicked

(***************************************************************************)
(* The users (external), the informer and the work queue.                   *)
(***************************************************************************)
Edit(k, object) ==
  /\ Running
  /\ edits < MaxEdits
  /\ edits' = edits + 1
  /\ Write(k, object)
  /\ UNCHANGED <<loopVars, queueVars, taken, request, faults, phase>>

Create(k, s) ==
  /\ store[k] = NoObject
  /\ Edit(k, [uid |-> version + 1, rv |-> version + 1, spec |-> s, push |-> 0])

Update(k, s) ==
  /\ store[k] # NoObject
  /\ store[k].spec # s
  /\ Edit(k, WithSpec(store[k], s, version + 1))

Delete(k) ==
  /\ store[k] # NoObject
  /\ Edit(k, NoObject)

Deliver(k) ==
  /\ Running
  /\ Learn(k)
  /\ UNCHANGED <<loopVars, edits, faults, phase>>

\* A queue that is shut down takes no key: Add and the back-offs come to
\* nothing (here the notice and the back-off stay where they are).
Enqueue(k) ==
  /\ phase = "up" /\ ~panicked
  /\ Notify(k)
  /\ UNCHANGED <<loopVars, edits, faults, phase>>

Retry(k) ==
  /\ phase = "up" /\ ~panicked
  /\ Ripe(k)
  /\ UNCHANGED <<loopVars, edits, faults, phase>>

(***************************************************************************)
(* Reconcile, run by one goroutine.                                         *)
(***************************************************************************)

\* Reconcile(req) is called, also for the keys left in a queue that is shut
\* down; r.Client.Get finds the object or returns NotFound.
BeginReconcile(k) ==
  /\ Running
  /\ Take(k)
  /\ UNCHANGED <<loopVars, edits, faults, phase>>

GetReturns ==
  /\ Running
  /\ Get
  /\ UNCHANGED <<loopVars, edits, faults, phase>>

\* Mutant: the error of Get is not returned.
GetFails_Dropped ==
  /\ Running
  /\ taken # {}
  /\ faults < MaxFaults
  /\ faults' = faults + 1
  /\ Forget
  /\ UNCHANGED <<loopVars, edits, phase>>

\* Get fails with another error than NotFound: the key is queued again.
GetFails ==
  /\ Running
  /\ taken # {}
  /\ faults < MaxFaults
  /\ faults' = faults + 1
  /\ Requeue
  /\ UNCHANGED <<loopVars, edits, phase>>

\* The loops that are told to stop in this step while their function runs.
Cut == cut' = cut \cup {i \in DOMAIN loops : /\ lpc[i] = "run" /\ ~Closed(i)
                                            /\ loops[i].ch \in closed'}

\* NotFound: worker.Stop(req.Name), worker.Range().
ReconcileGone ==
  /\ Running
  /\ \E r \in request : /\ r.seen = NoObject
                        /\ Stop(NameOf(r.key))
  /\ Cut
  /\ Forget
  /\ UNCHANGED <<edits, status, runs, faults, phase, wrote>>

\* "monitor already start, skip..."
ReconcileSkips ==
  /\ Running
  /\ \E r \in request : r.seen # NoObject /\ Exist(NameOf(r.key))
  /\ Forget
  /\ UNCHANGED <<loopVars, edits, faults, phase>>

\* Mutant: the error of InitConfig is not returned.
ReconcileInitFails_Dropped ==
  /\ Running
  /\ \E r \in request : /\ r.seen # NoObject
                        /\ ~Exist(NameOf(r.key))
                        /\ r.seen.spec \in BadSpecs
  /\ Forget
  /\ UNCHANGED <<loopVars, edits, faults, phase>>

\* InitConfig refuses the configuration: the error is returned.
ReconcileInitFails ==
  /\ Running
  /\ \E r \in request : /\ r.seen # NoObject
                        /\ ~Exist(NameOf(r.key))
                        /\ r.seen.spec \in BadSpecs
  /\ Requeue
  /\ UNCHANGED <<loopVars, edits, faults, phase>>

\* Mutant: a task that exists is not skipped.
ReconcileStarts_Again ==
  /\ Running
  /\ \E r \in request :
       /\ r.seen # NoObject
       /\ r.seen.spec \notin BadSpecs
       /\ AddAndRun(NameOf(r.key), [key |-> r.key, spec |-> r.seen.spec])
  /\ Forget
  /\ status' = Append(status, Idle)
  /\ UNCHANGED <<edits, runs, faults, phase, history>>

\* AddWorkerTask and RunAfterPatchStatus: the loop keeps a copy of the object.
ReconcileStarts ==
  /\ Running
  /\ \E r \in request :
       /\ r.seen # NoObject
       /\ ~Exist(NameOf(r.key))
       /\ r.seen.spec \notin BadSpecs
       /\ AddAndRun(NameOf(r.key), [key |-> r.key, spec |-> r.seen.spec])
  /\ Forget
  /\ status' = Append(status, Idle)
  /\ UNCHANGED <<edits, runs, faults, phase, history>>

(***************************************************************************)
(* A loop: the function RunAfterPatchStatus gives to worker.Run.            *)
(***************************************************************************)

KeyOf(i) == loops[i].job.key

\* The loop tests its channel and calls the function, or returns.
Tick(i) ==
  /\ Running
  /\ Closed(i) \/ runs < MaxRuns
  /\ LoopTop(i)
  /\ status' = IF Closed(i) THEN status
               ELSE [status EXCEPT ![i].step = "gather"]
  /\ runs' = IF Closed(i) THEN runs ELSE runs + 1
  /\ UNCHANGED <<kubeVars, edits, faults, phase, history>>

\* f() returns, with or without an error; pushTime = time.Now().
GatherDone(i) ==
  /\ Running
  /\ status[i].step = "gather"
  /\ status' = [status EXCEPT ![i] = Attempt("get", runs, 0, NoObject)]
  /\ UNCHANGED <<workerVars, kubeVars, edits, runs, faults, phase, history>>

\* The run is over and the loop waits for its period.
RunDone(i) ==
  /\ LoopRunDone(i)
  /\ status' = [status EXCEPT ![i] = Idle]

\* client.Get of UpdateStatus, from the cache; NotFound ends the update.
StatusGet(i) ==
  /\ Running
  /\ status[i].step = "get"
  /\ IF cache[KeyOf(i)] = NoObject
       THEN RunDone(i)
       ELSE /\ status' = [status EXCEPT ![i] =
                 Attempt("put", @.time, @.tries, cache[KeyOf(i)])]
            /\ UNCHANGED workerVars
  /\ UNCHANGED <<kubeVars, edits, runs, faults, phase, history>>

\* Status().Update: accepted if the object still has the resourceVersion read.
StatusPut(i) ==
  LET k == KeyOf(i) IN
  /\ phase = "up" /\ ~panicked
  /\ status[i].step = "put"
  /\ store[k] # NoObject
  /\ store[k].rv = status[i].got.rv
  /\ Write(k, WithPush(store[k], status[i].time, version + 1))
  /\ RunDone(i)
  /\ wrote' = [wrote EXCEPT ![k] = i]
  /\ UNCHANGED <<edits, queueVars, taken, request, runs, faults, phase, cut>>

\* Conflict: RetryOnConflict tries again, MaxSteps times in all.
StatusConflict(i) ==
  LET k == KeyOf(i) IN
  /\ phase = "up" /\ ~panicked
  /\ status[i].step = "put"
  /\ store[k] # NoObject
  /\ store[k].rv # status[i].got.rv
  /\ IF status[i].tries + 1 < MaxSteps
       THEN /\ status' = [status EXCEPT ![i] =
                 Attempt("get", @.time, @.tries + 1, NoObject)]
            /\ UNCHANGED workerVars
       ELSE RunDone(i)
  /\ UNCHANGED <<kubeVars, edits, runs, faults, phase, history>>

\* Any other error ends the update: the object is gone, the context is
\* cancelled, the call failed.
StatusFails(i) ==
  /\ Running
  /\ status[i].step = "put"
  /\ IF store[KeyOf(i)] = NoObject \/ phase = "stopping"
       THEN UNCHANGED faults
       ELSE faults < MaxFaults /\ faults' = faults + 1
  /\ RunDone(i)
  /\ UNCHANGED <<kubeVars, edits, runs, phase, history>>

\* The select at the end of the loop: the period is over or stopCh is closed.
Wait(i) ==
  /\ Running
  /\ LoopWait(i)
  /\ UNCHANGED <<kubeVars, edits, status, runs, faults, phase, history>>

(***************************************************************************)
(* Shutdown: the signal cancels SystemContext and the queue is shut down;   *)
(* the worker goroutine ends when the queue is empty and mgr.Start returns; *)
(* main calls StopAll and returns.                                          *)
(***************************************************************************)
Signal ==
  /\ phase = "up" /\ ~panicked
  /\ phase' = "stopping"
  /\ UNCHANGED <<loopVars, kubeVars, edits, faults>>

MainReturns ==
  /\ phase = "stopping" /\ ~panicked
  /\ dirty = {} /\ taken = {} /\ request = {}
  /\ StopAll
  /\ Cut
  /\ phase' = "down"
  /\ UNCHANGED <<kubeVars, edits, status, runs, faults, wrote>>

\* The grace period ends first: mgr.Start returns an error and main exits.
MainExits ==
  /\ phase = "stopping" /\ ~panicked
  /\ phase' = "down"
  /\ UNCHANGED <<loopVars, kubeVars, edits, faults>>
-------------------------------------------------------------------------------
UserStep == \E k \in Keys : \/ \E s \in Specs : Create(k, s) \/ Update(k, s)
                            \/ Delete(k)

FinishReconcile == \/ GetReturns \/ GetFails \/ ReconcileGone \/ ReconcileSkips
                   \/ ReconcileInitFails \/ ReconcileStarts

LoopStep(i) == \/ Tick(i) \/ GatherDone(i) \/ StatusGet(i) \/ StatusPut(i)
               \/ StatusConflict(i) \/ StatusFails(i) \/ Wait(i)

MCNext ==
  \/ UserStep
  \/ \E k \in Keys : Deliver(k) \/ Enqueue(k) \/ Retry(k)
  \/ \E k \in Keys : BeginReconcile(k)
  \/ FinishReconcile
  \/ \E i \in DOMAIN loops : LoopStep(i)
  \/ Signal
  \/ MainReturns
  \/ MainExits

MCSpec == MCInit /\ [][MCNext]_mcVars

\* The informer, the work queue and the goroutines go on and back-offs end; the
\* work queue is first-in first-out, so no key waits for ever behind a key that
\* is retried.
\* Users, failures and signals are free.
MCFairness ==
  /\ \A k \in Keys : /\ WF_mcVars(Deliver(k)) /\ WF_mcVars(Enqueue(k))
                     /\ WF_mcVars(Retry(k)) /\ SF_mcVars(BeginReconcile(k))
  /\ WF_mcVars(FinishReconcile)
  /\ \A i \in 1..MaxEdits : WF_mcVars(i \in DOMAIN loops /\ LoopStep(i))
  /\ WF_mcVars(MainReturns)

MCFairSpec == MCSpec /\ MCFairness
-------------------------------------------------------------------------------
(***************************************************************************)
(* Properties.                                                              *)
(***************************************************************************)

\* Once every change has been reconciled a name has a task exactly if a
\* Monitor of that name exists, in whatever order creations, updates,
\* deletions and re-creations were seen or skipped.  (Names must not be shared
\* by namespaces.)
SettledTasks ==
  Quiet /\ phase = "up" => \A k \in Keys : Exist(NameOf(k)) <=> store[k] # NoObject

\* status.lastPush of a Monitor goes back in time only when two of its loops
\* write it: the loop whose Status().Update is accepted now is not the one whose
\* update was accepted last, and one of these two was told to stop while its run
\* went on.  A loop on its own, with whatever conflicts and retries, never takes
\* it back, nor do two loops of which the first was stopped between two runs.
LastPushBackwards ==
  [][\A k \in Keys :
       /\ store[k] # NoObject /\ store'[k] # NoObject
       /\ store[k].uid = store'[k].uid
       /\ store'[k].push < store[k].push
       => /\ wrote[k] \in DOMAIN loops
          /\ wrote'[k] # wrote[k]
          /\ KeyOf(wrote[k]) = k /\ KeyOf(wrote'[k]) = k
          /\ {wrote[k], wrote'[k]} \cap cut # {}]_mcVars

Over == phase # "up" \/ panicked

Usable(k) == store[k] # NoObject /\ store[k].spec \notin BadSpecs

\* A Monitor that stays, with a usable configuration, gets and keeps a loop of
\* its own.
LoopForMonitor ==
  \A k \in Keys :
    <>[]Usable(k) =>
      <>[](Over \/ \E i \in DOMAIN loops : KeyOf(i) = k /\ ~Closed(i))

\* When a Monitor stays deleted all its loops end.
LoopsEnd ==
  \A k \in Keys :
    <>[](store[k] = NoObject) =>
      <>[](Over \/ \A i \in DOMAIN loops : KeyOf(i) = k => lpc[i] = "exit")

\* "a reconcile function responsible for synchronizing resources until the
\* desired state is reached on the cluster" (README.md:63): a Monitor whose
\* spec stays as it is is collected with that spec.
DesiredSpecReached ==
  \A k \in Keys : \A s \in Specs \ BadSpecs :
    <>[](store[k] # NoObject /\ store[k].spec = s) =>
      <>[](Over \/ \E i \in DOMAIN loops : /\ KeyOf(i) = k /\ ~Closed(i)
                                           /\ loops[i].job.spec = s)
===============================================================================
