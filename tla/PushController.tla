---------------------------- MODULE PushController ----------------------------
(***************************************************************************)
(* internal/controller/prometheuspush_controller.go: the reconciler that    *)
(* keeps Writers.writerMap in step with the PrometheusPush objects.         *)
(*                                                                          *)
(* Unlike the Monitor reconciler it applies updates: Register replaces the  *)
(* writer under the name.  An object whose address newWriter refuses is     *)
(* retried, and so is a deletion of a name that is not in the map.  The     *)
(* race of the map write with the readers of the map is in WriterFanout;    *)
(* here Register and DeRegister are atomic under the Writers mutex.         *)
(***************************************************************************)
EXTENDS KubeObjects

CONSTANTS
  Namespaces, Names,
  Options,      \* values of PrometheusPush.Spec
  BadOptions,   \* those newWriter refuses
  NoWriter,     \* the name is not in writerMap
  MaxEdits,     \* bound: creations, updates and deletions by users
  MaxFaults     \* bound: reads that fail for no reason of the model

ASSUME PushKeysAssumption == Keys = Namespaces \X Names
ASSUME PushOptionsAssumption == BadOptions \subseteq Options /\ NoObject \notin Options
ASSUME PushBoundsAssumption == MaxEdits \in Nat /\ MaxFaults \in Nat

VARIABLES
  writerMap,   \* Writers.writerMap: name -> option of the writer, or NoWriter
  edits,       \* writes by users so far
  faults       \* failed reads so far

pushVars == <<kubeVars, writerMap, edits, faults>>

NameOf(k) == k[2]

\* An object is its spec; two objects with one spec need not be told apart.
Objects == Options \cup {NoObject}

PushInit ==
  /\ KubeInit
  /\ writerMap = [n \in Names |-> NoWriter]
  /\ edits = 0
  /\ faults = 0

\* A user creates, updates or deletes the object.
Edit(k, object) ==
  /\ edits < MaxEdits
  /\ store[k] # object
  /\ edits' = edits + 1
  /\ Write(k, object)
  /\ UNCHANGED <<queueVars, taken, request, writerMap, faults>>

\* The informer and the work queue.
Deliver(k) ==
  /\ Learn(k)
  /\ UNCHANGED <<writerMap, edits, faults>>

Enqueue(k) ==
  /\ Notify(k)
  /\ UNCHANGED <<writerMap, edits, faults>>

Retry(k) ==
  /\ Ripe(k)
  /\ UNCHANGED <<writerMap, edits, faults>>

\* Reconcile(req) is called; its Get finds the object or returns NotFound.
BeginReconcile(k) ==
  /\ Take(k)
  /\ UNCHANGED <<writerMap, edits, faults>>

GetReturns ==
  /\ Get
  /\ UNCHANGED <<writerMap, edits, faults>>

\* Mutant: the error of Get is not returned.
GetFails_Dropped ==
  /\ taken # {}
  /\ faults < MaxFaults
  /\ faults' = faults + 1
  /\ Forget
  /\ UNCHANGED <<writerMap, edits>>

\* Get fails with another error than NotFound: the key is queued again.
GetFails ==
  /\ taken # {}
  /\ faults < MaxFaults
  /\ faults' = faults + 1
  /\ Requeue
  /\ UNCHANGED <<writerMap, edits>>

\* NotFound: wm.DeRegister(req.Name), an error if the name is not there.
ReconcileGone ==
  /\ \E r \in request :
       /\ r.seen = NoObject
       /\ IF writerMap[NameOf(r.key)] # NoWriter
            THEN /\ writerMap' = [writerMap EXCEPT ![NameOf(r.key)] = NoWriter]
                 /\ Forget
            ELSE UNCHANGED writerMap /\ Requeue
  /\ UNCHANGED <<edits, faults>>

\* Mutant: a name that has a writer is skipped.
ReconcileRegisters_Once ==
  /\ \E r \in request :
       /\ r.seen # NoObject
       /\ IF r.seen \in BadOptions
            THEN UNCHANGED writerMap /\ Requeue
            ELSE /\ writerMap' = [writerMap EXCEPT ![NameOf(r.key)] =
                                    IF @ = NoWriter THEN r.seen ELSE @]
                 /\ Forget
  /\ UNCHANGED <<edits, faults>>

\* wm.Register(req.Name, options): newWriter's error is returned and retried.
ReconcileRegisters ==
  /\ \E r \in request :
       /\ r.seen # NoObject
       /\ IF r.seen \in BadOptions
            THEN UNCHANGED writerMap /\ Requeue
            ELSE /\ writerMap' = [writerMap EXCEPT ![NameOf(r.key)] = r.seen]
                 /\ Forget
  /\ UNCHANGED <<edits, faults>>

FinishReconcile == GetReturns \/ GetFails \/ ReconcileGone \/ ReconcileRegisters

PushNext ==
  \/ \E k \in Keys, object \in Objects : Edit(k, object)
  \/ \E k \in Keys : Deliver(k) \/ Enqueue(k) \/ Retry(k) \/ BeginReconcile(k)
  \/ FinishReconcile

\* As in MonitorController: back-offs end, and the work queue is first-in
\* first-out.
PushFairness ==
  /\ \A k \in Keys : /\ WF_pushVars(Deliver(k)) /\ WF_pushVars(Enqueue(k))
                     /\ WF_pushVars(Retry(k)) /\ SF_pushVars(BeginReconcile(k))
  /\ WF_pushVars(FinishReconcile)

PushSpec == PushInit /\ [][PushNext]_pushVars
PushFairSpec == PushSpec /\ PushFairness
-------------------------------------------------------------------------------
\* Once every change has been reconciled the map holds exactly the writers the
\* objects ask for, with their last options, whatever updates were skipped.
SettledWriters ==
  Quiet => \A k \in Keys :
             writerMap[NameOf(k)] = IF store[k] = NoObject THEN NoWriter
                                    ELSE store[k]

\* A spec that stays and is usable gets its writer; an object that stays
\* deleted loses it, even if its last specs could not be registered.
WritersFollowObjects ==
  \A k \in Keys :
    /\ \A o \in Options \ BadOptions :
         <>[](store[k] = o) => <>[](writerMap[NameOf(k)] = o)
    /\ <>[](store[k] = NoObject) => <>[](writerMap[NameOf(k)] = NoWriter)

\* "a reconcile function responsible for synchronizing resources until the
\* desired state is reached on the cluster" (README.md:63): for an object that
\* stays deleted reconciling comes to an end.
ReconcileEnds ==
  \A k \in Keys :
    <>[](store[k] = NoObject) =>
      <>[]~Pending(k)
===============================================================================
