-------------------------- MODULE PushControllerProofs --------------------------
(***************************************************************************)
(* Proofs about PushController for every set of PrometheusPush objects: when *)
(* nothing is under way between the API server and the reconciler, the map  *)
(* of writers is what the objects ask for.                                  *)
(***************************************************************************)
EXTENDS PushController, KubeObjectsProofs

PushTypes ==
  /\ store \in [Keys -> Objects]
  /\ events \in [Keys -> Seq(Objects)]
  /\ cache \in [Keys -> Objects]
  /\ request \subseteq [key : Keys, seen : Objects]
  /\ writerMap \in [Names -> Options \cup {NoWriter}]

\* The writer an object asks for.
WriterFor(object) == IF object = NoObject THEN NoWriter ELSE object

\* A key that is neither queued nor in Reconcile has the writer the cache asks
\* for: every path of Reconcile that leaves the map behind the cache returns an
\* error, and the key is queued again.
MapFollowsCache ==
  \A k \in Keys : Reconciled(k) => writerMap[NameOf(k)] = WriterFor(cache[k])

PushInv == PushTypes /\ Followed /\ MapFollowsCache

\* The map is keyed by the name alone: two namespaces must not share one.
NamesUnshared == \A k, l \in Keys : NameOf(k) = NameOf(l) => k = l

-------------------------------------------------------------------------------
LEMMA PushNameOf == ASSUME NEW k \in Keys PROVE NameOf(k) \in Names
  BY PushKeysAssumption DEF NameOf

LEMMA PushInitInv == PushInit => PushInv
<1> SUFFICES ASSUME PushInit PROVE PushInv
  OBVIOUS
<1>1. PushTypes
  BY DEF PushInit, KubeInit, PushTypes, Objects
<1>2. Followed
  BY FollowedInit DEF PushInit
<1>3. MapFollowsCache
  BY PushNameOf DEF PushInit, KubeInit, MapFollowsCache, WriterFor
<1> QED
  BY <1>1, <1>2, <1>3 DEF PushInv

\* Users and the informer leave the map alone.
LEMMA EditStep ==
  ASSUME PushInv, NEW k \in Keys, NEW object \in Objects, Edit(k, object)
  PROVE  PushInv'
<1>1. Write(k, object) /\ UNCHANGED <<queueVars, taken, request, writerMap>>
  BY DEF Edit
<1>2. PushTypes'
  BY <1>1 DEF PushInv, PushTypes, Write
<1>3. Followed' /\ UNCHANGED cache /\ \A l \in Keys : Reconciled(l)' <=> Reconciled(l)
  BY <1>1, WriteFollowed DEF PushInv, PushTypes
<1> QED
  BY <1>1, <1>2, <1>3 DEF PushInv, MapFollowsCache

LEMMA DeliverStep ==
  ASSUME PushInv, NEW k \in Keys, Deliver(k) PROVE PushInv'
<1>1. Learn(k) /\ UNCHANGED writerMap
  BY DEF Deliver
<1>2. PushTypes'
  <2>1. events[k] \in Seq(Objects) /\ events[k] # <<>>
    BY <1>1 DEF Learn, PushInv, PushTypes
  <2>2. Head(events[k]) \in Objects /\ Tail(events[k]) \in Seq(Objects)
    BY <2>1
  <2> QED
    BY <1>1, <2>2 DEF PushInv, PushTypes, Learn
<1>3. /\ Followed'
      /\ \A l \in Keys : Reconciled(l)' => Reconciled(l) /\ cache'[l] = cache[l]
  BY <1>1, LearnFollowed DEF PushInv, PushTypes
<1> QED
  BY <1>1, <1>2, <1>3 DEF PushInv, MapFollowsCache

LEMMA BeginStep ==
  ASSUME PushInv,
         \/ \E k \in Keys : Enqueue(k) \/ Retry(k) \/ BeginReconcile(k)
         \/ GetReturns \/ GetFails
  PROVE  PushInv'
<1>1. /\ UNCHANGED writerMap
      /\ \/ \E k \in Keys : Notify(k) \/ Ripe(k) \/ Take(k)
         \/ Get
         \/ taken # {} /\ Requeue
  BY DEF Enqueue, Retry, BeginReconcile, GetReturns, GetFails
<1>2. /\ Followed' /\ UNCHANGED cache
      /\ \A l \in Keys : Reconciled(l)' => Reconciled(l)
  BY <1>1, QueueFollowed, TakeFollowed, GetFailsFollowed DEF PushInv
<1>3. PushTypes'
  <2>1. taken \subseteq Keys
    BY DEF PushInv, Followed
  <2>2. request' \subseteq [key : Keys, seen : Objects]
    BY <1>1, <2>1 DEF PushInv, PushTypes, Notify, Ripe, Take, Get, Requeue
  <2>3. UNCHANGED <<store, events, cache>>
    BY <1>1 DEF Notify, Ripe, Take, Get, Requeue, objectVars
  <2> QED
    BY <1>1, <2>2, <2>3 DEF PushInv, PushTypes
<1> QED
  BY <1>1, <1>2, <1>3 DEF PushInv, MapFollowsCache

\* Reconcile returns an error and has not changed the map, or returns nil and
\* the name has the writer for what Get returned.
LEMMA EndStep ==
  ASSUME NamesUnshared, PushInv, NEW r \in request, NEW w \in Options \cup {NoWriter},
         \/ Requeue /\ UNCHANGED writerMap
         \/ /\ Forget /\ w = WriterFor(r.seen)
            /\ writerMap' = [writerMap EXCEPT ![NameOf(r.key)] = w]
  PROVE  PushInv'
<1>1. /\ Followed' /\ UNCHANGED cache
      /\ \A l \in Keys : Reconciled(l)' =>
           \/ Reconciled(l)
           \/ l = r.key /\ r.seen = cache[l] /\ Forget
      /\ Requeue => ~Reconciled(r.key)'
  BY EndFollowed DEF PushInv
<1>2. r.key \in Keys
  BY DEF PushInv, PushTypes
<1>3. PushTypes'
  BY <1>2, PushNameOf DEF PushInv, PushTypes, Forget, Requeue, objectVars
<1>4. CASE Requeue /\ UNCHANGED writerMap
  BY <1>1, <1>2, <1>3, <1>4 DEF PushInv, MapFollowsCache
<1>5. CASE /\ Forget /\ w = WriterFor(r.seen)
           /\ writerMap' = [writerMap EXCEPT ![NameOf(r.key)] = w]
  <2>1. ASSUME NEW l \in Keys, Reconciled(l)'
        PROVE  writerMap'[NameOf(l)] = WriterFor(cache'[l])
    <3>1. CASE l = r.key
      <4>1. NameOf(l) \in Names
        BY PushNameOf
      <4>2. writerMap'[NameOf(l)] = WriterFor(r.seen)
        BY <1>5, <3>1, <4>1 DEF PushInv, PushTypes
      <4>3. ~Reconciled(l)
        BY <3>1 DEF Reconciled, Pending
      <4> QED
        BY <1>1, <2>1, <4>2, <4>3
    <3>2. CASE l # r.key
      <4>1. NameOf(l) # NameOf(r.key)
        BY <1>2, <3>2 DEF NamesUnshared
      <4>2. writerMap'[NameOf(l)] = writerMap[NameOf(l)]
        BY <1>5, <4>1, PushNameOf DEF PushInv, PushTypes
      <4> QED
        BY <1>1, <2>1, <3>2, <4>2 DEF PushInv, MapFollowsCache
    <3> QED
      BY <3>1, <3>2
  <2> QED
    BY <1>1, <1>3, <2>1 DEF PushInv, MapFollowsCache
<1> QED
  BY <1>4, <1>5

LEMMA FinishStep ==
  ASSUME NamesUnshared, PushInv, FinishReconcile PROVE PushInv'
<1>1. \A r \in request : r.seen \in Objects
  BY DEF PushInv, PushTypes
<1>2. CASE GetReturns \/ GetFails
  BY <1>2, BeginStep
<1>3. CASE ReconcileGone
  BY <1>3, EndStep DEF ReconcileGone, WriterFor
<1>4. CASE ReconcileRegisters
  <2>1. PICK r \in request :
          /\ r.seen # NoObject
          /\ IF r.seen \in BadOptions
               THEN UNCHANGED writerMap /\ Requeue
               ELSE /\ writerMap' = [writerMap EXCEPT ![NameOf(r.key)] = r.seen]
                    /\ Forget
    BY <1>4 DEF ReconcileRegisters
  <2>2. r.seen \in Options /\ WriterFor(r.seen) = r.seen
    BY <1>1, <2>1 DEF Objects, WriterFor
  <2> QED
    BY <2>1, <2>2, EndStep
<1> QED
  BY <1>2, <1>3, <1>4 DEF FinishReconcile

LEMMA PushStep ==
  ASSUME NamesUnshared, PushInv, [PushNext]_pushVars PROVE PushInv'
<1>1. CASE UNCHANGED pushVars
  <2>1. UNCHANGED <<store, events, cache, notices, dirty, delayed, taken, request,
                    writerMap>>
    BY <1>1 DEF pushVars, kubeVars, objectVars, queueVars
  <2>2. PushTypes' /\ MapFollowsCache'
    BY <2>1 DEF PushInv, PushTypes, MapFollowsCache, Reconciled, Pending
  <2>3. Followed'
    BY <2>1 DEF PushInv, Followed, Informed, OneRequest, FreshRequest
  <2> QED
    BY <2>2, <2>3 DEF PushInv
<1> QED
  BY <1>1, EditStep, DeliverStep, BeginStep, FinishStep DEF PushNext

\* When every event was delivered and every key reconciled, each name has the
\* writer of its object's last options and no name has a writer without an
\* object: Reconcile read old states, skipped others and was retried, and none
\* of that shows.
THEOREM WritersSettle ==
  ASSUME NamesUnshared PROVE PushSpec => []SettledWriters
<1>1. PushInv /\ [PushNext]_pushVars => PushInv'
  BY PushStep
<1>2. PushSpec => []PushInv
  BY <1>1, PushInitInv, PTL DEF PushSpec
<1>3. PushInv => SettledWriters
  BY DEF PushInv, MapFollowsCache, Reconciled, Followed, Informed, WriterFor, Quiet,
     SettledWriters
<1> QED
  BY <1>2, <1>3, PTL
===============================================================================
