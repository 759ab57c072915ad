--------------------------- MODULE KubeObjectsProofs ---------------------------
(***************************************************************************)
(* What a reconciler may rely on, whatever it does: the informer cache      *)
(* trails the store by exactly the events that are on their way, and a      *)
(* request whose key is neither queued again nor about to be was read from  *)
(* the cache as it is.                                                      *)
(* The proofs about both controllers build on it.                           *)
(***************************************************************************)
EXTENDS KubeObjects, SequenceTheorems, TLAPS

\* The last event on its way is the state of the store; without one the cache
\* has caught up.
Informed ==
  \A k \in Keys :
    IF events[k] = <<>> THEN cache[k] = store[k]
    ELSE events[k][Len(events[k])] = store[k]

\* MaxConcurrentReconciles is 1.
OneRequest == /\ \A r, s \in request : r = s
              /\ \A k, l \in taken : k = l
              /\ taken = {} \/ request = {}

\* What Get returned is stale only if the key is queued again or will be.
FreshRequest ==
  \A r \in request :
    /\ r.key \in Keys
    /\ r.key \notin dirty /\ notices[r.key] = 0 => r.seen = cache[r.key]

Followed == /\ Informed /\ OneRequest /\ FreshRequest
            /\ notices \in [Keys -> Nat] /\ taken \subseteq Keys

\* Reconcile has nothing to do for k that it does not know of.
Reconciled(k) == ~Pending(k)

-------------------------------------------------------------------------------
LEMMA FollowedInit == KubeInit => Followed
  BY DEF KubeInit, Followed, Informed, OneRequest, FreshRequest

\* The server accepts a write.
LEMMA WriteFollowed ==
  ASSUME NEW Obj, NEW k \in Keys, NEW object \in Obj,
         store \in [Keys -> Obj], events \in [Keys -> Seq(Obj)],
         Followed, Write(k, object), UNCHANGED <<queueVars, taken, request>>
  PROVE  /\ Followed'
         /\ UNCHANGED cache
         /\ \A l \in Keys : Reconciled(l)' <=> Reconciled(l)
<1>1. /\ \A l \in Keys : l # k => events'[l] = events[l] /\ store'[l] = store[l]
      /\ events'[k] = Append(events[k], object) /\ store'[k] = object
      /\ cache' = cache
  BY DEF Write
<1>2. events'[k] # <<>> /\ events'[k][Len(events'[k])] = object
  <2>1. events[k] \in Seq(Obj)
    OBVIOUS
  <2> QED
    BY <1>1, <2>1, AppendProperties
<1>3. Informed'
  BY <1>1, <1>2 DEF Followed, Informed
<1>4. OneRequest' /\ FreshRequest'
  BY <1>1 DEF Followed, OneRequest, FreshRequest, queueVars
<1> QED
  BY <1>1, <1>3, <1>4 DEF Followed, Reconciled, Pending, queueVars

\* The informer learns of a change.
LEMMA LearnFollowed ==
  ASSUME NEW Obj, NEW k \in Keys,
         cache \in [Keys -> Obj], events \in [Keys -> Seq(Obj)],
         Followed, Learn(k)
  PROVE  /\ Followed'
         /\ \A l \in Keys : Reconciled(l)' => Reconciled(l) /\ cache'[l] = cache[l]
<1>1. /\ \A l \in Keys : l # k => events'[l] = events[l] /\ cache'[l] = cache[l]
      /\ events[k] # <<>> /\ events[k] \in Seq(Obj)
      /\ events'[k] = Tail(events[k]) /\ cache'[k] = Head(events[k])
      /\ notices[k] \in Nat /\ notices'[k] = notices[k] + 1
      /\ \A l \in Keys : l # k => notices'[l] = notices[l]
      /\ notices' \in [Keys -> Nat]
      /\ UNCHANGED <<store, dirty, delayed, taken, request>>
  BY DEF Learn, Followed
<1>2. IF events'[k] = <<>> THEN cache'[k] = store[k]
      ELSE events'[k][Len(events'[k])] = store[k]
  <2> DEFINE e == events[k]
             n == Len(e)
  <2>1. n \in Nat \ {0} /\ e[n] = store[k] /\ Head(e) = e[1]
    BY <1>1 DEF Followed, Informed
  <2>2. Len(Tail(e)) = n - 1 /\ \A i \in 1..(n - 1) : Tail(e)[i] = e[i + 1]
    BY <1>1, HeadTailProperties
  <2> HIDE DEF n
  <2>3. CASE n = 1
    <3>1. Len(Tail(e)) = 0 /\ Tail(e) \in Seq(Obj)
      BY <1>1, <2>2, <2>3, HeadTailProperties
    <3>2. Tail(e) = <<>>
      BY <3>1, EmptySeq
    <3>3. Head(e) = store[k]
      BY <2>1, <2>3
    <3> QED
      BY <1>1, <3>2, <3>3
  <2>4. CASE n # 1
    <3>1. n - 1 \in 1..(n - 1) /\ (n - 1) + 1 = n
      BY <2>1, <2>4
    <3>2. Tail(e)[n - 1] = e[n]
      BY <2>2, <3>1
    <3>3. Tail(e) # <<>>
      <4>1. Len(Tail(e)) # 0
        BY <2>1, <2>2, <2>4
      <4>2. Tail(e) \in Seq(Obj)
        BY <1>1, HeadTailProperties
      <4> QED
        BY <4>1, <4>2, EmptySeq
    <3> QED
      BY <1>1, <2>1, <2>2, <3>2, <3>3
  <2> QED
    BY <2>3, <2>4
<1>3. Informed'
  BY <1>1, <1>2 DEF Followed, Informed
<1>4. OneRequest' /\ FreshRequest'
  <2>1. notices'[k] # 0
    BY <1>1
  <2> QED
    BY <1>1, <2>1 DEF Followed, OneRequest, FreshRequest
<1>5. notices'[k] > 0
  BY <1>1
<1> QED
  BY <1>1, <1>3, <1>4, <1>5 DEF Followed, Reconciled, Pending

\* A step of the listener or of the delaying queue: keys are added to the work
\* queue.
LEMMA QueueFollowed ==
  ASSUME NEW k \in Keys, Followed, Notify(k) \/ Ripe(k)
  PROVE  /\ Followed'
         /\ UNCHANGED cache
         /\ \A l \in Keys : Reconciled(l)' => Reconciled(l)
<1>1. /\ UNCHANGED <<store, events, cache, taken, request>>
      /\ dirty' = dirty \cup {k}
      /\ delayed' \subseteq delayed /\ delayed \subseteq delayed' \cup {k}
  BY DEF Notify, Ripe, objectVars
<1>2. /\ notices' \in [Keys -> Nat]
      /\ \A l \in Keys : l # k => notices'[l] = notices[l]
  BY DEF Notify, Ripe, Followed
<1>3. Informed' /\ OneRequest' /\ FreshRequest'
  BY <1>1, <1>2 DEF Followed, Informed, OneRequest, FreshRequest
<1> QED
  BY <1>1, <1>2, <1>3 DEF Followed, Reconciled, Pending

\* The worker goroutine takes a key, and Get returns what the cache has.
LEMMA TakeFollowed ==
  ASSUME Followed, (\E k \in Keys : Take(k)) \/ Get
  PROVE  /\ Followed'
         /\ UNCHANGED cache
         /\ \A l \in Keys : Reconciled(l)' => Reconciled(l)
<1>1. ASSUME NEW k \in Keys, Take(k)
      PROVE  /\ Followed'
             /\ UNCHANGED cache
             /\ \A l \in Keys : Reconciled(l)' => Reconciled(l)
  <2>1. /\ request = {} /\ taken = {} /\ dirty' = dirty \ {k} /\ taken' = {k}
        /\ UNCHANGED <<store, events, cache, notices, delayed, request>>
    BY <1>1 DEF Take, objectVars
  <2>2. Informed' /\ OneRequest' /\ FreshRequest'
    BY <2>1 DEF Followed, Informed, OneRequest, FreshRequest
  <2> QED
    BY <2>1, <2>2 DEF Followed, Reconciled, Pending
<1>2. CASE Get
  <2>1. PICK k \in taken : TRUE
    BY <1>2 DEF Get
  <2>2. taken = {k} /\ k \in Keys /\ request = {}
    BY <2>1 DEF Followed, OneRequest
  <2>3. /\ request' = {[key |-> k, seen |-> cache[k]]} /\ taken' = {}
        /\ UNCHANGED <<store, events, cache, notices, dirty, delayed>>
    BY <1>2, <2>2 DEF Get, objectVars, queueVars
  <2>4. \A r \in request' : r.key = k /\ r.seen = cache[k]
    BY <2>3
  <2>5. Informed' /\ OneRequest' /\ FreshRequest'
    BY <2>2, <2>3, <2>4 DEF Followed, Informed, OneRequest, FreshRequest
  <2>6. ASSUME NEW l \in Keys, Reconciled(l)' PROVE Reconciled(l)
    <3>1. [key |-> k, seen |-> cache[k]] \in request' /\ [key |-> k, seen |-> cache[k]].key = k
      BY <2>3
    <3>2. l # k
      BY <2>6, <3>1 DEF Reconciled, Pending
    <3> QED
      BY <2>2, <2>3, <2>6, <3>2 DEF Reconciled, Pending
  <2> QED
    BY <2>3, <2>5, <2>6 DEF Followed
<1> QED
  BY <1>1, <1>2

\* Get fails: the key is put back.
LEMMA GetFailsFollowed ==
  ASSUME Followed, taken # {}, Requeue
  PROVE  /\ Followed'
         /\ UNCHANGED cache
         /\ \A l \in Keys : Reconciled(l)' => Reconciled(l)
<1>1. /\ UNCHANGED <<store, events, cache, notices, dirty>>
      /\ request = {} /\ request' = {} /\ taken' = {}
      /\ taken \subseteq delayed' /\ delayed \subseteq delayed'
  BY DEF Requeue, objectVars, Followed, OneRequest
<1>2. Followed'
  BY <1>1 DEF Followed, Informed, OneRequest, FreshRequest
<1> QED
  BY <1>1, <1>2 DEF Reconciled, Pending

\* Reconcile returns: a key that is now done is one that was, or the one of the
\* request, which was read from the cache as it is; never one put back.
LEMMA EndFollowed ==
  ASSUME Followed, NEW r \in request, Forget \/ Requeue
  PROVE  /\ Followed'
         /\ UNCHANGED cache
         /\ \A l \in Keys : Reconciled(l)' =>
              \/ Reconciled(l)
              \/ l = r.key /\ r.seen = cache[l] /\ Forget
         /\ Requeue => ~Reconciled(r.key)'
<1>1. /\ UNCHANGED <<store, events, cache, notices, dirty>>
      /\ request' = {} /\ taken = {} /\ taken' = {}
      /\ delayed \subseteq delayed'
  BY DEF Forget, Requeue, objectVars, queueVars, Followed, OneRequest
<1>2. Followed'
  BY <1>1 DEF Followed, Informed, OneRequest, FreshRequest
<1>3. \A s \in request : s = r
  BY DEF Followed, OneRequest
<1>4. Requeue => ~Reconciled(r.key)'
  BY DEF Requeue, Reconciled, Pending
<1>5. ASSUME NEW l \in Keys, Reconciled(l)', ~Reconciled(l)
      PROVE  l = r.key /\ r.seen = cache[l] /\ Forget
  <2>1. l \notin dirty /\ notices[l] = 0 /\ l \notin delayed
    <3>1. ~(notices[l] > 0) /\ notices[l] \in Nat
      BY <1>1, <1>5 DEF Reconciled, Pending, Followed
    <3> QED
      BY <1>1, <1>5, <3>1 DEF Reconciled, Pending
  <2>2. l = r.key
    BY <1>1, <1>3, <1>5, <2>1 DEF Reconciled, Pending
  <2> QED
    BY <1>4, <1>5, <2>1, <2>2 DEF Followed, FreshRequest
<1> QED
  BY <1>1, <1>2, <1>4, <1>5
===============================================================================
