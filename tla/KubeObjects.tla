------------------------------ MODULE KubeObjects ------------------------------
(***************************************************************************)
(* What a reconciler sees of Kubernetes: the API server's store and the     *)
(* watch events on their way (external), and, vendored with this program,   *)
(* client-go's informer, whose cache r.Client.Get reads, its rate limiting  *)
(* work queue, and the one worker goroutine of controller-runtime           *)
(* (MaxConcurrentReconciles is 1).                                          *)
(*                                                                          *)
(* The operators below say what one of those parts does to the variables of *)
(* this module; the controllers make actions of them.                       *)
(***************************************************************************)
EXTENDS Naturals, Sequences

CONSTANTS
  Keys,       \* namespaced names of the objects of one kind
  NoObject    \* the object does not exist

VARIABLES
  store,     \* API server: key -> object or NoObject
  version,   \* resourceVersion given to the last write
  events,    \* key -> states of the object the cache has not learnt of yet
  cache,     \* the informer's indexer: key -> object or NoObject
  notices,   \* key -> notifications not yet handed to the event handler
  dirty,     \* work queue: keys waiting
  delayed,   \* delaying queue: keys whose back-off is not over
  taken,     \* the key of the worker goroutine, before Reconcile's Get
  request    \* its key with what Get returned for it, or empty

objectVars == <<store, version, events, cache>>
queueVars == <<notices, dirty, delayed>>
kubeVars == <<objectVars, queueVars, taken, request>>

KubeInit ==
  /\ store = [k \in Keys |-> NoObject]
  /\ version = 0
  /\ events = [k \in Keys |-> <<>>]
  /\ cache = [k \in Keys |-> NoObject]
  /\ notices = [k \in Keys |-> 0]
  /\ dirty = {} /\ delayed = {} /\ taken = {} /\ request = {}

\* The server accepts a write of object k; watchers will hear of it.
Write(k, object) ==
  /\ store' = [store EXCEPT ![k] = object]
  /\ version' = version + 1
  /\ events' = [events EXCEPT ![k] = Append(@, object)]
  /\ UNCHANGED cache

\* processDeltas: the indexer learns of the next change of k, then a
\* notification is handed to the listener.
Learn(k) ==
  /\ events[k] # <<>>
  /\ cache' = [cache EXCEPT ![k] = Head(events[k])]
  /\ events' = [events EXCEPT ![k] = Tail(@)]
  /\ notices' = [notices EXCEPT ![k] = @ + 1]
  /\ UNCHANGED <<store, version, dirty, delayed, taken, request>>

\* The listener's goroutine calls the event handler, which adds the key to the
\* work queue, where a key is at most once.
Notify(k) ==
  /\ notices[k] > 0
  /\ notices' = [notices EXCEPT ![k] = @ - 1]
  /\ dirty' = dirty \cup {k}
  /\ UNCHANGED <<objectVars, delayed, taken, request>>

\* The worker goroutine takes a key from the queue ...
Take(k) ==
  /\ taken = {} /\ request = {}
  /\ k \in dirty
  /\ dirty' = dirty \ {k}
  /\ taken' = {k}
  /\ UNCHANGED <<objectVars, notices, delayed, request>>

\* ... and Reconcile's Get reads the cache, which may have moved on.
Get ==
  /\ taken # {}
  /\ request' = {[key |-> k, seen |-> cache[k]] : k \in taken}
  /\ taken' = {}
  /\ UNCHANGED <<objectVars, queueVars>>

\* Reconcile returned nil.  A back-off of the key that goes on is not ended.
Forget ==
  /\ taken' = {} /\ request' = {}
  /\ UNCHANGED <<objectVars, queueVars>>

\* It returned an error: AddRateLimited puts the key back after a back-off; a
\* key waits for at most one.
Requeue ==
  /\ delayed' = (delayed \cup taken) \cup {r.key : r \in request}
  /\ taken' = {} /\ request' = {}
  /\ UNCHANGED <<objectVars, notices, dirty>>

\* waitingLoop: the back-off of k is over.
Ripe(k) ==
  /\ k \in delayed
  /\ delayed' = delayed \ {k}
  /\ dirty' = dirty \cup {k}
  /\ UNCHANGED <<objectVars, notices, taken, request>>

\* The reconciler has k in hand, or will have it without another change.
Pending(k) ==
  \/ notices[k] > 0 \/ k \in dirty \cup delayed \cup taken
  \/ \E r \in request : r.key = k

\* Nothing is under way between the store and the reconciler.
Quiet == \A k \in Keys : events[k] = <<>> /\ ~Pending(k)
===============================================================================
