-------------------------- MODULE ElasticsearchGather --------------------------
(***************************************************************************)
(* Instance.Gather and Instance.Init of internal/handlers/elasticsearch.    *)
(* The loops of all elasticsearch Monitors, and a stopped loop whose run    *)
(* goes on, call Gather on one shared Instance; the reconciler calls Init   *)
(* on it for another Monitor at any time.  Nothing locks its fields.        *)
(*                                                                          *)
(* A Gather has two rounds of goroutines, one goroutine per server: the     *)
(* first finds out node and master ids, the second fetches the statistics.  *)
(* For each round it reads ins.Servers three times: for the counter of the  *)
(* WaitGroup, for the room of the error channel and for the goroutines.     *)
(* Then it looks once at the error channel, without waiting; if an error is *)
(* there already it returns it, and its deferred calls close the channels   *)
(* while other goroutines of the round go on.                               *)
(*                                                                          *)
(* The first round is always run: IndicesInclude comes from ParseSlice,     *)
(* which never gives an empty slice.  A list names a server once.  A field  *)
(* is read and assigned in one step (a torn read of a slice header is not   *)
(* modelled), and Init assigns its fields in one step: a Gather that saw    *)
(* only some of them assigned saw another member of EsConfigs.              *)
(***************************************************************************)
EXTENDS Naturals, Sequences, FiniteSets

CONSTANTS
  Servers,         \* the servers that the Monitors name
  Masters,         \* those that are their cluster's master
  EsConfigs,       \* the configurations: servers, local, health, stats
  MaxEsCalls,      \* bound: calls of Gather, and of Init after the first
  MaxFailures      \* bound: goroutines of which a request fails

ASSUME ESAssumption ==
  /\ IsFiniteSet(Servers) /\ Masters \subseteq Servers
  /\ EsConfigs \subseteq [servers : SUBSET Servers, local : BOOLEAN,
                          health : BOOLEAN, stats : BOOLEAN]
  /\ MaxEsCalls \in Nat /\ MaxFailures \in Nat

Calls == 1..MaxEsCalls

VARIABLES
  conf,         \* ins.Servers, ins.Local, ins.ClusterHealth, ins.ClusterStats
  esInits,      \* calls of Init after the first
  now,          \* calls of Gather so far
  gpc,          \* Gather -> where it is
  wg,           \* Gather -> round -> counter of the WaitGroup
  room,         \* Gather -> round -> capacity of the error channel
  errors,       \* Gather -> round -> errors in its buffer
  result,       \* Gather -> "none", "nil" or "error"; the channels are closed then
  work,         \* Gather -> round -> server -> its goroutine
  info,         \* ins.serverInfo: the Gather that made the map, 0 for none
  maps,         \* Gather -> the map it made: server -> "none", "master", "other"
  lock,         \* ins.serverInfoMutex: goroutine in it and the map it stores into
  fatal,        \* what ended the process: "no", "counter", "closed", "race"
  named,        \* history: Gather -> ins.Servers when it was called
  ups,          \* history: Gather -> server -> samples "up" it pushed
  failed,       \* history: the goroutines of which a request failed
  disturbed,    \* history: Gathers during which Init was called
  beside        \* history: Gathers that ran beside another one

esHistory == <<named, ups, failed, disturbed, beside>>
esInstance == <<conf, esInits, now>>
esVars == <<conf, esInits, now, gpc, wg, room, errors, result, work, info, maps,
            lock, fatal, named, ups, failed, disturbed, beside>>

All(state) == [s \in Servers |-> state]
Rounds == 1..2
PerRound(v) == [g \in Calls |-> [r \in Rounds |-> v]]

\* Init of the first Monitor has set the fields.
ESInit ==
  /\ conf \in EsConfigs /\ esInits = 0 /\ now = 0
  /\ gpc = [g \in Calls |-> "out"]
  /\ wg = PerRound(0) /\ room = PerRound(0) /\ errors = PerRound(0)
  /\ result = [g \in Calls |-> "none"]
  /\ work = PerRound(All("none"))
  /\ info = 0 /\ maps = [g \in Calls |-> All("none")]
  /\ lock = {} /\ fatal = "no"
  /\ named = [g \in Calls |-> {}]
  /\ ups = [g \in Calls |-> All(0)]
  /\ failed = {} /\ disturbed = {} /\ beside = {}

InGather(g) == gpc[g] \notin {"out", "done"}

\* Init for another Monitor.  The fields are assigned, and stay so when
\* compileIndexMatchers refuses a pattern afterwards.
EsInit(c) ==
  /\ fatal = "no" /\ now + esInits < MaxEsCalls
  /\ conf' = c /\ esInits' = esInits + 1
  /\ disturbed' = disturbed \cup {g \in Calls : InGather(g)}
  /\ UNCHANGED <<now, gpc, wg, room, errors, result, work, info, maps, lock, fatal,
                 named, ups, failed, beside>>

(***************************************************************************)
(* The goroutine that calls Gather.                                         *)
(***************************************************************************)
At(g, here, there) ==
  /\ fatal = "no" /\ gpc[g] = here
  /\ gpc' = [gpc EXCEPT ![g] = there]

\* wgC.Add(len(ins.Servers)).
BeginEsGather(g) ==
  /\ g = now + 1 /\ now' = g /\ now + esInits < MaxEsCalls
  /\ At(g, "out", "chan1")
  /\ wg' = [wg EXCEPT ![g][1] = Cardinality(conf.servers)]
  /\ named' = [named EXCEPT ![g] = conf.servers]
  /\ LET others == {h \in Calls : InGather(h)} IN
       beside' = beside \cup (IF others = {} THEN {} ELSE others \cup {g})
  /\ UNCHANGED <<conf, esInits, room, errors, result, work, info, maps, lock, fatal,
                 ups, failed, disturbed>>

\* make(chan error, len(ins.Servers)).
MakeChan(g, r) ==
  /\ At(g, <<"chan1", "chan2">>[r], <<"map1", "range2">>[r])
  /\ room' = [room EXCEPT ![g][r] = Cardinality(conf.servers)]
  /\ UNCHANGED <<esInstance, wg, errors, result, work, info, maps, lock, fatal, esHistory>>

\* ins.serverInfo = make(map[string]serverInfo).
MakeMap(g) ==
  /\ At(g, "map1", "range1")
  /\ info' = g
  /\ UNCHANGED <<esInstance, wg, room, errors, result, work, maps, lock, fatal, esHistory>>

\* for _, serv := range ins.Servers.
Range1(g) ==
  /\ At(g, "range1", "look1")
  /\ work' = [work EXCEPT ![g][1] = [s \in Servers |-> IF s \in conf.servers THEN "id"
                                                       ELSE "none"]]
  /\ UNCHANGED <<esInstance, wg, room, errors, result, info, maps, lock, fatal, esHistory>>

\* The select with default after a round was started.
Look(g, r) ==
  LET early == errors[g][r] > 0 IN
  /\ At(g, <<"look1", "look2">>[r], IF early THEN "done" ELSE <<"wait1", "wait2">>[r])
  /\ result' = IF early THEN [result EXCEPT ![g] = "error"] ELSE result
  /\ UNCHANGED <<esInstance, wg, room, errors, work, info, maps, lock, fatal, esHistory>>

\* wg.Add(len(ins.Servers)) of the second round.
Add2(g) ==
  /\ At(g, "wait1", "chan2")
  /\ wg' = [wg EXCEPT ![g][2] = Cardinality(conf.servers)]
  /\ UNCHANGED <<esInstance, room, errors, result, work, info, maps, lock, fatal, esHistory>>

\* Mutant: no wgC.Wait().
Wait1_NoWait(g) == Add2(g)

\* wgC.Wait() returns.
Wait1(g) == wg[g][1] = 0 /\ Add2(g)

Range2(g) ==
  /\ At(g, "range2", "look2")
  /\ work' = [work EXCEPT ![g][2] = [s \in Servers |-> IF s \in conf.servers THEN "nodes"
                                                       ELSE "none"]]
  /\ UNCHANGED <<esInstance, wg, room, errors, result, info, maps, lock, fatal, esHistory>>

ReturnNil(g) ==
  /\ At(g, "wait2", "done")
  /\ result' = [result EXCEPT ![g] = "nil"]
  /\ UNCHANGED <<esInstance, wg, room, errors, work, info, maps, lock, fatal, esHistory>>

\* Mutant: no wg.Wait().
Wait2_NoWait(g) == ReturnNil(g)

\* wg.Wait() returns and Gather returns nil.
Wait2(g) == wg[g][2] = 0 /\ ReturnNil(g)

(***************************************************************************)
(* How a goroutine ends.                                                    *)
(***************************************************************************)

\* The deferred Done, which panics below zero.
Done(g, r, s) ==
  /\ work' = [work EXCEPT ![g][r][s] = "done"]
  /\ IF wg[g][r] = 0
       THEN fatal' = "counter" /\ UNCHANGED wg
       ELSE wg' = [wg EXCEPT ![g][r] = @ - 1] /\ UNCHANGED fatal

\* An error is sent: into the buffer, into a channel that is closed, or the
\* goroutine waits for room.
SendError(g, r, s) ==
  /\ Cardinality(failed) < MaxFailures
  /\ failed' = failed \cup {[call |-> g, round |-> r, server |-> s]}
  /\ \/ /\ result[g] # "none"
        /\ fatal' = "closed" /\ UNCHANGED <<wg, errors, work>>
     \/ /\ result[g] = "none" /\ errors[g][r] < room[g][r]
        /\ errors' = [errors EXCEPT ![g][r] = @ + 1]
        /\ Done(g, r, s)
     \/ /\ result[g] = "none" /\ errors[g][r] >= room[g][r]
        /\ work' = [work EXCEPT ![g][r][s] = "send"]
        /\ UNCHANGED <<wg, errors, fatal>>

\* Gather has returned: the error it took made room for one waiting sender, and
\* the close makes the others panic.
Unblocked(g, r, s) ==
  /\ fatal = "no" /\ work[g][r][s] = "send" /\ result[g] # "none"
  /\ \/ fatal' = "closed" /\ UNCHANGED <<wg, work>>
     \/ result[g] = "error" /\ Done(g, r, s)
  /\ UNCHANGED <<esInstance, gpc, room, errors, result, info, maps, lock, esHistory>>

(***************************************************************************)
(* A goroutine of the first round.                                          *)
(***************************************************************************)

\* gatherNodeID or getCatMaster fails: up is 0.
Round1Fails(g, s) ==
  /\ fatal = "no" /\ work[g][1][s] \in {"id", "master"}
  /\ ups' = [ups EXCEPT ![g][s] = @ + 1]
  /\ SendError(g, 1, s)
  /\ UNCHANGED <<esInstance, gpc, room, result, info, maps, lock, named, disturbed, beside>>

\* gatherNodeID, then getCatMaster, answer; up is 1.
Round1Answers(g, s) ==
  /\ fatal = "no" /\ work[g][1][s] \in {"id", "master"}
  /\ work' = [work EXCEPT ![g][1][s] = IF @ = "id" THEN "master" ELSE "store"]
  /\ ups' = IF work[g][1][s] = "id" THEN ups ELSE [ups EXCEPT ![g][s] = @ + 1]
  /\ UNCHANGED <<esInstance, gpc, wg, room, errors, result, info, maps, lock, fatal,
                 named, failed, disturbed, beside>>

\* serverInfoMutex.Lock(), and ins.serverInfo is read: the map of the Gather
\* that made the last one.
Locks(g, s) ==
  /\ fatal = "no" /\ work[g][1][s] = "store" /\ lock = {}
  /\ lock' = {[call |-> g, server |-> s, map |-> info]}
  /\ UNCHANGED <<esInstance, gpc, wg, room, errors, result, work, info, maps, fatal, esHistory>>

Kind(s) == IF s \in Masters THEN "master" ELSE "other"

\* The ids are stored and the mutex is unlocked.
Stores(g, s) ==
  \E l \in lock :
    /\ fatal = "no" /\ l.call = g /\ l.server = s
    /\ maps' = [maps EXCEPT ![l.map][s] = Kind(s)]
    /\ lock' = {}
    /\ UNCHANGED <<esInstance, gpc, room, errors, result, info, esHistory>>

\* Mutant: no deferred wgC.Done() for a goroutine that stores its ids.
Round1Stores_NoDone(g, s) ==
  /\ Stores(g, s)
  /\ work' = [work EXCEPT ![g][1][s] = "done"] /\ UNCHANGED <<wg, fatal>>

Round1Stores(g, s) == Stores(g, s) /\ Done(g, 1, s)

(***************************************************************************)
(* A goroutine of the second round: a request for the node statistics, then *)
(* for what the fields ask, read before each request.  The states "skip1"   *)
(* and "skip2" stand for a cluster health and cluster statistics not asked. *)
(***************************************************************************)

\* ins.serverInfo[s].isMaster(): the ids are equal, also when both are empty.
IsMaster(s) == info = 0 \/ maps[info][s] # "other"

\* Whether s is asked for what it says of its cluster.
OfMaster(s) == IsMaster(s) \/ ~conf.local

\* The request in the state "what" was answered; what the goroutine does next.
NextFetch(what, s) ==
  CASE what = "nodes" -> IF conf.health THEN "health" ELSE "skip1"
    [] what \in {"health", "skip1"} ->
         IF conf.stats /\ OfMaster(s) THEN "cluster" ELSE "skip2"
    [] what \in {"cluster", "skip2"} -> IF OfMaster(s) THEN "indices" ELSE "done"
    [] OTHER -> "done"

Requests == {"nodes", "health", "cluster", "indices"}
Fetches == Requests \cup {"skip1", "skip2"}

Round2Answers(g, s) ==
  LET what == work[g][2][s]
      next == NextFetch(what, s) IN
  /\ fatal = "no" /\ what \in Fetches
  /\ IF next = "done" THEN Done(g, 2, s)
     ELSE work' = [work EXCEPT ![g][2][s] = next] /\ UNCHANGED <<wg, fatal>>
  /\ UNCHANGED <<esInstance, gpc, room, errors, result, info, maps, lock, esHistory>>

Round2Fails(g, s) ==
  /\ fatal = "no" /\ work[g][2][s] \in Requests
  /\ SendError(g, 2, s)
  /\ UNCHANGED <<esInstance, gpc, room, result, info, maps, lock, named, ups, disturbed,
                 beside>>

\* isMaster reads the map without the mutex while a goroutine stores into it:
\* the runtime may answer with a fatal error.
Reads(g, s) ==
  \/ work[g][2][s] \in {"health", "skip1"} /\ conf.stats
  \/ work[g][2][s] \in {"cluster", "skip2"}

RaceDetected ==
  /\ fatal = "no"
  /\ \E l \in lock : l.map = info
  /\ \E g \in Calls, s \in Servers : Reads(g, s)
  /\ fatal' = "race"
  /\ UNCHANGED <<esInstance, gpc, wg, room, errors, result, work, info, maps, lock, esHistory>>
-------------------------------------------------------------------------------
EsGather(g) ==
  \/ BeginEsGather(g) \/ MakeMap(g) \/ Range1(g) \/ Wait1(g) \/ Range2(g) \/ Wait2(g)
  \/ \E r \in Rounds : MakeChan(g, r) \/ Look(g, r)

Goroutine(g, s) ==
  \/ Round1Fails(g, s) \/ Round1Answers(g, s) \/ Locks(g, s) \/ Round1Stores(g, s)
  \/ Round2Fails(g, s) \/ Round2Answers(g, s)
  \/ \E r \in Rounds : Unblocked(g, r, s)

ESNext ==
  \/ \E g \in Calls : EsGather(g)
  \/ \E g \in Calls, s \in Servers : Goroutine(g, s)
  \/ \E c \in EsConfigs : EsInit(c)
  \/ RaceDetected

ESSpec == ESInit /\ [][ESNext]_esVars

\* What goes on by itself: goroutines run, and a server answers, breaks the
\* connection or runs into http.Client.Timeout.
ESProgress == \E g \in Calls : EsGather(g) \/ \E s \in Servers : Goroutine(g, s)
-------------------------------------------------------------------------------
\* A Gather that returns nil, and during which Init was not called, leaves no
\* goroutine behind, served exactly the servers configured when it was called,
\* in both rounds, and pushed one "up" for each: whatever other Gathers did.
NilMeansComplete ==
  \A g \in Calls : result[g] = "nil" /\ g \notin disturbed =>
    \A s \in Servers :
      LET end == IF s \in named[g] THEN "done" ELSE "none" IN
      /\ work[g][1][s] = end /\ work[g][2][s] = end
      /\ ups[g][s] = IF s \in named[g] THEN 1 ELSE 0

EarlyReturn == \E g \in Calls : result[g] = "error"

\* What can end the process.  The counter of a WaitGroup goes below zero only
\* when Init was called during a Gather; a send on a closed channel needs that
\* or a Gather that a look at the error channel made return while goroutines of
\* it were running; and the unlocked read of the map meets a store only then, or
\* when two Gathers ran side by side.  Gathers one after the other that all
\* waited, of Monitors that were there before, never end it.
CrashCauses ==
  /\ fatal = "counter" => disturbed # {}
  /\ fatal = "closed" => disturbed # {} \/ EarlyReturn
  /\ fatal = "race" => disturbed # {} \/ EarlyReturn \/ beside # {}

\* With Local set, a Gather asks a server that is not the master for cluster or
\* index statistics only if its first round failed there (its empty serverInfo
\* passes isMaster), if Init was called during the Gather, or if another Gather
\* has replaced the map since: wgC.Wait makes the stored ids visible to the
\* second round.
StatsFromMaster ==
  [][ \A g \in Calls, s \in Servers :
        /\ work'[g][2][s] \in {"cluster", "indices"} /\ work'[g][2][s] # work[g][2][s]
        /\ s \notin Masters /\ conf.local /\ info = g /\ g \notin disturbed
        => [call |-> g, round |-> 1, server |-> s] \in failed ]_esVars

\* A Gather was called, has not returned, and Init was not called during it: with
\* such an Init it may wait for goroutines it never started.
EsUnderWay == fatal = "no" /\ \E g \in Calls \ disturbed : InGather(g)
===============================================================================
