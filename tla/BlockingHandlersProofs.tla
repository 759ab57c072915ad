------------------------ MODULE BlockingHandlersProofs ------------------------
(***************************************************************************)
(* What the Gathers of elasticsearch, postgresql and mysql promise, for     *)
(* every number of servers, calls and Monitors.                             *)
(***************************************************************************)
EXTENDS BlockingHandlers, FiniteSetTheorems, SequenceTheorems, TLAPS

(***************************************************************************)
(* elasticsearch.                                                           *)
(***************************************************************************)

Pcs == {"out", "chan1", "map1", "range1", "look1", "wait1", "chan2", "range2", "look2",
        "wait2", "done"}
States == Fetches \cup {"none", "id", "master", "store", "send", "done"}

ESTypes ==
  /\ conf \in EsConfigs /\ now \in Nat /\ info \in Nat
  /\ gpc \in [Calls -> Pcs]
  /\ wg \in [Calls -> [Rounds -> Nat]]
  /\ result \in [Calls -> {"none", "nil", "error"}]
  /\ work \in [Calls -> [Rounds -> [Servers -> States]]]
  /\ maps \in [Calls -> [Servers -> {"none", "master", "other"}]]
  /\ lock \subseteq [call : Calls, server : Servers, map : Nat]
  /\ ups \in [Calls -> [Servers -> Nat]]
  /\ named \in [Calls -> SUBSET Servers]

\* Where a Gather is before it starts the goroutines of a round, after it added
\* to the counter but before it starts them, after it started them, and after
\* it waited for them.
Before(r) == IF r = 1 THEN {"out", "chan1", "map1", "range1"}
             ELSE {"out", "chan1", "map1", "range1", "look1", "wait1", "chan2", "range2"}
Starting(r) == IF r = 1 THEN {"chan1", "map1", "range1"} ELSE {"chan2", "range2"}
After(r) == IF r = 1 THEN {"look1", "wait1", "chan2", "range2", "look2", "wait2"}
            ELSE {"look2", "wait2"}
Past(r) == IF r = 1 THEN {"chan2", "range2", "look2", "wait2"} ELSE {}

\* The servers whose goroutine runs, among the goroutines w of a round.
Busy(w) == {s \in Servers : w[s] \notin {"none", "done"}}

ResultDone == \A g \in Calls : result[g] # "none" <=> gpc[g] = "done"

NotStarted ==
  \A g \in Calls, r \in Rounds : gpc[g] \in Before(r) => \A s \in Servers : work[g][r][s] = "none"

\* What holds of a Gather during which Init was not called: the servers are the
\* ones it was called with, each counter counts the goroutines that run, a round
\* has a goroutine for each server, and none runs after the wait.
SameList == \A g \in Calls : g \notin disturbed /\ InGather(g) => conf.servers = named[g]
Counts ==
  \A g \in Calls, r \in Rounds : g \notin disturbed =>
    wg[g][r] = IF gpc[g] \in Starting(r) THEN Cardinality(named[g])
               ELSE Cardinality(Busy(work[g][r]))
Started ==
  \A g \in Calls, r \in Rounds :
    g \notin disturbed /\ (gpc[g] \in After(r) \/ result[g] = "nil") =>
      \A s \in Servers : work[g][r][s] = "none" <=> s \notin named[g]
Waited ==
  \A g \in Calls, r \in Rounds :
    g \notin disturbed /\ (gpc[g] \in Past(r) \/ result[g] = "nil") =>
      \A s \in Servers : work[g][r][s] \in {"none", "done"}
SecondAfterFirst ==
  \A g \in Calls, s \in Servers :
    g \notin disturbed /\ work[g][2][s] # "none" => work[g][1][s] = "done"

\* A goroutine of the first round pushes one "up" before it ends.
UpOnce ==
  \A g \in Calls, s \in Servers :
    /\ work[g][1][s] = "none" => ups[g][s] = 0
    /\ work[g][1][s] \in {"id", "master"} /\ fatal = "no" => ups[g][s] = 0
    /\ work[g][1][s] \in {"store", "send", "done"} => ups[g][s] = 1

\* The map a Gather made, while the field holds it, has the ids of every server
\* whose goroutine ended without an error.
FailedFirst(g, s) == [call |-> g, round |-> 1, server |-> s]
Known ==
  \A g \in Calls, s \in Servers :
    /\ work[g][1][s] = "send" => FailedFirst(g, s) \in failed
    /\ work[g][1][s] = "done" /\ info = g =>
         maps[g][s] = Kind(s) \/ FailedFirst(g, s) \in failed
InMutex ==
  \A l \in lock : /\ work[l.call][1][l.server] = "store"
                  /\ info = l.call => l.map = info

Beside ==
  \A g, h \in Calls : g # h /\ InGather(g) /\ InGather(h) => beside # {}

\* The part about the calls and the goroutines, which a step of a goroutine
\* changes in one way only.
Shape == /\ ResultDone /\ NotStarted /\ SameList /\ Counts /\ Started /\ Waited
         /\ SecondAfterFirst

ESInv ==
  ESTypes /\ Shape /\ UpOnce /\ Known /\ InMutex /\ Beside /\ CrashCauses

LEMMA ESInitInv == ESInit => ESInv
<1> SUFFICES ASSUME ESInit PROVE ESInv
  OBVIOUS
<1>1. ESTypes /\ ResultDone /\ NotStarted
  BY ESAssumption DEF ESInit, ESTypes, ResultDone, NotStarted, PerRound, Rounds, All, States,
     Fetches, Requests, Pcs
<1>2. SameList /\ Started /\ Waited /\ SecondAfterFirst
  BY DEF ESInit, SameList, Started, Waited, SecondAfterFirst, InGather, After, Past, PerRound,
         All, Rounds
<1>3. Counts
  <2> SUFFICES ASSUME NEW g \in Calls, NEW r \in Rounds
               PROVE  wg[g][r] = IF gpc[g] \in Starting(r) THEN Cardinality(named[g])
                                 ELSE Cardinality(Busy(work[g][r]))
    BY DEF Counts
  <2>1. gpc[g] \notin Starting(r)
    BY DEF ESInit, Starting
  <2>2. Busy(work[g][r]) = {}
    BY DEF ESInit, Busy, PerRound, All
  <2>3. wg[g][r] = 0
    BY DEF ESInit, PerRound
  <2> QED
    BY <2>1, <2>2, <2>3, FS_EmptySet
<1>4. UpOnce /\ Known /\ InMutex /\ Beside /\ CrashCauses
  BY DEF ESInit, UpOnce, Known, InMutex, Beside, CrashCauses, InGather, PerRound, All, Rounds
<1> QED
  BY <1>1, <1>2, <1>3, <1>4 DEF ESInv, Shape

\* One goroutine less, and a goroutine that goes on.
LEMMA OneLess ==
  ASSUME NEW w \in [Servers -> States], NEW s \in Servers, w[s] \notin {"none", "done"}
  PROVE  /\ Busy([w EXCEPT ![s] = "done"]) = Busy(w) \ {s}
         /\ Cardinality(Busy(w)) \in Nat \ {0}
         /\ Cardinality(Busy(w) \ {s}) = Cardinality(Busy(w)) - 1
<1>1. IsFiniteSet(Busy(w)) /\ s \in Busy(w)
  BY ESAssumption, FS_Subset DEF Busy
<1>2. Cardinality(Busy(w)) \in Nat /\ Cardinality(Busy(w)) # 0
  BY <1>1, FS_CardinalityType, FS_EmptySet
<1>3. Cardinality(Busy(w) \ {s}) = Cardinality(Busy(w)) - 1
  BY <1>1, FS_RemoveElement
<1>4. Busy([w EXCEPT ![s] = "done"]) = Busy(w) \ {s}
  BY DEF Busy
<1> QED
  BY <1>2, <1>3, <1>4

LEMMA OneGoesOn ==
  ASSUME NEW w \in [Servers -> States], NEW s \in Servers, w[s] \notin {"none", "done"},
         NEW x, x \notin {"none", "done"}
  PROVE  Busy([w EXCEPT ![s] = x]) = Busy(w)
BY DEF Busy

\* A running goroutine moves on or ends.  The counter is not zero then, unless
\* Init was called during its Gather.
LEMMA GoroutineMoves ==
  ASSUME ESTypes, Shape, NEW g \in Calls, NEW r \in Rounds, NEW s \in Servers,
         NEW x \in States \ {"none"},
         work[g][r][s] \notin {"none", "done"},
         UNCHANGED <<conf, gpc, result, named, disturbed>>,
         work' = [work EXCEPT ![g][r][s] = x],
         \/ x # "done" /\ UNCHANGED <<wg, fatal>>
         \/ x = "done" /\ Done(g, r, s)
  PROVE  /\ Shape'
         /\ work' \in [Calls -> [Rounds -> [Servers -> States]]]
         /\ wg' \in [Calls -> [Rounds -> Nat]]
         /\ fatal' = fatal \/ (fatal' = "counter" /\ g \in disturbed)
<1> USE DEF ESTypes
<1>1. \A h \in Calls, q \in Rounds, t \in Servers :
        work'[h][q][t] = IF h = g /\ q = r /\ t = s THEN x ELSE work[h][q][t]
  OBVIOUS
<1>2. \A h \in Calls, q \in Rounds : h # g \/ q # r => work'[h][q] = work[h][q]
  OBVIOUS
<1>3. work'[g][r] = [work[g][r] EXCEPT ![s] = x]
  OBVIOUS
<1>4. work' \in [Calls -> [Rounds -> [Servers -> States]]]
  OBVIOUS
<1>5. gpc[g] \notin Before(r)
  BY DEF Shape, NotStarted
<1>6. gpc[g] \notin Starting(r)
  BY <1>5 DEF Before, Starting
<1>7. wg[g][r] \in Nat /\ work[g][r] \in [Servers -> States]
  OBVIOUS
<1>8. g \notin disturbed => wg[g][r] = Cardinality(Busy(work[g][r]))
  BY <1>6 DEF Shape, Counts
<1>9. /\ wg' \in [Calls -> [Rounds -> Nat]]
      /\ fatal' = fatal \/ (fatal' = "counter" /\ g \in disturbed)
      /\ \A h \in Calls, q \in Rounds : h # g \/ q # r => wg'[h][q] = wg[h][q]
      /\ g \notin disturbed => wg'[g][r] = Cardinality(Busy(work'[g][r]))
  <2>1. CASE x # "done" /\ UNCHANGED <<wg, fatal>>
    <3>1. Busy([work[g][r] EXCEPT ![s] = x]) = Busy(work[g][r])
      <4>1. x \notin {"none", "done"}
        BY <2>1
      <4> HIDE DEF ESTypes
      <4> QED
        BY <1>7, <4>1, OneGoesOn
    <3> QED
      BY <1>3, <1>8, <2>1, <3>1
  <2>2. CASE x = "done" /\ Done(g, r, s)
    <3>1. Busy(work'[g][r]) = Busy(work[g][r]) \ {s}
      <4>1. work'[g][r] = [work[g][r] EXCEPT ![s] = "done"]
        BY <1>3, <2>2
      <4>2. Busy([work[g][r] EXCEPT ![s] = "done"]) = Busy(work[g][r]) \ {s}
        <5> HIDE DEF ESTypes
        <5> QED
          BY <1>7, OneLess
      <4> QED
        BY <4>1, <4>2
    <3>2. /\ Cardinality(Busy(work[g][r])) \in Nat \ {0}
          /\ Cardinality(Busy(work[g][r]) \ {s}) = Cardinality(Busy(work[g][r])) - 1
      BY <1>7, OneLess
    <3>3. CASE wg[g][r] = 0
      BY <1>8, <2>2, <3>2, <3>3 DEF Done
    <3>4. CASE wg[g][r] # 0
      <4>1. wg' = [wg EXCEPT ![g][r] = @ - 1] /\ fatal' = fatal
        BY <2>2, <3>4 DEF Done
      <4>2. wg[g][r] - 1 \in Nat
        BY <1>7, <3>4
      <4>3. wg' \in [Calls -> [Rounds -> Nat]] /\ wg'[g][r] = wg[g][r] - 1
        BY <4>1, <4>2
      <4>4. \A h \in Calls, q \in Rounds : h # g \/ q # r => wg'[h][q] = wg[h][q]
        BY <4>1
      <4> QED
        BY <1>8, <3>1, <3>2, <4>1, <4>3, <4>4
    <3> QED
      BY <3>3, <3>4
  <2> QED
    BY <2>1, <2>2
<1>10. ResultDone' /\ SameList'
  BY DEF Shape, ResultDone, SameList, InGather
<1>11. NotStarted'
  BY <1>1, <1>5 DEF Shape, NotStarted
<1>12. Counts'
  <2> SUFFICES ASSUME NEW h \in Calls, NEW q \in Rounds, h \notin disturbed
               PROVE  wg'[h][q] = IF gpc[h] \in Starting(q) THEN Cardinality(named[h])
                                  ELSE Cardinality(Busy(work'[h][q]))
    BY DEF Counts
  <2>1. CASE h = g /\ q = r
    BY <1>6, <1>9, <2>1
  <2>2. CASE h # g \/ q # r
    BY <1>2, <1>9, <2>2 DEF Shape, Counts
  <2> QED
    BY <2>1, <2>2
<1>13. Started'
  BY <1>1 DEF Shape, Started
<1>14. Waited'
  BY <1>1 DEF Shape, Waited
<1>15. SecondAfterFirst'
  BY <1>1 DEF Shape, SecondAfterFirst, Rounds
<1> QED
  BY <1>4, <1>9, <1>10, <1>11, <1>12, <1>13, <1>14, <1>15 DEF Shape

\* The steps of the goroutines.
LEMMA FailsStep ==
  ASSUME ESInv, NEW g \in Calls, NEW s \in Servers,
         \/ Round1Fails(g, s) \/ Round2Fails(g, s)
  PROVE  ESInv'
<1> USE DEF ESInv
<1> PICK r \in Rounds : /\ fatal = "no" /\ SendError(g, r, s)
                        /\ work[g][r][s] \in {"id", "master"} \cup Requests
                        /\ r = 1 => ups' = [ups EXCEPT ![g][s] = @ + 1]
                        /\ r = 1 => work[g][r][s] \in {"id", "master"}
                        /\ r = 2 => ups' = ups
                        /\ UNCHANGED <<esInstance, gpc, room, result, info, maps, lock, named,
                                       disturbed, beside>>
  BY DEF Round1Fails, Round2Fails, Rounds
<1>0. r = 1 \/ r = 2
  BY DEF Rounds
<1>1. ups' \in [Calls -> [Servers -> Nat]]
  <2>1. ups \in [Calls -> [Servers -> Nat]] /\ ups[g][s] + 1 \in Nat
    BY DEF ESTypes
  <2> QED
    BY <1>0, <2>1
<1>2. /\ failed \subseteq failed'
      /\ r = 1 => FailedFirst(g, s) \in failed'
  BY DEF SendError, FailedFirst
<1>3. /\ conf' = conf /\ now' = now /\ gpc' = gpc /\ result' = result /\ info' = info
      /\ maps' = maps /\ lock' = lock /\ named' = named /\ disturbed' = disturbed
      /\ beside' = beside
  BY DEF esInstance
<1>4. CASE result[g] # "none" /\ fatal' = "closed" /\ UNCHANGED <<wg, errors, work>>
  <2>1. ESTypes'
    BY <1>1, <1>3, <1>4 DEF ESTypes
  <2>2. Shape'
    BY <1>3, <1>4 DEF Shape, ResultDone, NotStarted, SameList, Counts, Started, Waited,
                      SecondAfterFirst, InGather
  <2>3. UpOnce'
    <3>1. r = 1 => work[g][1][s] \in {"id", "master"}
      OBVIOUS
    <3>2. \A h \in Calls, t \in Servers : h # g \/ t # s => ups'[h][t] = ups[h][t]
      BY <1>0 DEF ESTypes
    <3>3. r = 2 => ups' = ups
      OBVIOUS
    <3> HIDE DEF ESInv
    <3> QED
      BY <1>0, <1>4, <3>1, <3>2, <3>3 DEF ESInv, UpOnce
  <2>4. Known' /\ InMutex' /\ Beside'
    BY <1>2, <1>3, <1>4 DEF Known, InMutex, Beside, InGather
  <2>5. CrashCauses'
    <3>1. result[g] = "nil" => g \in disturbed
      BY DEF Shape, Waited, Requests, Rounds
    <3> QED
      BY <1>3, <1>4, <3>1 DEF CrashCauses, EarlyReturn, ESTypes
  <2> QED
    BY <2>1, <2>2, <2>3, <2>4, <2>5
<1>5. CASE \/ work' = [work EXCEPT ![g][r][s] = "send"] /\ UNCHANGED <<wg, fatal>>
           \/ Done(g, r, s)
  <2>1. PICK x \in {"send", "done"} :
          /\ work' = [work EXCEPT ![g][r][s] = x]
          /\ \/ x # "done" /\ UNCHANGED <<wg, fatal>>
             \/ x = "done" /\ Done(g, r, s)
    <3>1. CASE work' = [work EXCEPT ![g][r][s] = "send"] /\ UNCHANGED <<wg, fatal>>
      <4> WITNESS "send" \in {"send", "done"}
      <4> QED
        BY <3>1
    <3>2. CASE Done(g, r, s)
      <4> WITNESS "done" \in {"send", "done"}
      <4> QED
        BY <3>2 DEF Done
    <3> QED
      BY <1>5, <3>1, <3>2
  <2>2. x \in States \ {"none"} /\ work[g][r][s] \notin {"none", "done"}
    BY DEF States, Requests
  <2>3. /\ Shape' /\ work' \in [Calls -> [Rounds -> [Servers -> States]]]
        /\ wg' \in [Calls -> [Rounds -> Nat]]
        /\ fatal' = fatal \/ (fatal' = "counter" /\ g \in disturbed)
    <3> HIDE DEF ESInv
    <3> QED
      BY <1>3, <2>1, <2>2, GoroutineMoves DEF ESInv
  <2>4. ESTypes'
    BY <1>1, <1>3, <2>3 DEF ESTypes
  <2>5. \A h \in Calls, q \in Rounds, t \in Servers :
          work'[h][q][t] = IF h = g /\ q = r /\ t = s THEN x ELSE work[h][q][t]
    BY <2>1 DEF ESTypes
  <2>6. UpOnce'
    <3> SUFFICES ASSUME NEW h \in Calls, NEW t \in Servers
                 PROVE  /\ work'[h][1][t] = "none" => ups'[h][t] = 0
                        /\ work'[h][1][t] \in {"id", "master"} /\ fatal' = "no" => ups'[h][t] = 0
                        /\ work'[h][1][t] \in {"store", "send", "done"} => ups'[h][t] = 1
      BY DEF UpOnce
    <3>1. CASE r = 1 /\ h = g /\ t = s
      BY <2>1, <2>5, <3>1 DEF UpOnce, ESTypes, Rounds
    <3>2. CASE r = 1 /\ (h # g \/ t # s)
      BY <2>5, <3>2 DEF UpOnce, ESTypes, Rounds
    <3>3. CASE r = 2
      BY <2>5, <3>3 DEF UpOnce, Rounds
    <3> QED
      BY <3>1, <3>2, <3>3 DEF Rounds
  <2>7. Known'
    BY <1>2, <1>3, <2>5 DEF Known, Rounds
  <2>8. InMutex'
    <3>1. 1 \in Rounds /\ work[g][r][s] # "store"
      BY DEF Rounds, Requests
    <3>2. \A l \in lock : l.call \in Calls /\ l.server \in Servers
      BY DEF ESTypes
    <3>3. \A l \in lock : work'[l.call][1][l.server] = "store"
      BY <2>5, <3>1, <3>2 DEF InMutex
    <3> QED
      BY <1>3, <3>3 DEF InMutex
  <2>9. Beside' /\ CrashCauses'
    BY <1>3, <2>3 DEF Beside, InGather, CrashCauses, EarlyReturn
  <2> QED
    BY <2>3, <2>4, <2>6, <2>7, <2>8, <2>9
<1> QED
  BY <1>4, <1>5 DEF SendError

LEMMA MovesStep ==
  ASSUME ESInv, NEW g \in Calls, NEW s \in Servers,
         \/ Round1Answers(g, s) \/ Round2Answers(g, s)
         \/ \E r \in Rounds : Unblocked(g, r, s)
  PROVE  ESInv'
<1> USE DEF ESInv
<1>1. CASE Round1Answers(g, s)
  <2>1. PICK x \in {"master", "store"} :
          /\ work' = [work EXCEPT ![g][1][s] = x]
          /\ UNCHANGED <<wg, fatal>>
          /\ ups' = IF x = "master" THEN ups ELSE [ups EXCEPT ![g][s] = @ + 1]
    BY <1>1 DEF Round1Answers, ESTypes, Rounds
  <2>2. /\ x \in States \ {"none"} /\ x # "done" /\ work[g][1][s] \notin {"none", "done"}
        /\ 1 \in Rounds
    BY <1>1 DEF States, Round1Answers, Rounds
  <2>3. /\ conf' = conf /\ now' = now /\ gpc' = gpc /\ result' = result /\ info' = info
        /\ maps' = maps /\ lock' = lock /\ named' = named /\ disturbed' = disturbed
        /\ beside' = beside /\ failed' = failed
    BY <1>1 DEF Round1Answers, esInstance
  <2>4. /\ Shape' /\ work' \in [Calls -> [Rounds -> [Servers -> States]]]
        /\ wg' \in [Calls -> [Rounds -> Nat]]
    <3> HIDE DEF ESInv
    <3> QED
      BY <2>1, <2>2, <2>3, GoroutineMoves DEF ESInv
  <2>5. ESTypes'
    BY <2>1, <2>3, <2>4 DEF ESTypes
  <2>6. \A h \in Calls, q \in Rounds, t \in Servers :
          work'[h][q][t] = IF h = g /\ q = 1 /\ t = s THEN x ELSE work[h][q][t]
    BY <2>1 DEF ESTypes
  <2>7. UpOnce'
    <3>1. fatal = "no" /\ work[g][1][s] \in {"id", "master"}
      BY <1>1 DEF Round1Answers
    <3> QED
      BY <2>1, <2>6, <3>1 DEF UpOnce, ESTypes, Rounds
  <2>8. Known' /\ InMutex'
    <3>1. work[g][1][s] \in {"id", "master"}
      BY <1>1 DEF Round1Answers
    <3> QED
      BY <2>1, <2>3, <2>6, <3>1 DEF Known, InMutex, ESTypes, Rounds
  <2>9. Beside' /\ CrashCauses'
    BY <2>1, <2>3 DEF Beside, InGather, CrashCauses, EarlyReturn
  <2> QED
    BY <2>4, <2>5, <2>7, <2>8, <2>9
<1>2. ASSUME NEW r \in Rounds, Round2Answers(g, s) \/ Unblocked(g, r, s)
      PROVE  ESInv'
  <2>1. /\ conf' = conf /\ now' = now /\ gpc' = gpc /\ result' = result /\ info' = info
        /\ maps' = maps /\ lock' = lock /\ named' = named /\ disturbed' = disturbed
        /\ beside' = beside /\ failed' = failed /\ ups' = ups /\ fatal = "no"
    BY <1>2 DEF Round2Answers, Unblocked, esInstance, esHistory
  <2>2. CASE Unblocked(g, r, s) /\ fatal' = "closed" /\ UNCHANGED <<wg, work>>
    <3>1. ESTypes' /\ UpOnce'
      BY <2>1, <2>2 DEF ESTypes, UpOnce
    <3>2. Shape'
      BY <2>1, <2>2 DEF Shape, ResultDone, NotStarted, SameList, Counts, Started, Waited,
                        SecondAfterFirst, InGather
    <3>3. Known' /\ InMutex' /\ Beside'
      BY <2>1, <2>2 DEF Known, InMutex, Beside, InGather
    <3>4. result[g] = "nil" => g \in disturbed
      BY <2>2 DEF Unblocked, Shape, Waited
    <3>5. CrashCauses'
      BY <2>1, <2>2, <3>4 DEF Unblocked, CrashCauses, EarlyReturn, ESTypes
    <3> QED
      BY <3>1, <3>2, <3>3, <3>5
  <2>3. ASSUME NEW q \in Rounds, NEW x \in States \ {"none"},
               work' = [work EXCEPT ![g][q][s] = x],
               \/ x # "done" /\ UNCHANGED <<wg, fatal>>
               \/ x = "done" /\ Done(g, q, s),
               q = 1 => x = "done" /\ work[g][1][s] = "send",
               work[g][q][s] \notin {"none", "done"}
        PROVE  ESInv'
    <3>1. /\ Shape' /\ work' \in [Calls -> [Rounds -> [Servers -> States]]]
          /\ wg' \in [Calls -> [Rounds -> Nat]]
          /\ fatal' = fatal \/ (fatal' = "counter" /\ g \in disturbed)
      <4> HIDE DEF ESInv
      <4> QED
        BY <2>1, <2>3, GoroutineMoves DEF ESInv
    <3>2. ESTypes'
      BY <2>1, <3>1 DEF ESTypes
    <3>3. \A h \in Calls, p \in Rounds, t \in Servers :
            work'[h][p][t] = IF h = g /\ p = q /\ t = s THEN x ELSE work[h][p][t]
      BY <2>3 DEF ESTypes
    <3>4. UpOnce' /\ Known' /\ InMutex'
      BY <2>1, <2>3, <3>3 DEF UpOnce, Known, InMutex, ESTypes, Rounds
    <3>5. Beside' /\ CrashCauses'
      BY <2>1, <3>1 DEF Beside, InGather, CrashCauses, EarlyReturn
    <3> QED
      BY <3>1, <3>2, <3>4, <3>5
  <2>4. CASE Unblocked(g, r, s) /\ Done(g, r, s)
    <3>1. "done" \in States \ {"none"} /\ work[g][r][s] = "send"
      BY <2>4 DEF Unblocked, States
    <3>2. work' = [work EXCEPT ![g][r][s] = "done"]
      BY <2>4 DEF Done
    <3> QED
      BY <2>3, <2>4, <3>1, <3>2
  <2>5. CASE Round2Answers(g, s)
    <3> DEFINE x == NextFetch(work[g][2][s], s)
    <3>1. x \in States \ {"none"} /\ work[g][2][s] \notin {"none", "done"}
      BY <2>5 DEF Round2Answers, States, NextFetch, Fetches, Requests
    <3>2. \/ x = "done" /\ Done(g, 2, s)
          \/ x # "done" /\ work' = [work EXCEPT ![g][2][s] = x] /\ UNCHANGED <<wg, fatal>>
      BY <2>5 DEF Round2Answers
    <3>3. work' = [work EXCEPT ![g][2][s] = x] /\ 2 \in Rounds /\ 2 # 1
      BY <3>2 DEF Done, Rounds
    <3> HIDE DEF x
    <3> QED
      BY <2>3, <3>1, <3>2, <3>3
  <2> QED
    BY <1>2, <2>2, <2>4, <2>5 DEF Unblocked
<1>3. 1 \in Rounds
  BY DEF Rounds
<1> QED
  BY <1>1, <1>2, <1>3

LEMMA StoreStep ==
  ASSUME ESInv, NEW g \in Calls, NEW s \in Servers, Locks(g, s) \/ Round1Stores(g, s)
  PROVE  ESInv'
<1> USE DEF ESInv
<1>0. 1 \in Rounds
  BY DEF Rounds
<1>1. CASE Locks(g, s)
  <2>1. /\ conf' = conf /\ now' = now /\ gpc' = gpc /\ result' = result /\ info' = info
        /\ maps' = maps /\ named' = named /\ disturbed' = disturbed /\ fatal' = fatal
        /\ beside' = beside /\ failed' = failed /\ ups' = ups /\ work' = work /\ wg' = wg
    BY <1>1 DEF Locks, esInstance, esHistory
  <2>2. \A l \in lock' : l = [call |-> g, server |-> s, map |-> info] /\ work[g][1][s] = "store"
    BY <1>1 DEF Locks
  <2>3. ESTypes'
    BY <2>1, <2>2 DEF ESTypes
  <2>4. InMutex'
    BY <2>1, <2>2 DEF InMutex
  <2>5. Shape'
    BY <2>1 DEF Shape, ResultDone, NotStarted, SameList, Counts, Started, Waited,
                SecondAfterFirst, InGather
  <2>6. UpOnce' /\ Known' /\ Beside' /\ CrashCauses'
    BY <2>1 DEF UpOnce, Known, Beside, InGather, CrashCauses, EarlyReturn
  <2> QED
    BY <2>3, <2>4, <2>5, <2>6
<1>2. CASE Round1Stores(g, s)
  <2>1. PICK l \in lock :
          /\ l.call = g /\ l.server = s /\ fatal = "no"
          /\ maps' = [maps EXCEPT ![l.map][s] = Kind(s)]
          /\ lock' = {}
          /\ UNCHANGED <<esInstance, gpc, room, errors, result, info, esHistory>>
    BY <1>2 DEF Round1Stores, Stores
  <2>2. /\ conf' = conf /\ now' = now /\ gpc' = gpc /\ result' = result /\ info' = info
        /\ named' = named /\ disturbed' = disturbed
        /\ beside' = beside /\ failed' = failed /\ ups' = ups
    BY <2>1 DEF esInstance, esHistory
  <2>3. work[g][1][s] = "store" /\ (info = g => l.map = g)
    BY <2>1 DEF InMutex
  <2>4. "done" \in States \ {"none"} /\ work' = [work EXCEPT ![g][1][s] = "done"]
    BY <1>2 DEF Round1Stores, Done, States
  <2>5. /\ Shape' /\ work' \in [Calls -> [Rounds -> [Servers -> States]]]
        /\ wg' \in [Calls -> [Rounds -> Nat]]
        /\ fatal' = fatal \/ (fatal' = "counter" /\ g \in disturbed)
    <3>1. Done(g, 1, s)
      BY <1>2 DEF Round1Stores
    <3> HIDE DEF ESInv
    <3> QED
      BY <1>0, <2>2, <2>3, <2>4, <3>1, GoroutineMoves DEF ESInv
  <2>6. /\ maps' \in [Calls -> [Servers -> {"none", "master", "other"}]]
        /\ \A h \in Calls, t \in Servers :
             maps'[h][t] = IF h = l.map /\ t = s THEN Kind(s) ELSE maps[h][t]
    BY <2>1 DEF ESTypes, Kind
  <2>7. ESTypes'
    BY <2>1, <2>2, <2>5, <2>6 DEF ESTypes
  <2>8. \A h \in Calls, q \in Rounds, t \in Servers :
          work'[h][q][t] = IF h = g /\ q = 1 /\ t = s THEN "done" ELSE work[h][q][t]
    BY <2>4 DEF ESTypes
  <2>9. UpOnce' /\ InMutex'
    <3>1. InMutex'
      BY <2>1 DEF InMutex
    <3>2. ups[g][s] = 1 /\ fatal = "no"
      BY <2>1, <2>3 DEF UpOnce
    <3>3. \A h \in Calls, t \in Servers :
            work'[h][1][t] = IF h = g /\ t = s THEN "done" ELSE work[h][1][t]
      BY <1>0, <2>8
    <3> HIDE DEF ESInv
    <3>4. UpOnce
      BY DEF ESInv
    <3> QED
      BY <2>2, <3>1, <3>2, <3>3, <3>4 DEF UpOnce
  <2>10. Known'
    BY <1>0, <2>2, <2>3, <2>6, <2>8 DEF Known
  <2>11. Beside' /\ CrashCauses'
    BY <2>2, <2>5 DEF Beside, InGather, CrashCauses, EarlyReturn
  <2> QED
    BY <2>5, <2>7, <2>9, <2>10, <2>11
<1> QED
  BY <1>1, <1>2

\* A store that meets an unlocked read comes from a Gather that is not the
\* reader's: one that runs beside it, or that returned early.
LEMMA RaceStep == ASSUME ESInv, RaceDetected PROVE ESInv'
<1> USE DEF ESInv
<1>1. /\ conf' = conf /\ now' = now /\ gpc' = gpc /\ result' = result /\ info' = info
      /\ maps' = maps /\ named' = named /\ disturbed' = disturbed /\ lock' = lock
      /\ beside' = beside /\ failed' = failed /\ ups' = ups /\ work' = work /\ wg' = wg
  BY DEF RaceDetected, esInstance, esHistory
<1>2. fatal' = "race" /\ fatal = "no"
  BY DEF RaceDetected
<1>3. ESTypes' /\ InMutex' /\ UpOnce' /\ Known' /\ Beside'
  BY <1>1, <1>2 DEF ESTypes, InMutex, UpOnce, Known, Beside, InGather
<1>4. Shape'
  BY <1>1 DEF Shape, ResultDone, NotStarted, SameList, Counts, Started, Waited,
              SecondAfterFirst, InGather
<1>5. ASSUME disturbed = {}, ~EarlyReturn PROVE beside # {}
  <2>0. 1 \in Rounds /\ 2 \in Rounds
    BY DEF Rounds
  <2>1. PICK l \in lock : l.map = info
    BY DEF RaceDetected
  <2>2. PICK g \in Calls, s \in Servers : Reads(g, s)
    BY DEF RaceDetected
  <2> DEFINE h == l.call
  <2>3. h \in Calls /\ l.server \in Servers /\ work[h][1][l.server] = "store"
    BY <2>1 DEF ESTypes, InMutex
  <2>4. work[g][2][s] \notin {"none", "done"}
    BY <2>2 DEF Reads
  <2>5. result[g] = "none" /\ result[h] = "none"
    <3>1. result[g] # "nil"
      BY <1>5, <2>0, <2>4 DEF Shape, Waited
    <3>2. result[h] # "nil"
      BY <1>5, <2>0, <2>3 DEF Shape, Waited
    <3> QED
      BY <1>5, <2>3, <3>1, <3>2 DEF EarlyReturn, ESTypes
  <2>6. InGather(g) /\ InGather(h)
    <3>1. gpc[g] # "done" /\ gpc[h] # "done"
      BY <2>3, <2>5 DEF Shape, ResultDone
    <3>2. gpc[g] # "out" /\ gpc[h] # "out"
      BY <2>0, <2>3, <2>4 DEF Shape, NotStarted, Before
    <3> QED
      BY <3>1, <3>2 DEF InGather
  <2>7. g # h
    <3>1. gpc[g] \in Past(1)
      <4>1. gpc[g] \notin Before(2)
        BY <2>0, <2>4 DEF Shape, NotStarted
      <4>2. gpc[g] \in Pcs
        BY DEF ESTypes
      <4> QED
        BY <2>6, <4>1, <4>2 DEF Before, Past, InGather, Pcs
    <3>2. work[g][1][l.server] \in {"none", "done"}
      BY <1>5, <2>0, <2>3, <3>1 DEF Shape, Waited
    <3> QED
      BY <2>3, <3>2
  <2> QED
    BY <2>3, <2>6, <2>7 DEF Beside
<1>6. CrashCauses'
  BY <1>1, <1>2, <1>5 DEF CrashCauses, EarlyReturn
<1> QED
  BY <1>3, <1>4, <1>6

\* Init changes the fields under every Gather that runs.
LEMMA EsInitStep == ASSUME ESInv, NEW c \in EsConfigs, EsInit(c) PROVE ESInv'
<1> USE DEF ESInv
<1>1. /\ now' = now /\ gpc' = gpc /\ result' = result /\ info' = info /\ conf' = c
      /\ maps' = maps /\ named' = named /\ lock' = lock /\ fatal' = fatal
      /\ beside' = beside /\ failed' = failed /\ ups' = ups /\ work' = work /\ wg' = wg
      /\ disturbed' = disturbed \cup {g \in Calls : InGather(g)}
  BY DEF EsInit
<1>2. ESTypes' /\ InMutex' /\ UpOnce' /\ Known' /\ Beside'
  BY <1>1 DEF ESTypes, InMutex, UpOnce, Known, Beside, InGather
<1>3. Shape'
  BY <1>1 DEF Shape, ResultDone, NotStarted, SameList, Counts, Started, Waited,
              SecondAfterFirst, InGather
<1>4. CrashCauses'
  BY <1>1 DEF CrashCauses, EarlyReturn
<1> QED
  BY <1>2, <1>3, <1>4

(***************************************************************************)
(* The steps of the goroutine that calls Gather.                            *)
(***************************************************************************)

\* Only the place of g changes, within a round, or to its end.
LEMMA PlaceStep ==
  ASSUME ESInv, NEW g \in Calls, NEW r \in Rounds, MakeChan(g, r) \/ Look(g, r)
  PROVE  ESInv'
<1> USE DEF ESInv
<1>1. /\ conf' = conf /\ now' = now /\ info' = info /\ maps' = maps /\ named' = named
      /\ disturbed' = disturbed /\ lock' = lock /\ fatal' = fatal /\ beside' = beside
      /\ failed' = failed /\ ups' = ups /\ work' = work /\ wg' = wg
  BY DEF MakeChan, Look, esInstance, esHistory
<1> DEFINE here == gpc[g]
           there == gpc'[g]
<1>2. /\ \/ here = "chan1" /\ there = "map1"
         \/ here = "look1" /\ there \in {"wait1", "done"}
         \/ here = "chan2" /\ there = "range2"
         \/ here = "look2" /\ there \in {"wait2", "done"}
      /\ gpc' = [gpc EXCEPT ![g] = there]
      /\ result' = IF there = "done" THEN [result EXCEPT ![g] = "error"] ELSE result
  <2>1. /\ r = 1 \/ r = 2
        /\ <<"chan1", "chan2">>[1] = "chan1" /\ <<"chan1", "chan2">>[2] = "chan2"
        /\ <<"map1", "range2">>[1] = "map1" /\ <<"map1", "range2">>[2] = "range2"
        /\ <<"look1", "look2">>[1] = "look1" /\ <<"look1", "look2">>[2] = "look2"
        /\ <<"wait1", "wait2">>[1] = "wait1" /\ <<"wait1", "wait2">>[2] = "wait2"
    BY DEF Rounds
  <2>2. gpc \in [Calls -> Pcs]
    BY DEF ESTypes
  <2> HIDE DEF ESInv
  <2>3. CASE MakeChan(g, r)
    <3>1. \/ here = "chan1" /\ gpc' = [gpc EXCEPT ![g] = "map1"]
          \/ here = "chan2" /\ gpc' = [gpc EXCEPT ![g] = "range2"]
      BY <2>1, <2>3 DEF MakeChan, At
    <3>2. result' = result
      BY <2>3 DEF MakeChan
    <3> QED
      BY <2>2, <3>1, <3>2
  <2>4. CASE Look(g, r)
    <3>1. CASE errors[g][r] > 0
      <4>1. /\ here = "look1" \/ here = "look2"
            /\ gpc' = [gpc EXCEPT ![g] = "done"] /\ result' = [result EXCEPT ![g] = "error"]
        BY <2>1, <2>4, <3>1 DEF Look, At
      <4> QED
        BY <2>2, <4>1
    <3>2. CASE ~(errors[g][r] > 0)
      <4>1. /\ \/ here = "look1" /\ gpc' = [gpc EXCEPT ![g] = "wait1"]
               \/ here = "look2" /\ gpc' = [gpc EXCEPT ![g] = "wait2"]
            /\ result' = result
        BY <2>1, <2>4, <3>2 DEF Look, At
      <4> QED
        BY <2>2, <4>1
    <3> QED
      BY <3>1, <3>2
  <2> QED
    BY <2>3, <2>4
<1>3. \A h \in Calls : h # g => gpc'[h] = gpc[h] /\ result'[h] = result[h]
  BY <1>2 DEF ESTypes
<1>4. result'[g] = IF there = "done" THEN "error" ELSE result[g]
  BY <1>2 DEF ESTypes
<1>5. result[g] = "none"
  BY <1>2 DEF Shape, ResultDone, ESTypes
<1>6. /\ \A q \in Rounds : there \in Starting(q) <=> here \in Starting(q)
      /\ \A q \in Rounds : there \in Before(q) => here \in Before(q)
      /\ \A q \in Rounds : there \in After(q) => here \in After(q)
      /\ \A q \in Rounds : there \in Past(q) => here \in Past(q)
  BY <1>2 DEF Starting, Before, After, Past
<1>7. ESTypes'
  BY <1>1, <1>2 DEF ESTypes, Pcs
<1>8. ResultDone' /\ NotStarted'
  <2>1. ResultDone'
    BY <1>2, <1>3, <1>4, <1>5 DEF Shape, ResultDone
  <2>2. NotStarted'
    BY <1>1, <1>3, <1>6 DEF Shape, NotStarted
  <2> QED
    BY <2>1, <2>2
<1>9. SameList' /\ Counts' /\ SecondAfterFirst'
  BY <1>1, <1>2, <1>3, <1>4, <1>6 DEF Shape, SameList, Counts, SecondAfterFirst, InGather
<1>10. Started' /\ Waited'
  BY <1>1, <1>2, <1>3, <1>4, <1>5, <1>6 DEF Shape, Started, Waited
<1>11. UpOnce' /\ Known' /\ InMutex'
  BY <1>1 DEF UpOnce, Known, InMutex
<1>12. Beside'
  BY <1>1, <1>2, <1>3, <1>4 DEF Beside, InGather
<1>13. CrashCauses'
  BY <1>1, <1>3, <1>4, <1>5 DEF CrashCauses, EarlyReturn, ESTypes
<1> QED
  BY <1>7, <1>8, <1>9, <1>10, <1>11, <1>12, <1>13 DEF Shape

LEMMA BeginEsStep == ASSUME ESInv, NEW g \in Calls, BeginEsGather(g) PROVE ESInv'
<1> USE DEF ESInv
<1>1. /\ conf' = conf /\ info' = info /\ maps' = maps /\ result' = result
      /\ disturbed' = disturbed /\ lock' = lock /\ fatal' = fatal
      /\ failed' = failed /\ ups' = ups /\ work' = work /\ now' = g
      /\ gpc[g] = "out" /\ gpc' = [gpc EXCEPT ![g] = "chan1"]
      /\ wg' = [wg EXCEPT ![g][1] = Cardinality(conf.servers)]
      /\ named' = [named EXCEPT ![g] = conf.servers]
      /\ beside \subseteq beside'
      /\ \A h \in Calls : InGather(h) => beside' # {}
  <2>1. /\ beside \subseteq beside'
        /\ \A h \in Calls : InGather(h) => beside' # {}
    BY DEF BeginEsGather
  <2> QED
    BY <2>1 DEF BeginEsGather, At
<1>2. conf.servers \in SUBSET Servers
  BY ESAssumption DEF ESTypes
<1>3. Cardinality(conf.servers) \in Nat
  BY <1>2, ESAssumption, FS_Subset, FS_CardinalityType
<1>4. /\ \A h \in Calls : h # g => /\ gpc'[h] = gpc[h] /\ wg'[h] = wg[h] /\ named'[h] = named[h]
      /\ gpc'[g] = "chan1" /\ named'[g] = conf.servers
      /\ wg'[g][1] = Cardinality(conf.servers) /\ wg'[g][2] = wg[g][2]
  BY <1>1 DEF ESTypes, Rounds
<1>5. ESTypes'
  <2>1. gpc' \in [Calls -> Pcs]
    BY <1>1 DEF ESTypes, Pcs
  <2>2. wg' \in [Calls -> [Rounds -> Nat]] /\ named' \in [Calls -> SUBSET Servers]
    BY <1>1, <1>2, <1>3 DEF ESTypes
  <2>3. g \in Nat
    BY ESAssumption DEF Calls
  <2> QED
    BY <1>1, <2>1, <2>2, <2>3 DEF ESTypes
<1>6. result[g] = "none" /\ (\A q \in Rounds, s \in Servers : work[g][q][s] = "none")
  BY <1>1 DEF Shape, ResultDone, NotStarted, Before
<1>7. ResultDone' /\ NotStarted' /\ SameList'
  BY <1>1, <1>4, <1>6 DEF Shape, ResultDone, NotStarted, SameList, InGather
<1>8. Counts'
  <2> SUFFICES ASSUME NEW h \in Calls, NEW q \in Rounds, h \notin disturbed
               PROVE  wg'[h][q] = IF gpc'[h] \in Starting(q) THEN Cardinality(named'[h])
                                  ELSE Cardinality(Busy(work[h][q]))
    BY <1>1 DEF Counts
  <2>1. CASE h # g
    BY <1>4, <2>1 DEF Shape, Counts
  <2>2. CASE h = g /\ q = 1
    BY <1>4, <2>2 DEF Starting
  <2>3. CASE h = g /\ q = 2
    <3>1. gpc'[g] \notin Starting(2) /\ gpc[g] \notin Starting(2)
      BY <1>1, <1>4 DEF Starting
    <3> QED
      BY <1>4, <2>3, <3>1 DEF Shape, Counts
  <2> QED
    BY <2>1, <2>2, <2>3 DEF Rounds
<1>9. Started' /\ Waited' /\ SecondAfterFirst'
  BY <1>1, <1>4, <1>6 DEF Shape, Started, Waited, SecondAfterFirst, After, Past
<1>10. UpOnce' /\ Known' /\ InMutex' /\ CrashCauses'
  BY <1>1 DEF UpOnce, Known, InMutex, CrashCauses, EarlyReturn
<1>11. Beside'
  BY <1>1, <1>4 DEF Beside, InGather
<1> QED
  BY <1>5, <1>7, <1>8, <1>9, <1>10, <1>11 DEF Shape

\* A new map: no goroutine of the first round of this Gather runs yet.
LEMMA MapStep == ASSUME ESInv, NEW g \in Calls, MakeMap(g) PROVE ESInv'
<1> USE DEF ESInv
<1>1. /\ conf' = conf /\ now' = now /\ maps' = maps /\ result' = result /\ wg' = wg
      /\ disturbed' = disturbed /\ lock' = lock /\ fatal' = fatal /\ named' = named
      /\ failed' = failed /\ ups' = ups /\ beside' = beside /\ work' = work /\ info' = g
  BY DEF MakeMap, esInstance, esHistory
<1>2. gpc[g] = "map1" /\ gpc' = [gpc EXCEPT ![g] = "range1"]
  BY DEF MakeMap, At
<1>3. gpc'[g] = "range1" /\ \A h \in Calls : h # g => gpc'[h] = gpc[h]
  BY <1>2 DEF ESTypes
<1>4. ESTypes'
  BY <1>1, <1>2 DEF ESTypes, Pcs, Calls
<1>5. \A q \in Rounds : /\ "map1" \in Starting(q) <=> "range1" \in Starting(q)
                        /\ "map1" \in Before(q) /\ "range1" \notin After(q)
                        /\ "range1" \notin Past(q)
  BY DEF Starting, Before, After, Past
<1>6. ResultDone' /\ NotStarted' /\ SameList' /\ Beside'
  BY <1>1, <1>2, <1>3, <1>5 DEF Shape, ResultDone, NotStarted, SameList, Beside, InGather
<1>7. Counts' /\ Started' /\ Waited' /\ SecondAfterFirst'
  BY <1>1, <1>2, <1>3, <1>5 DEF Shape, Counts, Started, Waited, SecondAfterFirst
<1>8. \A s \in Servers : work[g][1][s] = "none"
  BY <1>2 DEF Shape, NotStarted, Before, Rounds
<1>9. UpOnce' /\ Known'
  BY <1>1, <1>8 DEF UpOnce, Known
<1>10. InMutex'
  BY <1>1, <1>8 DEF InMutex, ESTypes
<1>11. CrashCauses'
  BY <1>1 DEF CrashCauses, EarlyReturn
<1> QED
  BY <1>4, <1>6, <1>7, <1>9, <1>10, <1>11 DEF Shape

\* The goroutines of a round are started, one for each server of the list.
LEMMA RangeStep == ASSUME ESInv, NEW g \in Calls, Range1(g) \/ Range2(g) PROVE ESInv'
<1> USE DEF ESInv
<1> PICK r \in Rounds, first \in {"id", "nodes"} :
      /\ gpc[g] = IF r = 1 THEN "range1" ELSE "range2"
      /\ gpc' = [gpc EXCEPT ![g] = IF r = 1 THEN "look1" ELSE "look2"]
      /\ work' = [work EXCEPT ![g][r] = [s \in Servers |-> IF s \in conf.servers THEN first
                                                           ELSE "none"]]
      /\ UNCHANGED <<esInstance, wg, room, errors, result, info, maps, lock, fatal, esHistory>>
      /\ r = 1 => first = "id"
  <2>1. CASE Range1(g)
    <3>1. 1 \in Rounds /\ "id" \in {"id", "nodes"}
      BY DEF Rounds
    <3> QED
      BY <2>1, <3>1 DEF Range1, At
  <2>2. CASE Range2(g)
    <3>1. 2 \in Rounds /\ "nodes" \in {"id", "nodes"} /\ 2 # 1
      BY DEF Rounds
    <3> QED
      BY <2>2, <3>1 DEF Range2, At
  <2> QED
    BY <2>1, <2>2
<1>1. /\ conf' = conf /\ now' = now /\ maps' = maps /\ result' = result /\ wg' = wg
      /\ disturbed' = disturbed /\ lock' = lock /\ fatal' = fatal /\ named' = named
      /\ failed' = failed /\ ups' = ups /\ beside' = beside /\ info' = info
  BY DEF esInstance, esHistory
<1>2. r = 1 \/ r = 2
  BY DEF Rounds
<1>3. /\ \A h \in Calls, q \in Rounds : h # g \/ q # r => work'[h][q] = work[h][q]
      /\ \A h \in Calls : h # g => gpc'[h] = gpc[h]
      /\ gpc'[g] = IF r = 1 THEN "look1" ELSE "look2"
      /\ \A s \in Servers : work'[g][r][s] = IF s \in conf.servers THEN first ELSE "none"
  BY DEF ESTypes
<1>4. ESTypes'
  <2>1. info' \in Nat
    BY <1>2, ESAssumption DEF ESTypes, Calls
  <2>2. gpc' \in [Calls -> Pcs]
    BY DEF ESTypes, Pcs
  <2>3. first \in States /\ "none" \in States
    BY DEF States, Fetches, Requests
  <2>4. work' \in [Calls -> [Rounds -> [Servers -> States]]]
    BY <2>3 DEF ESTypes
  <2> QED
    BY <1>1, <2>1, <2>2, <2>4 DEF ESTypes
<1>5. result[g] = "none" /\ InGather(g) /\ (g \notin disturbed => conf.servers = named[g])
  BY DEF Shape, ResultDone, SameList, InGather, ESTypes
<1>6. \A s \in Servers : work[g][r][s] = "none" /\ work[g][2][s] = "none"
  BY <1>2 DEF Shape, NotStarted, Before, Rounds
<1>7. ResultDone' /\ SameList' /\ Beside'
  BY <1>1, <1>3, <1>5 DEF Shape, ResultDone, SameList, Beside, InGather
<1>8. NotStarted'
  <2> SUFFICES ASSUME NEW h \in Calls, NEW q \in Rounds, gpc'[h] \in Before(q), NEW s \in Servers
               PROVE  work'[h][q][s] = "none"
    BY DEF NotStarted
  <2>1. CASE h # g
    BY <1>3, <2>1 DEF Shape, NotStarted
  <2>2. CASE h = g
    <3>1. r = 1 /\ q = 2
      BY <1>2, <1>3, <2>2 DEF Before, Rounds
    <3> QED
      BY <1>3, <1>6, <2>2, <3>1
  <2> QED
    BY <2>1, <2>2
<1>9. Counts'
  <2> SUFFICES ASSUME NEW h \in Calls, NEW q \in Rounds, h \notin disturbed
               PROVE  wg[h][q] = IF gpc'[h] \in Starting(q) THEN Cardinality(named[h])
                                 ELSE Cardinality(Busy(work'[h][q]))
    BY <1>1 DEF Counts
  <2>1. CASE h # g
    BY <1>3, <2>1 DEF Shape, Counts
  <2>2. CASE h = g /\ q # r
    <3>1. gpc'[g] \notin Starting(q) /\ gpc[g] \notin Starting(q)
      BY <1>2, <1>3, <2>2 DEF Starting, Rounds
    <3> QED
      BY <1>3, <2>2, <3>1 DEF Shape, Counts
  <2>3. CASE h = g /\ q = r
    <3>1. gpc'[g] \notin Starting(r) /\ gpc[g] \in Starting(r)
      BY <1>2, <1>3 DEF Starting
    <3>2. Busy(work'[g][r]) = named[g]
      BY <1>3, <1>5, <2>3 DEF Busy, ESTypes
    <3> QED
      BY <2>3, <3>1, <3>2 DEF Shape, Counts
  <2> QED
    BY <2>1, <2>2, <2>3
<1>10. Started'
  <2> SUFFICES ASSUME NEW h \in Calls, NEW q \in Rounds, h \notin disturbed,
                      gpc'[h] \in After(q) \/ result[h] = "nil", NEW s \in Servers
               PROVE  work'[h][q][s] = "none" <=> s \notin named[h]
    BY <1>1 DEF Started
  <2>1. CASE h # g
    BY <1>3, <2>1 DEF Shape, Started
  <2>2. CASE h = g /\ q = r
    BY <1>3, <1>5, <2>2
  <2>3. CASE h = g /\ q # r
    <3>1. r = 2 /\ q = 1 /\ gpc[g] \in After(1)
      BY <1>2, <1>3, <1>5, <2>3 DEF After, Rounds
    <3> QED
      BY <1>3, <2>3, <3>1 DEF Shape, Started
  <2> QED
    BY <2>1, <2>2, <2>3
<1>11. Waited'
  <2> SUFFICES ASSUME NEW h \in Calls, NEW q \in Rounds, h \notin disturbed,
                      gpc'[h] \in Past(q) \/ result[h] = "nil", NEW s \in Servers
               PROVE  work'[h][q][s] \in {"none", "done"}
    BY <1>1 DEF Waited
  <2>1. CASE h # g
    BY <1>3, <2>1 DEF Shape, Waited
  <2>2. CASE h = g
    <3>1. r = 2 /\ q = 1 /\ gpc[g] \in Past(1)
      BY <1>2, <1>3, <1>5, <2>2 DEF Past, Rounds
    <3> QED
      BY <1>3, <2>2, <3>1 DEF Shape, Waited
  <2> QED
    BY <2>1, <2>2
<1>12. SecondAfterFirst'
  <2> SUFFICES ASSUME NEW h \in Calls, NEW s \in Servers, h \notin disturbed, work'[h][2][s] # "none"
               PROVE  work'[h][1][s] = "done"
    BY <1>1 DEF SecondAfterFirst
  <2>0. 1 \in Rounds /\ 2 \in Rounds
    BY DEF Rounds
  <2>1. CASE h # g
    BY <1>3, <2>0, <2>1 DEF Shape, SecondAfterFirst
  <2>2. CASE h = g
    <3>1. r = 2
      BY <1>2, <1>3, <1>6, <2>0, <2>2
    <3>2. s \in conf.servers /\ conf.servers = named[g]
      BY <1>3, <1>5, <2>2, <3>1
    <3>3. gpc[g] \in After(1) /\ gpc[g] \in Past(1)
      BY <3>1 DEF After, Past
    <3>4. work[g][1][s] # "none" /\ work[g][1][s] \in {"none", "done"}
      BY <2>0, <2>2, <3>2, <3>3 DEF Shape, Started, Waited
    <3> QED
      BY <1>3, <2>0, <2>2, <3>1, <3>4
  <2> QED
    BY <2>1, <2>2
<1>13. UpOnce' /\ Known'
  BY <1>1, <1>2, <1>3, <1>6 DEF UpOnce, Known, Rounds
<1>14. InMutex'
  BY <1>1, <1>2, <1>3, <1>6 DEF InMutex, ESTypes, Rounds
<1>15. CrashCauses'
  BY <1>1 DEF CrashCauses, EarlyReturn
<1> QED
  BY <1>4, <1>7, <1>8, <1>9, <1>10, <1>11, <1>12, <1>13, <1>14, <1>15 DEF Shape

\* A wait ends: the counter is zero, so no goroutine of the round runs.
LEMMA WaitStep == ASSUME ESInv, NEW g \in Calls, Wait1(g) \/ Wait2(g) PROVE ESInv'
<1> USE DEF ESInv
<1>0. 1 \in Rounds /\ 2 \in Rounds
  BY DEF Rounds
<1>1. /\ conf' = conf /\ now' = now /\ maps' = maps /\ info' = info /\ work' = work
      /\ disturbed' = disturbed /\ lock' = lock /\ fatal' = fatal /\ named' = named
      /\ failed' = failed /\ ups' = ups /\ beside' = beside
  BY DEF Wait1, Add2, Wait2, ReturnNil, esInstance, esHistory
<1>2. conf.servers \in SUBSET Servers
  BY ESAssumption DEF ESTypes
<1>3. Cardinality(conf.servers) \in Nat
  BY <1>2, ESAssumption, FS_Subset, FS_CardinalityType
<1>4. ASSUME NEW r \in Rounds, g \notin disturbed, wg[g][r] = 0, gpc[g] \notin Starting(r)
      PROVE  \A s \in Servers : work[g][r][s] \in {"none", "done"}
  <2>1. Cardinality(Busy(work[g][r])) = 0
    BY <1>4 DEF Shape, Counts
  <2>2. IsFiniteSet(Busy(work[g][r]))
    BY ESAssumption, FS_Subset DEF Busy
  <2>3. Busy(work[g][r]) = {}
    BY <2>1, <2>2, FS_EmptySet
  <2> QED
    BY <2>3 DEF Busy
<1>5. InMutex' /\ UpOnce' /\ Known'
  BY <1>1 DEF InMutex, UpOnce, Known
<1>6. CASE Wait1(g)
  <2>1. /\ gpc[g] = "wait1" /\ gpc' = [gpc EXCEPT ![g] = "chan2"] /\ wg[g][1] = 0
        /\ result' = result /\ wg' = [wg EXCEPT ![g][2] = Cardinality(conf.servers)]
    BY <1>6 DEF Wait1, Add2, At
  <2>2. /\ \A h \in Calls : h # g => gpc'[h] = gpc[h] /\ wg'[h] = wg[h]
        /\ gpc'[g] = "chan2" /\ wg'[g][1] = wg[g][1]
        /\ wg'[g][2] = Cardinality(conf.servers)
    BY <2>1 DEF ESTypes, Rounds
  <2>3. ESTypes'
    <3>1. gpc' \in [Calls -> Pcs]
      BY <2>1 DEF ESTypes, Pcs
    <3>2. wg' \in [Calls -> [Rounds -> Nat]]
      BY <1>3, <2>1 DEF ESTypes
    <3> QED
      BY <1>1, <2>1, <3>1, <3>2 DEF ESTypes
  <2>4. g \notin disturbed => conf.servers = named[g]
    BY <2>1 DEF Shape, SameList, InGather
  <2>5. ResultDone' /\ NotStarted' /\ SameList' /\ SecondAfterFirst'
    BY <1>1, <2>1, <2>2 DEF Shape, ResultDone, NotStarted, SameList, SecondAfterFirst, InGather,
                            Before
  <2>6. Counts'
    <3> SUFFICES ASSUME NEW h \in Calls, NEW q \in Rounds, h \notin disturbed
                 PROVE  wg'[h][q] = IF gpc'[h] \in Starting(q) THEN Cardinality(named[h])
                                    ELSE Cardinality(Busy(work[h][q]))
      BY <1>1 DEF Counts
    <3>1. CASE h # g
      BY <2>2, <3>1 DEF Shape, Counts
    <3>2. CASE h = g /\ q = 2
      BY <2>2, <2>4, <3>2 DEF Starting
    <3>3. CASE h = g /\ q = 1
      <4>1. gpc'[g] \notin Starting(1) /\ gpc[g] \notin Starting(1)
        BY <2>1, <2>2 DEF Starting
      <4> QED
        BY <1>0, <2>2, <3>3, <4>1 DEF Shape, Counts
    <3> QED
      BY <3>1, <3>2, <3>3 DEF Rounds
  <2>7. Started'
    BY <1>1, <2>1, <2>2 DEF Shape, Started, After
  <2>8. Waited'
    <3> SUFFICES ASSUME NEW h \in Calls, NEW q \in Rounds, h \notin disturbed,
                        gpc'[h] \in Past(q) \/ result[h] = "nil", NEW s \in Servers
                 PROVE  work[h][q][s] \in {"none", "done"}
      BY <1>1, <2>1 DEF Waited
    <3>1. CASE h # g \/ result[h] = "nil"
      BY <2>2, <3>1 DEF Shape, Waited
    <3>2. CASE h = g /\ result[h] # "nil"
      <4>1. q = 1 /\ gpc[g] \notin Starting(1)
        BY <2>1, <2>2, <3>2 DEF Past, Starting, Rounds
      <4> QED
        BY <1>4, <2>1, <3>2, <4>1
    <3> QED
      BY <3>1, <3>2
  <2>9. Beside' /\ CrashCauses'
    BY <1>1, <2>1, <2>2 DEF Beside, InGather, CrashCauses, EarlyReturn
  <2> QED
    BY <1>5, <2>3, <2>5, <2>6, <2>7, <2>8, <2>9 DEF Shape
<1>7. CASE Wait2(g)
  <2>1. /\ gpc[g] = "wait2" /\ gpc' = [gpc EXCEPT ![g] = "done"] /\ wg[g][2] = 0
        /\ result' = [result EXCEPT ![g] = "nil"] /\ wg' = wg
    BY <1>7 DEF Wait2, ReturnNil, At
  <2>2. /\ \A h \in Calls : h # g => gpc'[h] = gpc[h] /\ result'[h] = result[h]
        /\ gpc'[g] = "done" /\ result'[g] = "nil"
    BY <2>1 DEF ESTypes
  <2>3. ESTypes'
    BY <1>1, <2>1 DEF ESTypes, Pcs
  <2>4. ResultDone' /\ NotStarted' /\ SameList' /\ SecondAfterFirst'
    BY <1>1, <2>1, <2>2 DEF Shape, ResultDone, NotStarted, SameList, SecondAfterFirst, InGather,
                            Before
  <2>5. Counts'
    BY <1>1, <2>1, <2>2 DEF Shape, Counts, Starting
  <2>6. Started'
    <3>1. \A q \in Rounds : gpc[g] \in After(q)
      BY <2>1 DEF After
    <3> QED
      BY <1>1, <2>2, <3>1 DEF Shape, Started
  <2>7. Waited'
    <3> SUFFICES ASSUME NEW h \in Calls, NEW q \in Rounds, h \notin disturbed,
                        gpc'[h] \in Past(q) \/ result'[h] = "nil", NEW s \in Servers
                 PROVE  work[h][q][s] \in {"none", "done"}
      BY <1>1 DEF Waited
    <3>1. CASE h # g
      BY <2>2, <3>1 DEF Shape, Waited
    <3>2. CASE h = g /\ q = 1
      <4>1. gpc[g] \in Past(1)
        BY <2>1 DEF Past
      <4> QED
        BY <3>2, <4>1 DEF Shape, Waited
    <3>3. CASE h = g /\ q = 2
      <4>1. gpc[g] \notin Starting(2)
        BY <2>1 DEF Starting
      <4> QED
        BY <1>4, <2>1, <3>3, <4>1
    <3> QED
      BY <3>1, <3>2, <3>3 DEF Rounds
  <2>8. Beside'
    BY <1>1, <2>1, <2>2 DEF Beside, InGather
  <2>9. CrashCauses'
    <3>1. EarlyReturn => EarlyReturn'
      <4> SUFFICES ASSUME NEW h \in Calls, result[h] = "error" PROVE EarlyReturn'
        BY DEF EarlyReturn
      <4>1. h # g
        BY <2>1 DEF Shape, ResultDone
      <4> QED
        BY <2>2, <4>1 DEF EarlyReturn
    <3> QED
      BY <1>1, <3>1 DEF CrashCauses
  <2> QED
    BY <1>5, <2>3, <2>4, <2>5, <2>6, <2>7, <2>8, <2>9 DEF Shape
<1> QED
  BY <1>6, <1>7

LEMMA ESStep == ASSUME ESInv, [ESNext]_esVars PROVE ESInv'
<1>1. CASE UNCHANGED esVars
  <2> USE DEF ESInv, esVars
  <2>1. ESTypes' /\ InMutex' /\ UpOnce' /\ Known' /\ Beside' /\ CrashCauses'
    BY <1>1 DEF ESTypes, InMutex, UpOnce, Known, Beside, InGather, CrashCauses, EarlyReturn
  <2>2. Shape'
    BY <1>1 DEF Shape, ResultDone, NotStarted, SameList, Counts, Started, Waited,
                SecondAfterFirst, InGather
  <2> QED
    BY <2>1, <2>2
<1>2. ASSUME NEW g \in Calls, EsGather(g) PROVE ESInv'
  BY <1>2, BeginEsStep, MapStep, RangeStep, WaitStep, PlaceStep DEF EsGather
<1>3. ASSUME NEW g \in Calls, NEW s \in Servers, Goroutine(g, s) PROVE ESInv'
  BY <1>3, FailsStep, MovesStep, StoreStep DEF Goroutine
<1> QED
  BY <1>1, <1>2, <1>3, EsInitStep, RaceStep DEF ESNext

\* A step of the factory is a step of one model and leaves the others alone.
LEMMA OneModelMoves ==
  ASSUME [BlockingNext]_blockingVars
  PROVE  [PgNext]_pgVars /\ [MyNext]_myVars /\ [ESNext]_esVars
BY DEF BlockingNext, GatherOf, supportModel, blockingVars

LEMMA AlwaysESInv == BlockingSpec => []ESInv
<1>1. BlockingInit => ESInv
  BY ESInitInv DEF BlockingInit
<1>2. ESInv /\ [BlockingNext]_blockingVars => ESInv'
  BY ESStep, OneModelMoves
<1> QED
  BY <1>1, <1>2, PTL DEF BlockingSpec

\* A Gather of elasticsearch that returns nil, and during which Init was not
\* called, has served the servers it was called with in both rounds and pushed
\* one "up" for each, whatever other Gathers did.
THEOREM NilIsComplete == BlockingSpec => []NilMeansComplete
<1>1. ESInv => NilMeansComplete
  <2> SUFFICES ASSUME ESInv, NEW g \in Calls, result[g] = "nil", g \notin disturbed,
                      NEW s \in Servers
               PROVE  LET end == IF s \in named[g] THEN "done" ELSE "none" IN
                      /\ work[g][1][s] = end /\ work[g][2][s] = end
                      /\ ups[g][s] = IF s \in named[g] THEN 1 ELSE 0
    BY DEF NilMeansComplete
  <2>1. \A r \in Rounds : /\ work[g][r][s] = "none" <=> s \notin named[g]
                          /\ work[g][r][s] \in {"none", "done"}
    BY DEF ESInv, Shape, Started, Waited
  <2>2. 1 \in Rounds /\ 2 \in Rounds
    BY DEF Rounds
  <2>3. /\ work[g][1][s] = "none" => ups[g][s] = 0
        /\ work[g][1][s] = "done" => ups[g][s] = 1
    BY DEF ESInv, UpOnce
  <2> QED
    BY <2>1, <2>2, <2>3
<1> QED
  BY <1>1, AlwaysESInv, PTL

\* The process is ended by a WaitGroup below zero only if Init was called during
\* a Gather, by a closed channel only then or after an early return, and by the
\* map race only then or when two Gathers ran side by side.
THEOREM CrashHasACause == BlockingSpec => []CrashCauses
<1>1. ESInv => CrashCauses
  BY DEF ESInv
<1> QED
  BY <1>1, AlwaysESInv, PTL

\* With Local set, a Gather during which Init was not called, and whose map the
\* field still holds, asks a server that is not the master for cluster or index
\* statistics only if the first round failed there.
THEOREM MasterAnswers == BlockingSpec => StatsFromMaster
<1> DEFINE Asks(g, s) ==
      /\ work'[g][2][s] \in {"cluster", "indices"} /\ work'[g][2][s] # work[g][2][s]
      /\ s \notin Masters /\ conf.local /\ info = g /\ g \notin disturbed
<1>1. ASSUME ESInv, ESNext, NEW g \in Calls, NEW s \in Servers, Asks(g, s)
      PROVE  FailedFirst(g, s) \in failed
  <2>0. 1 \in Rounds /\ 2 \in Rounds /\ 1 # 2
    BY DEF Rounds
  <2>1. work \in [Calls -> [Rounds -> [Servers -> States]]]
    BY <1>1 DEF ESInv, ESTypes
  <2>2. Round2Answers(g, s)
    <3>1. ASSUME NEW h \in Calls, NEW r \in Rounds, NEW t \in Servers, NEW x,
                 work' = [work EXCEPT ![h][r][t] = x]
          PROVE  h = g /\ r = 2 /\ t = s /\ x \in {"cluster", "indices"}
      <4>1. work'[g][2][s] = IF h = g /\ r = 2 /\ t = s THEN x ELSE work[g][2][s]
        BY <2>0, <2>1, <3>1
      <4> QED
        BY <1>1, <4>1
    <3>2. ASSUME NEW h \in Calls, NEW r \in Rounds, NEW t \in Servers, SendError(h, r, t) PROVE FALSE
      <4>1. \E x \in {"done", "send"} : work' = work \/ work' = [work EXCEPT ![h][r][t] = x]
        BY <3>2 DEF SendError, Done
      <4> QED
        BY <1>1, <3>1, <4>1
    <3>3. ASSUME NEW h \in Calls, NEW r \in Rounds, NEW t \in Servers, Done(h, r, t) PROVE FALSE
      BY <1>1, <3>1, <3>3 DEF Done
    <3>4. ASSUME NEW h \in Calls, EsGather(h) PROVE FALSE
      <4>1. work' # work
        BY <1>1
      <4>2. CASE Range1(h)
        BY <1>1, <2>0, <2>1, <4>2 DEF Range1
      <4>3. CASE Range2(h)
        BY <1>1, <2>0, <2>1, <4>3 DEF Range2
      <4> QED
        BY <3>4, <4>1, <4>2, <4>3 DEF EsGather, BeginEsGather, Wait1, Add2, Wait2, ReturnNil,
                                      MakeChan, MakeMap, Look
    <3>5. ASSUME NEW h \in Calls, NEW t \in Servers, Goroutine(h, t) PROVE Round2Answers(g, s)
      <4>1. ~Round1Answers(h, t)
        BY <2>0, <3>1 DEF Round1Answers
      <4>2. ~Locks(h, t)
        BY <1>1 DEF Locks
      <4>3. ~Round1Stores(h, t) /\ ~Round1Fails(h, t) /\ ~Round2Fails(h, t)
        BY <2>0, <3>2, <3>3 DEF Round1Stores, Round1Fails, Round2Fails
      <4>4. ~(\E r \in Rounds : Unblocked(h, r, t))
        BY <1>1, <3>3 DEF Unblocked
      <4>5. Round2Answers(h, t)
        BY <3>5, <4>1, <4>2, <4>3, <4>4 DEF Goroutine
      <4>6. h = g /\ t = s
        BY <2>0, <3>1, <3>3, <4>5 DEF Round2Answers
      <4> QED
        BY <4>5, <4>6
    <3>6. ~RaceDetected
      BY <1>1 DEF RaceDetected
    <3>7. \A c \in EsConfigs : ~EsInit(c)
      BY <1>1 DEF EsInit
    <3> QED
      BY <1>1, <3>4, <3>5, <3>6, <3>7 DEF ESNext
  <2>3. work[g][2][s] # "none" /\ work'[g][2][s] = NextFetch(work[g][2][s], s)
    BY <1>1, <2>0, <2>1, <2>2 DEF Round2Answers, Fetches, Requests, Done
  <2>4. work[g][1][s] = "done"
    BY <1>1, <2>3 DEF ESInv, Shape, SecondAfterFirst
  <2>5. IsMaster(s)
    BY <1>1, <2>3 DEF NextFetch, OfMaster
  <2>6. info # 0
    BY <1>1, ESAssumption DEF Calls
  <2>7. maps[g][s] # "other"
    BY <1>1, <2>5, <2>6 DEF IsMaster
  <2> QED
    BY <1>1, <2>4, <2>7 DEF ESInv, Known, Kind
<1>2. ESInv /\ [ESNext]_esVars =>
        [\A g \in Calls, s \in Servers : Asks(g, s) => FailedFirst(g, s) \in failed]_esVars
  BY <1>1
<1>3. StatsFromMaster <=>
        [][\A g \in Calls, s \in Servers : Asks(g, s) => FailedFirst(g, s) \in failed]_esVars
  BY DEF StatsFromMaster, FailedFirst
<1>4. [BlockingNext]_blockingVars => [ESNext]_esVars
  BY OneModelMoves
<1> HIDE DEF Asks
<1> QED
  BY <1>2, <1>3, <1>4, AlwaysESInv, PTL DEF BlockingSpec

(***************************************************************************)
(* postgresql.                                                              *)
(***************************************************************************)

\* The places of a Gather that has opened its pool and not returned, and of one
\* that has sent a query.
Opened == {"defer", "limit", "ask1", "wait1", "rows1", "ask2", "wait2", "rows2", "close"}
Asked == {"wait1", "rows1", "wait2", "rows2"}

PoolRecord == [by : Gathers, server : Addresses \cup {None}, limited : BOOLEAN,
               closed : BOOLEAN, busy : SUBSET Gathers]

PgTypes ==
  /\ connConfig \in Addresses \cup {None} /\ address \in Addresses \cup {None}
  /\ pools \in Seq(PoolRecord) /\ db = Len(pools)
  /\ pc \in [Gathers -> {"out", "open", "done"} \cup Opened]
  /\ pool \in [Gathers -> Nat] /\ closes \in [Gathers -> Nat]
  /\ met \in [Gathers -> SUBSET Gathers]

\* Gathers that run at the same time have met.
Acquainted == \A g, h \in Running : g # h => h \in met[g]

\* A Gather that has passed sql.Open has opened one pool, any other none.
OnePoolEach ==
  /\ \A p \in DOMAIN pools : pc[pools[p].by] \in Opened \cup {"done"}
  /\ \A p, q \in DOMAIN pools : pools[p].by = pools[q].by => p = q
  /\ \A g \in Gathers : pc[g] \in Opened => \E p \in DOMAIN pools : pools[p].by = g

\* A Gather that opened its pool after that of a Gather that runs has met it.
LaterMet ==
  \A p, q \in DOMAIN pools :
    q < p /\ pc[pools[q].by] \in Opened => pools[q].by \in met[pools[p].by]

\* A query goes to a pool that is no older than that of the Gather, and the
\* Gather holds a connection only while it reads rows.
HoldsOwn(g) ==
  /\ pc[g] \in Asked =>
       pool[g] \in DOMAIN pools /\ \E q \in DOMAIN pools : pools[q].by = g /\ q <= pool[g]
  /\ \A p \in DOMAIN pools :
       g \in pools[p].busy => pc[g] \in {"rows1", "rows2"} /\ pool[g] = p

\* A Gather that met no other has the field for itself while it runs.
AloneHas(g) ==
  /\ pc[g] \in Opened => Len(pools) > 0 /\ pools[Len(pools)].by = g /\ ~pools[Len(pools)].closed
  /\ pc[g] \in Opened \ {"defer"} => closes[g] = Len(pools)
  /\ pc[g] \in Asked => pool[g] = Len(pools)
  /\ pc[g] = "done" =>
       closes[g] \in DOMAIN pools /\ pools[closes[g]].by = g /\ pools[closes[g]].closed
  /\ \A s \in samples : s.by = g => s.at = pools[closes[g]].server

\* Samples come after the defer.
PushedAfter == \A s \in samples : pc[s.by] \in (Opened \cup {"done"}) \ {"defer"}

PgInv ==
  /\ PgTypes /\ Acquainted /\ OnePoolEach /\ LaterMet /\ PushedAfter
  /\ \A g \in Gathers : HoldsOwn(g)
  /\ \A g \in Gathers : met[g] = {} => AloneHas(g)

LEMMA PgInitInv == PgInit => PgInv
<1> SUFFICES ASSUME PgInit PROVE PgInv
  OBVIOUS
<1>1. PgTypes
  BY EmptySeq DEF PgInit, PgTypes
<1>2. Acquainted /\ PushedAfter
  BY DEF PgInit, Acquainted, Running, PushedAfter
<1>3. OnePoolEach /\ LaterMet
  BY DEF PgInit, OnePoolEach, LaterMet, Opened
<1>4. \A g \in Gathers : HoldsOwn(g)
  BY DEF PgInit, HoldsOwn, Asked
<1>5. \A g \in Gathers : AloneHas(g)
  BY DEF PgInit, AloneHas, Opened, Asked
<1> QED
  BY <1>1, <1>2, <1>3, <1>4, <1>5 DEF PgInv

\* A Gather that met no other is the only one that runs.
LEMMA RunsAlone ==
  ASSUME PgInv, NEW g \in Gathers, NEW h \in Gathers, g # h, met[h] = {}, pc[g] \in Opened \cup {"open"}
  PROVE  pc[h] \in {"out", "done"}
BY DEF PgInv, PgTypes, Acquainted, Running, Opened

\* The calls of Init change no pool and no Gather.
LEMMA InitStep ==
  ASSUME PgInv, InitRefused \/ InitRegisters \/ \E a \in Addresses : InitAddress(a)
  PROVE  PgInv'
<1>1. UNCHANGED <<db, pools, pc, pool, closes, tag, read, samples, met>>
  BY DEF InitRefused, InitRegisters, InitAddress
<1>2. PgTypes'
  BY <1>1 DEF PgInv, PgTypes, InitRefused, InitRegisters, InitAddress
<1>3. Acquainted' /\ OnePoolEach' /\ LaterMet' /\ PushedAfter'
  BY <1>1 DEF PgInv, Acquainted, Running, OnePoolEach, LaterMet, PushedAfter
<1>4. ASSUME NEW g \in Gathers
      PROVE  HoldsOwn(g)' /\ (met'[g] = {} => AloneHas(g)')
  BY <1>1 DEF PgInv, HoldsOwn, AloneHas
<1> QED
  BY <1>2, <1>3, <1>4 DEF PgInv

\* A Gather begins: it and those that run meet.
LEMMA BeginGatherStep ==
  ASSUME PgInv, NEW g \in Gathers, BeginGather(g) PROVE PgInv'
<1>0. /\ PgTypes /\ Acquainted /\ OnePoolEach /\ LaterMet /\ PushedAfter
      /\ \A h \in Gathers : HoldsOwn(h) /\ (met[h] = {} => AloneHas(h))
  BY DEF PgInv
<1>1. /\ pc[g] = "out" /\ pc' = [pc EXCEPT ![g] = "open"]
      /\ met' = [h \in Gathers |-> IF h = g THEN Running
                                   ELSE IF h \in Running THEN met[h] \cup {g} ELSE met[h]]
      /\ UNCHANGED <<address, connConfig, db, pools, pool, closes, samples>>
  BY DEF BeginGather, Trans, initVars
<1>2. /\ pc'[g] = "open" /\ \A h \in Gathers \ {g} : pc'[h] = pc[h]
      /\ pc' \in [Gathers -> {"out", "open", "done"} \cup Opened]
  BY <1>0, <1>1 DEF PgTypes
<1>3. Running \subseteq Gathers /\ Running' = Running \cup {g} /\ g \notin Running
  BY <1>0, <1>1, <1>2 DEF Running, PgTypes
<1>4. PgTypes'
  BY <1>0, <1>1, <1>2, <1>3 DEF PgTypes
<1>5. Acquainted'
  BY <1>0, <1>1, <1>3 DEF Acquainted, PgTypes
<1>6. \A p \in DOMAIN pools : pools[p].by \in Gathers \ {g}
  <2>1. \A p \in DOMAIN pools : pools[p] \in PoolRecord
    BY <1>0, ElementOfSeq DEF PgTypes
  <2> QED
    BY <1>0, <1>1, <2>1 DEF PoolRecord, OnePoolEach, Opened
<1>7. OnePoolEach'
  BY <1>0, <1>1, <1>2, <1>6 DEF OnePoolEach, Opened
<1>8. LaterMet'
  BY <1>0, <1>1, <1>2, <1>6 DEF LaterMet, PgTypes
<1>9. PushedAfter' /\ \A s \in samples : s.by # g
  BY <1>0, <1>1, <1>2 DEF PushedAfter, Opened
<1>10. ASSUME NEW h \in Gathers PROVE HoldsOwn(h)'
  BY <1>0, <1>1, <1>2 DEF HoldsOwn, Asked
<1>11. ASSUME NEW h \in Gathers, met'[h] = {} PROVE AloneHas(h)'
  <2>1. CASE h = g
    BY <1>1, <1>2, <1>9, <2>1 DEF AloneHas, Opened, Asked
  <2>2. CASE h # g
    <3>1. met[h] = {}
      BY <1>1, <1>11, <2>2
    <3> QED
      BY <1>0, <1>1, <1>2, <2>2, <3>1 DEF AloneHas
  <2> QED
    BY <2>1, <2>2
<1> QED
  BY <1>4, <1>5, <1>7, <1>8, <1>9, <1>10, <1>11 DEF PgInv

\* sql.Open: the new pool is the Gather's only one and the newest.
LEMMA OpenStep == ASSUME PgInv, NEW g \in Gathers, Open(g) PROVE PgInv'
<1>0. /\ PgTypes /\ Acquainted /\ OnePoolEach /\ LaterMet /\ PushedAfter
      /\ \A h \in Gathers : HoldsOwn(h) /\ (met[h] = {} => AloneHas(h))
  BY DEF PgInv
<1> DEFINE new == [by |-> g, server |-> connConfig, limited |-> FALSE,
                   closed |-> FALSE, busy |-> {}]
           n == Len(pools)
<1>1. /\ pc[g] = "open" /\ pc' = [pc EXCEPT ![g] = "defer"]
      /\ pools' = Append(pools, new) /\ db' = n + 1
      /\ UNCHANGED <<address, connConfig, pool, closes, samples, met>>
  BY DEF Open, Trans, initVars
<1>2. /\ pc'[g] = "defer" /\ \A h \in Gathers \ {g} : pc'[h] = pc[h]
      /\ pc' \in [Gathers -> {"out", "open", "done"} \cup Opened]
  BY <1>0, <1>1 DEF PgTypes, Opened
<1>3. new \in PoolRecord
  BY <1>0 DEF PgTypes, PoolRecord
<1>4. new.by = g /\ ~new.closed /\ new.busy = {}
  OBVIOUS
<1> HIDE DEF new
<1>5. /\ n \in Nat /\ DOMAIN pools = 1..n
      /\ pools' \in Seq(PoolRecord) /\ Len(pools') = n + 1 /\ DOMAIN pools' = 1..n + 1
      /\ pools'[n + 1] = new /\ \A p \in 1..n : pools'[p] = pools[p]
  BY <1>0, <1>1, <1>3, AppendProperties, LenProperties DEF PgTypes
<1> HIDE DEF n
<1>6. PgTypes'
  BY <1>0, <1>1, <1>2, <1>5 DEF PgTypes
<1>7. Running' = Running
  BY <1>0, <1>1, <1>2 DEF Running
<1>8. Acquainted'
  BY <1>0, <1>1, <1>7 DEF Acquainted
<1>9. \A p \in 1..n : pools[p].by \in Gathers \ {g}
  <2>1. \A p \in 1..n : pools[p] \in PoolRecord
    BY <1>0, <1>5, ElementOfSeq DEF PgTypes, n
  <2> QED
    BY <1>0, <1>1, <1>5, <2>1 DEF PoolRecord, OnePoolEach, Opened
<1>10. OnePoolEach'
  <2>1. \A p \in DOMAIN pools' : pc'[pools'[p].by] \in Opened \cup {"done"}
    BY <1>0, <1>2, <1>4, <1>5, <1>9 DEF OnePoolEach, Opened
  <2>2. \A p, q \in DOMAIN pools' : pools'[p].by = pools'[q].by => p = q
    BY <1>0, <1>4, <1>5, <1>9 DEF OnePoolEach
  <2>3. ASSUME NEW h \in Gathers, pc'[h] \in Opened
        PROVE  \E p \in DOMAIN pools' : pools'[p].by = h
    <3>1. CASE h = g
      BY <1>4, <1>5, <3>1
    <3>2. CASE h # g
      BY <1>0, <1>2, <1>5, <2>3, <3>2 DEF OnePoolEach
    <3> QED
      BY <3>1, <3>2
  <2> QED
    BY <2>1, <2>2, <2>3 DEF OnePoolEach
<1>11. LaterMet'
  <2> SUFFICES ASSUME NEW p \in 1..n + 1, NEW q \in 1..n + 1, q < p,
                      pc'[pools'[q].by] \in Opened
               PROVE  pools'[q].by \in met[pools'[p].by]
    BY <1>1, <1>5 DEF LaterMet
  <2>1. q \in 1..n /\ pools'[q].by = pools[q].by /\ pc[pools[q].by] \in Opened
    BY <1>2, <1>5, <1>9
  <2>2. CASE p = n + 1
    <3>1. pools[q].by \in Running /\ g \in Running
      BY <1>1, <1>9, <2>1 DEF Running, Opened
    <3> QED
      BY <1>0, <1>4, <1>5, <1>9, <2>1, <2>2, <3>1 DEF Acquainted
  <2>3. CASE p # n + 1
    BY <1>0, <1>5, <2>1, <2>3 DEF LaterMet
  <2> QED
    BY <2>2, <2>3
<1>12. PushedAfter' /\ \A s \in samples : s.by # g
  BY <1>0, <1>1, <1>2 DEF PushedAfter, Opened
<1>13. ASSUME NEW h \in Gathers PROVE HoldsOwn(h)'
  <2>1. pc'[h] \in Asked => pc[h] \in Asked
    BY <1>2 DEF Asked
  <2>2. ASSUME pc'[h] \in Asked
        PROVE  pool[h] \in 1..n + 1 /\ \E q \in 1..n + 1 : pools'[q].by = h /\ q <= pool[h]
    BY <1>0, <1>5, <2>1, <2>2 DEF HoldsOwn
  <2>3. ASSUME NEW p \in 1..n + 1, h \in pools'[p].busy
        PROVE  pc'[h] \in {"rows1", "rows2"} /\ pool[h] = p
    <3>1. p \in 1..n /\ h \in pools[p].busy
      BY <1>4, <1>5, <2>3
    <3>2. pc[h] \in {"rows1", "rows2"} /\ pool[h] = p
      <4>1. HoldsOwn(h) /\ p \in DOMAIN pools
        BY <1>0, <1>5, <3>1
      <4> QED
        BY <3>1, <4>1 DEF HoldsOwn
    <3> QED
      BY <1>1, <1>2, <3>2
  <2> QED
    BY <1>1, <1>5, <2>2, <2>3 DEF HoldsOwn
<1>14. ASSUME NEW h \in Gathers, met'[h] = {} PROVE AloneHas(h)'
  <2>1. CASE h = g
    BY <1>1, <1>2, <1>4, <1>5, <1>12, <2>1 DEF AloneHas, Opened, Asked
  <2>2. CASE h # g
    <3>1. pc[h] \in {"out", "done"} /\ pc'[h] = pc[h] /\ AloneHas(h)
      BY <1>0, <1>1, <1>2, <1>14, <2>2, RunsAlone
    <3>2. pc[h] = "done" => closes[h] \in 1..n /\ pools'[closes[h]] = pools[closes[h]]
      BY <1>5, <3>1 DEF AloneHas
    <3>3. \A s \in samples : s.by = h => pc[h] = "done"
      BY <1>0, <3>1 DEF PushedAfter, Opened
    <3> QED
      BY <1>1, <1>5, <3>1, <3>2, <3>3 DEF AloneHas, Opened, Asked
  <2> QED
    BY <2>1, <2>2
<1> QED
  BY <1>6, <1>8, <1>10, <1>11, <1>12, <1>13, <1>14 DEF PgInv

\* What a step of a Gather with an open pool may change of the pools: limits,
\* its own hold on connections, and closed once more.
Kept(g) ==
  /\ pools' \in Seq(PoolRecord) /\ Len(pools') = Len(pools)
  /\ \A p \in DOMAIN pools :
       /\ pools'[p].by = pools[p].by /\ pools'[p].server = pools[p].server
       /\ pools[p].closed => pools'[p].closed
       /\ \A h \in Gathers \ {g} : h \in pools'[p].busy => h \in pools[p].busy

\* The same for the rest of the state.
Uses(g) ==
  /\ pc[g] \in Opened
  /\ \E to \in (Opened \cup {"done"}) \ {"defer"} : pc' = [pc EXCEPT ![g] = to]
  /\ Kept(g)
  /\ \E p \in Nat : pool' = [pool EXCEPT ![g] = p]
  /\ \E p \in Nat : closes' = [closes EXCEPT ![g] = p]
  /\ samples \subseteq samples' /\ \A s \in samples' \ samples : s.by = g
  /\ UNCHANGED <<address, connConfig, db, met>>

\* For such a step only the Gather's own part of the invariant is to be shown.
LEMMA UseStep ==
  ASSUME PgInv, NEW g \in Gathers, Uses(g), HoldsOwn(g)', met[g] = {} => AloneHas(g)'
  PROVE  PgInv'
<1>0. /\ PgTypes /\ Acquainted /\ OnePoolEach /\ LaterMet /\ PushedAfter
      /\ \A h \in Gathers : HoldsOwn(h) /\ (met[h] = {} => AloneHas(h))
  BY DEF PgInv
<1>1. /\ pc[g] \in Opened /\ pc'[g] \in (Opened \cup {"done"}) \ {"defer"}
      /\ \A h \in Gathers \ {g} : pc'[h] = pc[h] /\ pool'[h] = pool[h] /\ closes'[h] = closes[h]
      /\ pc' \in [Gathers -> {"out", "open", "done"} \cup Opened]
      /\ pool' \in [Gathers -> Nat] /\ closes' \in [Gathers -> Nat]
  BY <1>0 DEF Uses, PgTypes
<1>2. /\ pools' \in Seq(PoolRecord) /\ Len(pools') = Len(pools)
      /\ DOMAIN pools' = DOMAIN pools /\ DOMAIN pools = 1..Len(pools)
      /\ UNCHANGED <<address, connConfig, db, met>>
      /\ \A p \in DOMAIN pools : pools[p].by \in Gathers
  <2>1. \A p \in DOMAIN pools : pools[p] \in PoolRecord
    BY <1>0, ElementOfSeq DEF PgTypes
  <2> QED
    BY <1>0, <2>1, LenProperties DEF Uses, Kept, PgTypes, PoolRecord
<1>3. /\ \A p \in DOMAIN pools :
           /\ pools'[p].by = pools[p].by /\ pools'[p].server = pools[p].server
           /\ pools[p].closed => pools'[p].closed
      /\ \A p \in DOMAIN pools : \A h \in Gathers \ {g} : h \in pools'[p].busy => h \in pools[p].busy
  BY DEF Uses, Kept
<1>4. PgTypes'
  BY <1>0, <1>1, <1>2 DEF PgTypes
<1>5. Running' \subseteq Running
  BY <1>1 DEF Running, Opened
<1>6. Acquainted'
  BY <1>0, <1>2, <1>5 DEF Acquainted
<1>7. OnePoolEach' /\ LaterMet'
  <2>1. \A h \in Gathers : /\ pc[h] \in Opened \cup {"done"} => pc'[h] \in Opened \cup {"done"}
                           /\ pc'[h] \in Opened => pc[h] \in Opened
    BY <1>1
  <2>2. OnePoolEach'
    BY <1>0, <1>2, <1>3, <2>1 DEF OnePoolEach
  <2>3. LaterMet'
    BY <1>0, <1>2, <1>3, <2>1 DEF LaterMet
  <2> QED
    BY <2>2, <2>3
<1>8. PushedAfter'
  <2> SUFFICES ASSUME NEW s \in samples' PROVE pc'[s.by] \in (Opened \cup {"done"}) \ {"defer"}
    BY DEF PushedAfter
  <2>1. CASE s.by = g
    BY <1>1, <2>1
  <2>2. CASE s.by # g
    <3>1. s \in samples
      BY <2>2 DEF Uses
    <3>2. pc[s.by] \in (Opened \cup {"done"}) \ {"defer"}
      BY <1>0, <3>1 DEF PushedAfter
    <3>3. pc'[s.by] = pc[s.by]
      BY <2>2 DEF Uses
    <3> QED
      BY <3>2, <3>3
  <2> QED
    BY <2>1, <2>2
<1>9. ASSUME NEW h \in Gathers PROVE HoldsOwn(h)'
  <2>1. CASE h # g
    <3>1. pc'[h] = pc[h] /\ pool'[h] = pool[h]
      BY <1>1, <2>1
    <3>2. ASSUME pc[h] \in Asked
          PROVE  pool[h] \in DOMAIN pools' /\ \E q \in DOMAIN pools' : pools'[q].by = h /\ q <= pool[h]
      <4>1. PICK q \in DOMAIN pools : pools[q].by = h /\ q <= pool[h]
        BY <1>0, <3>2 DEF HoldsOwn
      <4> QED
        BY <1>0, <1>2, <1>3, <3>2, <4>1 DEF HoldsOwn
    <3>3. ASSUME NEW p \in DOMAIN pools', h \in pools'[p].busy
          PROVE  pc[h] \in {"rows1", "rows2"} /\ pool[h] = p
      <4>1. p \in DOMAIN pools /\ h \in pools[p].busy
        BY <1>2, <1>3, <2>1, <3>3
      <4> QED
        BY <1>0, <4>1 DEF HoldsOwn
    <3> QED
      BY <3>1, <3>2, <3>3 DEF HoldsOwn
  <2> QED
    BY <2>1
<1>10. ASSUME NEW h \in Gathers, met'[h] = {} PROVE AloneHas(h)'
  <2>1. CASE h = g
    BY <1>2, <1>10, <2>1
  <2>2. CASE h # g
    <3>1. pc[h] \in {"out", "done"} /\ pc'[h] = pc[h] /\ closes'[h] = closes[h] /\ AloneHas(h)
      BY <1>0, <1>1, <1>2, <1>10, <2>2, RunsAlone
    <3>2. \A s \in samples' : s.by = h => s \in samples /\ pc[h] = "done"
      BY <1>0, <2>2, <3>1 DEF PushedAfter, Uses, Opened
    <3> QED
      BY <1>2, <1>3, <3>1, <3>2 DEF AloneHas, Opened, Asked
  <2> QED
    BY <2>1, <2>2
<1> QED
  BY <1>2, <1>4, <1>6, <1>7, <1>8, <1>9, <1>10 DEF PgInv

\* Another record at one place of a sequence.
LEMMA OneReplaced ==
  ASSUME NEW S, NEW ps \in Seq(S), NEW i \in DOMAIN ps, NEW e \in S
  PROVE  /\ [ps EXCEPT ![i] = e] \in Seq(S) /\ Len([ps EXCEPT ![i] = e]) = Len(ps)
         /\ [ps EXCEPT ![i] = e][i] = e
         /\ \A j \in DOMAIN ps : j # i => [ps EXCEPT ![i] = e][j] = ps[j]
OBVIOUS

\* The newest pool, where a Gather with an open pool finds the field.
LEMMA FieldIsAPool ==
  ASSUME PgInv, NEW g \in Gathers, pc[g] \in Opened
  PROVE  /\ DOMAIN pools = 1..Len(pools) /\ db = Len(pools) /\ Len(pools) \in DOMAIN pools
         /\ \E q \in DOMAIN pools : pools[q].by = g /\ q <= Len(pools)
<1>1. DOMAIN pools = 1..Len(pools) /\ Len(pools) \in Nat /\ db = Len(pools)
  BY LenProperties DEF PgInv, PgTypes
<1>2. PICK q \in DOMAIN pools : pools[q].by = g
  BY DEF PgInv, OnePoolEach
<1> QED
  BY <1>1, <1>2

\* The steps that leave the pools alone.
LEMMA PoolsSameStep ==
  ASSUME PgInv, NEW g \in Gathers, DeferClose(g) \/ Ask(g) \/ QueryFails(g) \/ AccRow(g)
  PROVE  PgInv'
<1>0. /\ PgTypes /\ OnePoolEach /\ HoldsOwn(g) /\ (met[g] = {} => AloneHas(g))
  BY DEF PgInv
<1>1. /\ pools' = pools
      /\ UNCHANGED <<address, connConfig, db, met>>
  BY DEF DeferClose, Ask, QueryFails, AccRow, initVars
<1>2. Kept(g)
  BY <1>0, <1>1 DEF Kept, PgTypes
<1>3. /\ pc \in [Gathers -> {"out", "open", "done"} \cup Opened] /\ pool[g] \in Nat
      /\ closes[g] \in Nat /\ db \in Nat /\ db = Len(pools)
      /\ pool = [pool EXCEPT ![g] = pool[g]] /\ closes = [closes EXCEPT ![g] = closes[g]]
      /\ pc = [pc EXCEPT ![g] = pc[g]] /\ pool \in [Gathers -> Nat] /\ closes \in [Gathers -> Nat]
  BY <1>0, LenProperties DEF PgTypes
<1>4. CASE DeferClose(g)
  <2>1. /\ pc[g] = "defer" /\ pc' = [pc EXCEPT ![g] = "limit"]
        /\ closes' = [closes EXCEPT ![g] = db] /\ pool' = pool
        /\ samples' = samples \cup {[by |-> g, label |-> tag[g], at |-> pools[db].server]}
    BY <1>4 DEF DeferClose, Trans
  <2>2. Uses(g)
    <3>1. samples \subseteq samples' /\ \A s \in samples' \ samples : s.by = g
      BY <2>1
    <3>2. "limit" \in (Opened \cup {"done"}) \ {"defer"} /\ pc[g] \in Opened
      BY <2>1 DEF Opened
    <3>3. pool' = [pool EXCEPT ![g] = pool[g]]
      BY <1>3, <2>1
    <3> QED
      BY <1>1, <1>2, <1>3, <2>1, <3>1, <3>2, <3>3 DEF Uses
  <2>3. HoldsOwn(g)'
    BY <1>0, <1>1, <1>3, <2>1 DEF HoldsOwn, Asked
  <2>4. ASSUME met[g] = {} PROVE AloneHas(g)'
    <3>1. \A s \in samples : s.by # g
      BY <2>1 DEF PgInv, PushedAfter, Opened
    <3>2. \A s \in samples' : s.by = g => s.at = pools[db].server
      BY <2>1, <3>1
    <3>3. pc'[g] = "limit" /\ closes'[g] = db
      BY <1>3, <2>1
    <3> QED
      BY <1>0, <1>1, <1>3, <2>1, <2>4, <3>2, <3>3 DEF AloneHas, Opened, Asked
  <2> QED
    BY <2>2, <2>3, <2>4, UseStep
<1>5. CASE Ask(g)
  <2>1. /\ pc[g] \in {"ask1", "ask2"}
        /\ \E to \in {"wait1", "wait2"} : pc' = [pc EXCEPT ![g] = to]
        /\ pool' = [pool EXCEPT ![g] = db] /\ closes' = closes /\ samples' = samples
    BY <1>5 DEF Ask, Trans
  <2>2. Uses(g)
    BY <1>1, <1>2, <1>3, <2>1 DEF Uses, Opened
  <2>3. pool'[g] = db /\ pc'[g] \in {"wait1", "wait2"}
    BY <1>3, <2>1
  <2>4. HoldsOwn(g)'
    <3>1. db \in DOMAIN pools /\ \E q \in DOMAIN pools : pools[q].by = g /\ q <= db
      BY <2>1, FieldIsAPool DEF Opened
    <3>2. \A p \in DOMAIN pools : g \notin pools[p].busy
      BY <1>0, <2>1 DEF HoldsOwn
    <3> QED
      BY <1>1, <2>3, <3>1, <3>2 DEF HoldsOwn
  <2>5. ASSUME met[g] = {} PROVE AloneHas(g)'
    BY <1>0, <1>1, <1>3, <2>1, <2>3, <2>5 DEF AloneHas, Opened, Asked
  <2> QED
    BY <2>2, <2>4, <2>5, UseStep
<1>6. CASE QueryFails(g)
  <2>1. /\ pc[g] \in {"wait1", "wait2"} /\ pc' = [pc EXCEPT ![g] = "close"]
        /\ pool' = pool /\ closes' = closes /\ samples' = samples
    BY <1>6 DEF QueryFails, Trans
  <2>2. Uses(g)
    BY <1>1, <1>2, <1>3, <2>1 DEF Uses, Opened
  <2>3. HoldsOwn(g)'
    BY <1>0, <1>1, <1>3, <2>1 DEF HoldsOwn, Asked
  <2>4. ASSUME met[g] = {} PROVE AloneHas(g)'
    BY <1>0, <1>1, <1>3, <2>1, <2>4 DEF AloneHas, Opened, Asked
  <2> QED
    BY <2>2, <2>3, <2>4, UseStep
<1>7. CASE AccRow(g)
  <2>1. /\ pc[g] \in {"rows1", "rows2"} /\ pc' = pc /\ pool' = pool /\ closes' = closes
        /\ samples' = samples \cup {[by |-> g, label |-> Sanitized,
                                     at |-> pools[pool[g]].server]}
    BY <1>7 DEF AccRow
  <2>2. Uses(g)
    BY <1>1, <1>2, <1>3, <2>1 DEF Uses, Opened
  <2>3. HoldsOwn(g)'
    BY <1>0, <1>1, <2>1 DEF HoldsOwn, Asked
  <2>4. ASSUME met[g] = {} PROVE AloneHas(g)'
    <3>1. pool[g] = Len(pools) /\ closes[g] = Len(pools)
      BY <1>0, <2>1, <2>4 DEF AloneHas, Opened, Asked
    <3>2. \A s \in samples' : s.by = g => s.at = pools[closes[g]].server
      BY <1>0, <2>1, <2>4, <3>1 DEF AloneHas
    <3> QED
      BY <1>0, <1>1, <2>1, <2>4, <3>2 DEF AloneHas
  <2> QED
    BY <2>2, <2>3, <2>4, UseStep
<1> QED
  BY <1>4, <1>5, <1>6, <1>7

\* The steps that change one record of the pools.
LEMMA PoolChangesStep ==
  ASSUME PgInv, NEW g \in Gathers,
         SetLimits(g) \/ Answered(g) \/ AccRowFails(g) \/ RowsEnd(g) \/ Close(g)
  PROVE  PgInv'
<1>0. /\ PgTypes /\ OnePoolEach /\ HoldsOwn(g) /\ (met[g] = {} => AloneHas(g))
  BY DEF PgInv
<1>1. UNCHANGED <<address, connConfig, db, met, pool, closes, samples>>
  BY DEF SetLimits, Answered, AccRowFails, RowsEnd, Close, initVars
<1>2. /\ pools \in Seq(PoolRecord) /\ db = Len(pools) /\ Len(pools) \in Nat
      /\ DOMAIN pools = 1..Len(pools)
      /\ pool \in [Gathers -> Nat] /\ closes \in [Gathers -> Nat]
      /\ pc \in [Gathers -> {"out", "open", "done"} \cup Opened]
      /\ \A p \in DOMAIN pools : pools[p] \in PoolRecord
  BY <1>0, LenProperties, ElementOfSeq DEF PgTypes
\* The record i becomes e, and g goes on.
<1>3. ASSUME NEW i \in DOMAIN pools, NEW e \in PoolRecord,
             pools' = [pools EXCEPT ![i] = e],
             e.by = pools[i].by, e.server = pools[i].server, pools[i].closed => e.closed,
             \A h \in Gathers \ {g} : h \in e.busy => h \in pools[i].busy
      PROVE  Kept(g) /\ pools'[i] = e /\ \A p \in DOMAIN pools : p # i => pools'[p] = pools[p]
  <2>1. /\ pools' \in Seq(PoolRecord) /\ Len(pools') = Len(pools) /\ pools'[i] = e
        /\ \A p \in DOMAIN pools : p # i => pools'[p] = pools[p]
    BY <1>2, <1>3, OneReplaced
  <2> QED
    BY <1>3, <2>1 DEF Kept
<1>4. ASSUME pc[g] \in Opened, Kept(g),
             NEW to \in (Opened \cup {"done"}) \ {"defer"}, pc' = [pc EXCEPT ![g] = to]
      PROVE  Uses(g) /\ pc'[g] = to
  <2>1. pool' = [pool EXCEPT ![g] = pool[g]] /\ closes' = [closes EXCEPT ![g] = closes[g]]
    BY <1>1, <1>2
  <2>2. pool[g] \in Nat /\ closes[g] \in Nat /\ pc'[g] = to
    BY <1>2, <1>4
  <2> QED
    BY <1>1, <1>4, <2>1, <2>2 DEF Uses
<1>5. CASE SetLimits(g)
  <2>1. /\ pc[g] = "limit" /\ pc' = [pc EXCEPT ![g] = "ask1"] /\ db \in DOMAIN pools
        /\ pools' = [pools EXCEPT ![db] = [pools[db] EXCEPT !.limited = TRUE]]
    BY <1>5, FieldIsAPool DEF SetLimits, Trans, Opened
  <2> DEFINE e == [pools[db] EXCEPT !.limited = TRUE]
  <2>2. /\ e \in PoolRecord /\ e.by = pools[db].by /\ e.server = pools[db].server
        /\ e.closed = pools[db].closed /\ e.busy = pools[db].busy
    BY <1>2, <2>1 DEF PoolRecord
  <2> HIDE DEF e
  <2>3. Kept(g) /\ pools'[db] = e /\ \A p \in DOMAIN pools : p # db => pools'[p] = pools[p]
    BY <1>3, <2>1, <2>2 DEF e
  <2>4. Uses(g) /\ pc'[g] = "ask1"
    BY <1>4, <2>1, <2>3 DEF Opened
  <2>5. DOMAIN pools' = DOMAIN pools /\ Len(pools') = Len(pools)
    BY <1>2, <2>3, LenProperties DEF Kept
  <2>6. HoldsOwn(g)'
    BY <1>0, <1>1, <2>1, <2>2, <2>3, <2>4, <2>5 DEF HoldsOwn, Asked
  <2>7. ASSUME met[g] = {} PROVE AloneHas(g)'
    BY <1>0, <1>1, <1>2, <2>1, <2>2, <2>3, <2>4, <2>5, <2>7 DEF AloneHas, Opened, Asked
  <2> QED
    BY <2>4, <2>6, <2>7, UseStep
<1>6. CASE Answered(g)
  <2>1. /\ pc[g] \in {"wait1", "wait2"}
        /\ \E to \in {"rows1", "rows2"} : pc' = [pc EXCEPT ![g] = to]
        /\ pools' = [pools EXCEPT ![pool[g]] = [pools[pool[g]] EXCEPT !.busy = @ \cup {g}]]
    BY <1>6 DEF Answered, Trans
  <2> DEFINE i == pool[g]
             e == [pools[i] EXCEPT !.busy = @ \cup {g}]
  <2>2. /\ i \in DOMAIN pools /\ \E q \in DOMAIN pools : pools[q].by = g /\ q <= i
    BY <1>0, <2>1 DEF HoldsOwn, Asked
  <2>3. /\ e \in PoolRecord /\ e.by = pools[i].by /\ e.server = pools[i].server
        /\ e.closed = pools[i].closed /\ e.busy = pools[i].busy \cup {g}
    <3>1. pools[i] \in PoolRecord
      BY <1>2, <2>2
    <3> QED
      BY <3>1 DEF PoolRecord
  <2> HIDE DEF e
  <2>4. Kept(g) /\ pools'[i] = e /\ \A p \in DOMAIN pools : p # i => pools'[p] = pools[p]
    <3>1. pools' = [pools EXCEPT ![i] = e]
      BY <2>1 DEF e
    <3>2. \A h \in Gathers \ {g} : h \in e.busy => h \in pools[i].busy
      BY <2>3
    <3> QED
      BY <1>3, <2>2, <2>3, <3>1, <3>2
  <2>5. Uses(g) /\ pc'[g] \in {"rows1", "rows2"}
    BY <1>4, <2>1, <2>4 DEF Opened
  <2>6. DOMAIN pools' = DOMAIN pools /\ Len(pools') = Len(pools)
    BY <1>2, <2>4, LenProperties DEF Kept
  <2>7. \A p \in DOMAIN pools : p # i => g \notin pools'[p].busy
    BY <1>0, <2>1, <2>4 DEF HoldsOwn
  <2>8. HoldsOwn(g)'
    BY <1>1, <2>2, <2>4, <2>5, <2>6, <2>7 DEF HoldsOwn, Kept
  <2>9. ASSUME met[g] = {} PROVE AloneHas(g)'
    BY <1>0, <1>1, <1>2, <2>1, <2>2, <2>3, <2>4, <2>5, <2>6, <2>9 DEF AloneHas, Opened, Asked
  <2> QED
    BY <2>5, <2>8, <2>9, UseStep
<1>7. CASE AccRowFails(g) \/ RowsEnd(g)
  <2>1. /\ pc[g] \in {"rows1", "rows2"}
        /\ \E to \in {"ask2", "close"} : pc' = [pc EXCEPT ![g] = to]
        /\ pools' = [pools EXCEPT ![pool[g]] = [pools[pool[g]] EXCEPT !.busy = @ \ {g}]]
    BY <1>7 DEF AccRowFails, RowsEnd, Released, Trans
  <2> DEFINE i == pool[g]
             e == [pools[i] EXCEPT !.busy = @ \ {g}]
  <2>2. i \in DOMAIN pools
    BY <1>0, <2>1 DEF HoldsOwn, Asked
  <2>3. /\ e \in PoolRecord /\ e.by = pools[i].by /\ e.server = pools[i].server
        /\ e.closed = pools[i].closed /\ e.busy = pools[i].busy \ {g}
    BY <1>2, <2>2 DEF PoolRecord
  <2> HIDE DEF e
  <2>4. Kept(g) /\ pools'[i] = e /\ \A p \in DOMAIN pools : p # i => pools'[p] = pools[p]
    BY <1>3, <2>1, <2>2, <2>3 DEF e
  <2>5. Uses(g) /\ pc'[g] \in {"ask2", "close"}
    BY <1>4, <2>1, <2>4 DEF Opened
  <2>6. DOMAIN pools' = DOMAIN pools /\ Len(pools') = Len(pools)
    BY <1>2, <2>4, LenProperties DEF Kept
  <2>7. \A p \in DOMAIN pools : g \notin pools'[p].busy
    BY <1>0, <2>1, <2>3, <2>4 DEF HoldsOwn
  <2>8. HoldsOwn(g)'
    BY <2>5, <2>6, <2>7 DEF HoldsOwn, Asked
  <2>9. ASSUME met[g] = {} PROVE AloneHas(g)'
    BY <1>0, <1>1, <1>2, <2>1, <2>2, <2>3, <2>4, <2>5, <2>6, <2>9 DEF AloneHas, Opened, Asked
  <2> QED
    BY <2>5, <2>8, <2>9, UseStep
<1>8. CASE Close(g)
  <2>1. /\ pc[g] = "close" /\ pc' = [pc EXCEPT ![g] = "done"]
        /\ pools' = [pools EXCEPT ![closes[g]] = [pools[closes[g]] EXCEPT !.closed = TRUE]]
    BY <1>8 DEF Close, Trans
  <2>2. \A p \in DOMAIN pools : g \notin pools[p].busy
    BY <1>0, <2>1 DEF HoldsOwn
  <2>3. CASE closes[g] \in DOMAIN pools
    <3> DEFINE i == closes[g]
               e == [pools[i] EXCEPT !.closed = TRUE]
    <3>1. /\ e \in PoolRecord /\ e.by = pools[i].by /\ e.server = pools[i].server
          /\ e.closed /\ e.busy = pools[i].busy
      BY <1>2, <2>3 DEF PoolRecord
    <3> HIDE DEF e
    <3>2. Kept(g) /\ pools'[i] = e /\ \A p \in DOMAIN pools : p # i => pools'[p] = pools[p]
      BY <1>3, <2>1, <2>3, <3>1 DEF e
    <3>3. Uses(g) /\ pc'[g] = "done"
      BY <1>4, <2>1, <3>2 DEF Opened
    <3>4. DOMAIN pools' = DOMAIN pools /\ Len(pools') = Len(pools)
      BY <1>2, <3>2, LenProperties DEF Kept
    <3>5. HoldsOwn(g)'
      BY <2>2, <3>1, <3>2, <3>3, <3>4 DEF HoldsOwn, Asked
    <3>6. ASSUME met[g] = {} PROVE AloneHas(g)'
      BY <1>0, <1>1, <1>2, <2>1, <2>3, <3>1, <3>2, <3>3, <3>4, <3>6 DEF AloneHas, Opened, Asked
    <3> QED
      BY <3>3, <3>5, <3>6, UseStep
  <2>4. CASE closes[g] \notin DOMAIN pools
    <3>1. pools' = pools
      BY <1>2, <2>1, <2>4
    <3>2. met[g] # {}
      BY <1>0, <1>2, <2>1, <2>4 DEF AloneHas, Opened
    <3>3. Kept(g)
      BY <1>2, <3>1 DEF Kept
    <3>4. Uses(g) /\ pc'[g] = "done"
      BY <1>4, <2>1, <3>3 DEF Opened
    <3>5. HoldsOwn(g)'
      BY <2>2, <3>1, <3>4 DEF HoldsOwn, Asked
    <3> QED
      BY <3>2, <3>4, <3>5, UseStep
  <2> QED
    BY <2>3, <2>4
<1> QED
  BY <1>5, <1>6, <1>7, <1>8

LEMMA PgStep == ASSUME PgInv, [PgNext]_pgVars PROVE PgInv'
<1>1. CASE UNCHANGED pgVars
  <2>1. UNCHANGED <<address, connConfig, db, pools, pc, pool, closes, samples, met>>
    BY <1>1 DEF pgVars
  <2>2. PgTypes' /\ Acquainted' /\ OnePoolEach' /\ LaterMet' /\ PushedAfter'
    BY <2>1 DEF PgInv, PgTypes, Acquainted, Running, OnePoolEach, LaterMet, PushedAfter
  <2>3. ASSUME NEW g \in Gathers
        PROVE  HoldsOwn(g)' /\ (met'[g] = {} => AloneHas(g)')
    BY <2>1 DEF PgInv, HoldsOwn, AloneHas
  <2> QED
    BY <2>2, <2>3 DEF PgInv
<1> QED
  BY <1>1, InitStep, BeginGatherStep, OpenStep, PoolsSameStep, PoolChangesStep
     DEF PgNext, Gather

(***************************************************************************)
(* mysql.                                                                   *)
(***************************************************************************)

\* Only the rows of the sub-gather in progress hold the one connection, and a
\* Gather that an Init overlaps knows it.
ConnectionFree == myPc \in {"out", "connect", "ask"} => conn = 0
FillingSeen == filling \in Nat /\ (filling > 0 /\ myPc # "out" => overlapped)
CrashOverlapped == myPc = "crashed" => overlapped

MyInv == ConnectionFree /\ FillingSeen /\ CrashOverlapped

LEMMA MyStep == ASSUME MyInv, [MyNext]_myVars PROVE MyInv'
<1> USE DEF MyInv, ConnectionFree, FillingSeen, CrashOverlapped, insVars, rowVars
<1>1. CASE UNCHANGED myVars
  BY <1>1 DEF myVars
<1>2. CASE BeginMysqlGather
  BY <1>2 DEF BeginMysqlGather
<1>3. CASE MyGatherStep
  <2>1. CASE \E up \in 0..1 : Ping(up)
    BY <2>1 DEF Ping
  <2>2. CASE Skip \/ Compute \/ LogBinOff \/ TryNext \/ QueryError
    BY <2>2 DEF Skip, Compute, LogBinOff, TryNext, QueryError, NextSub, CanQuery, Asking
  <2>3. CASE CanQuery /\ \E all \in Answers[Sub] : \E n \in 0..Len(all) : Query(all, n)
    BY <2>3 DEF Query, CanQuery, Asking
  <2>4. CASE Row
    BY <2>4 DEF Row, Reading
  <2>5. CASE MapRace
    BY <2>5 DEF MapRace, Reading
  <2>6. CASE ScanError
    BY <2>6 DEF ScanError, Reading, NextSub
  <2>7. CASE RowsDone \/ EndMysqlGather
    BY <2>7 DEF RowsDone, EndMysqlGather, NextSub
  <2> QED
    BY <1>3, <2>1, <2>2, <2>3, <2>4, <2>5, <2>6, <2>7 DEF MyGatherStep
<1>4. CASE FillMap
  BY <1>4 DEF FillMap
<1>5. CASE \E c \in Configs : InitRefusedAfterFlags(c) \/ InitMakesMap(c)
  <2>1. PICK c \in Configs : InitRefusedAfterFlags(c) \/ InitMakesMap(c)
    BY <1>5
  <2>2. filling = 0 /\ myPc' = myPc /\ conn' = conn /\ filling' \in {0, 1}
    BY <2>1 DEF InitRefusedAfterFlags, InitMakesMap, InitFlags
  <2>3. overlapped' <=> overlapped \/ myPc # "out"
    BY <2>1 DEF InitRefusedAfterFlags, InitMakesMap, InitFlags
  <2> QED
    BY <2>2, <2>3
<1> HIDE DEF MyInv
<1> QED
  BY <1>1, <1>2, <1>3, <1>4, <1>5 DEF MyNext, MyInstance

(***************************************************************************)
(* mysql: what is made of the rows.  While no row of a result was lost, the *)
(* rows read and those to come are the result; the list has each sample of  *)
(* the rows read once and no other of their metrics, and the cache has the  *)
(* pages they name.                                                         *)
(***************************************************************************)

\* The rows the server may have for a sub-gather.
RowsFor(sub) == UNION {Range(all) : all \in Answers[sub]}

MyTypes ==
  /\ at \in 1..12 /\ myPc \in {"out", "connect", "ask", "rows", "done", "crashed"}
  /\ myPc \in {"out", "connect"} => at = 1 /\ DOMAIN slist = {}
  /\ cache \in [Pages \cup {PAGE_SIZE} -> Nat]
  /\ answer \in [Range(Subs) -> {<<>>} \cup UNION {Answers[sub] : sub \in DOMAIN Answers}]

RowsInTurn ==
  /\ myPc \in {"out", "connect", "ask", "done"} => got = <<>> /\ pending = <<>>
  /\ myPc = "rows" =>
       /\ at <= 11 /\ Sub # "compute"
       /\ got \in Seq(RowsFor(Sub)) /\ pending \in Seq(RowsFor(Sub))
       /\ Sub \notin hurt =>
            /\ answer[Sub] \in Answers[Sub] /\ Len(answer[Sub]) = Len(got) + Len(pending)
            /\ \A i \in 1..Len(pending) : pending[i] = answer[Sub][Len(got) + i]

\* The sub-gathers whose cells are counted, and their places.
Tallied == {"status", "variables", "slave"}
Place(sub) == CASE sub = "status" -> 1 [] sub = "variables" -> 2 [] OTHER -> 11

\* What is not asked yet has no result.
NotAsked ==
  myPc # "crashed" =>
    \A sub \in Tallied :
      Place(sub) > at \/ (Place(sub) = at /\ myPc # "rows") => answer[sub] = <<>>

Results == \A sub \in Tallied : answer[sub] = <<>> \/ answer[sub] \in Answers[sub]

\* The samples a row is worth.
Gives(sub, row, names) ==
  IF sub = "slave" THEN {slaveSample(row, row.cols[c]) : c \in SlaveCounted(row, names)}
  ELSE IF Counted(sub, row, names) THEN {CellSample(sub, row)} ELSE {}

MetricsOf(sub) == IF sub = "status" THEN {"status", "buffer_pool_page_changes"} ELSE {sub}

\* How often s is in list, and list after samples f were pushed.
TimesIn(list, s) == IF s \in DOMAIN list THEN list[s] ELSE 0
PushedTo(list, f) ==
  [s \in DOMAIN list \cup Range(f) |-> TimesIn(list, s) + Cardinality({i \in DOMAIN f : f[i] = s})]

\* The first n rows of a result are in list, each once, and no other ones.
TallyOf(sub, all, n, names, list) ==
  /\ \A i \in 1..n : \A s \in Gives(sub, all[i], names) : TimesIn(list, s) = 1
  /\ \A s \in DOMAIN list : s.metric \in MetricsOf(sub) =>
       \E i \in 1..n : s \in Gives(sub, all[i], names)

\* The metrics that are counted, and a list that gained none of them.
Own == {"status", "buffer_pool_page_changes", "variables", "slave", "bytes"}
AsideOf(list, list2) ==
  /\ \A s \in DOMAIN list2 : s \in DOMAIN list \/ s.metric \notin Own
  /\ \A s : s.metric \in Own /\ TimesIn(list, s) = 1 => TimesIn(list2, s) = 1

\* The number of rows of a result that are in slist.
Handled(sub) == IF myPc = "rows" /\ Sub = sub THEN Len(got) ELSE Len(answer[sub])

Tally ==
  ~overlapped /\ myPc # "crashed" =>
    \A sub \in Tallied \ hurt : TallyOf(sub, answer[sub], Handled(sub), valid, slist)

\* The pages in c are those of the first n rows of the status.
PagesSeen(all, n, c) ==
  \A k \in Pages :
    \/ \E i \in 1..n : /\ all[i].key = k /\ parseStatus(all[i]).ok
                       /\ c[k] = parseStatus(all[i]).value
    \/ c[k] = 0 /\ \A i \in 1..n : all[i].key = k => ~parseStatus(all[i]).ok

PagesKept ==
  "status" \notin hurt /\ myPc # "crashed" =>
    IF at = 1 THEN PagesSeen(answer["status"], Handled("status"), cache)
    ELSE cache[PoolPages("free")] <= cache[PoolPages("total")]

NoBytesYet == at <= 4 => \A s \in DOMAIN slist : s.metric # "bytes"

RowsInv ==
  /\ MyTypes /\ RowsInTurn /\ NotAsked /\ Results
  /\ Tally /\ PagesKept /\ NoBytesYet /\ BytesSane

\* The places of the sub-gathers that matter.
LEMMA SubPlaces ==
  /\ Len(Subs) = 11 /\ DOMAIN Subs = 1..11
  /\ \A a \in 1..11 : Subs[a] \in Range(Subs)
  /\ \A a \in 1..11 : \A sub \in Tallied : Subs[a] = sub <=> a = Place(sub)
  /\ \A a \in 1..11 : Subs[a] = "compute" <=> a = 4
  /\ Tallied \subseteq Range(Subs) /\ \A sub \in Tallied : Place(sub) \in {1, 2, 11}
<1>1. Len(Subs) = 11 /\ DOMAIN Subs = 1..11
  BY DEF Subs
<1>2. \A a \in 1..11 : Subs[a] \in Range(Subs)
  BY <1>1 DEF Range
<1>3. /\ \A a \in 1..11 : Subs[a] = "status" <=> a = 1
      /\ \A a \in 1..11 : Subs[a] = "variables" <=> a = 2
      /\ \A a \in 1..11 : Subs[a] = "slave" <=> a = 11
      /\ \A a \in 1..11 : Subs[a] = "compute" <=> a = 4
  BY DEF Subs
<1>4. Place("status") = 1 /\ Place("variables") = 2 /\ Place("slave") = 11
  BY DEF Place
<1>5. \A a \in 1..11 : \A sub \in Tallied : Subs[a] = sub <=> a = Place(sub)
  BY <1>3, <1>4 DEF Tallied
<1>6. Tallied \subseteq Range(Subs)
  <2>1. Subs[1] \in Range(Subs) /\ Subs[2] \in Range(Subs) /\ Subs[11] \in Range(Subs)
    BY <1>2
  <2> QED
    BY <1>3, <2>1 DEF Tallied
<1> QED
  BY <1>1, <1>2, <1>3, <1>4, <1>5, <1>6 DEF Tallied

\* Pushing the samples f: a sample that is not among them keeps its count, and
\* one that is new and once among them is there once.
LEMMA Pushing ==
  ASSUME NEW list, NEW f
  PROVE  /\ DOMAIN PushedTo(list, f) = DOMAIN list \cup Range(f)
         /\ \A s : s \notin Range(f) /\ TimesIn(list, s) = 1 => TimesIn(PushedTo(list, f), s) = 1
         /\ \A s : /\ s \notin DOMAIN list
                   /\ \E i \in DOMAIN f : f[i] = s /\ \A j \in DOMAIN f : f[j] = s => j = i
                   => TimesIn(PushedTo(list, f), s) = 1
<1>1. DOMAIN PushedTo(list, f) = DOMAIN list \cup Range(f)
  BY DEF PushedTo
<1>2. ASSUME NEW s, s \notin Range(f), TimesIn(list, s) = 1
      PROVE  TimesIn(PushedTo(list, f), s) = 1
  <2>1. {i \in DOMAIN f : f[i] = s} = {}
    BY <1>2 DEF Range
  <2>2. s \in DOMAIN list
    BY <1>2 DEF TimesIn
  <2>3. PushedTo(list, f)[s] = 1 + Cardinality({})
    BY <1>2, <2>1, <2>2 DEF PushedTo
  <2>4. Cardinality({}) = 0
    BY FS_EmptySet
  <2> QED
    BY <1>1, <2>2, <2>3, <2>4 DEF TimesIn
<1>3. ASSUME NEW s, s \notin DOMAIN list,
             NEW i \in DOMAIN f, f[i] = s, \A j \in DOMAIN f : f[j] = s => j = i
      PROVE  TimesIn(PushedTo(list, f), s) = 1
  <2>1. {j \in DOMAIN f : f[j] = s} = {i}
    BY <1>3
  <2>2. s \in Range(f) /\ TimesIn(list, s) = 0
    BY <1>3 DEF Range, TimesIn
  <2>3. PushedTo(list, f)[s] = 0 + Cardinality({i})
    BY <2>1, <2>2 DEF PushedTo
  <2>4. Cardinality({i}) = 1
    BY FS_Singleton
  <2> QED
    BY <1>1, <2>2, <2>3, <2>4 DEF TimesIn
<1> QED
  BY <1>1, <1>2, <1>3

\* The samples of the next row are counted once.
LEMMA TallyRow ==
  ASSUME NEW sub \in Tallied, NEW all, NEW n \in Nat, NEW names, NEW list, NEW f,
         TallyOf(sub, all, n, names, list),
         \A s \in Gives(sub, all[n + 1], names) : s.metric \in MetricsOf(sub),
         \A i \in 1..n : Gives(sub, all[i], names) \cap Gives(sub, all[n + 1], names) = {},
         Range(f) = Gives(sub, all[n + 1], names),
         \A i, j \in DOMAIN f : f[i] = f[j] => i = j
  PROVE  TallyOf(sub, all, n + 1, names, PushedTo(list, f))
<1>1. \A i \in 1..(n + 1) : i \in 1..n \/ i = n + 1
  OBVIOUS
<1>2. n + 1 \in 1..(n + 1) /\ \A i \in 1..n : i \in 1..(n + 1)
  OBVIOUS
<1>3. ASSUME NEW i \in 1..n, NEW s \in Gives(sub, all[i], names)
      PROVE  TimesIn(PushedTo(list, f), s) = 1
  <2>1. TimesIn(list, s) = 1
    BY <1>3 DEF TallyOf
  <2>2. s \notin Range(f)
    BY <1>3
  <2> QED
    BY <2>1, <2>2, Pushing
<1>4. ASSUME NEW s \in Gives(sub, all[n + 1], names)
      PROVE  TimesIn(PushedTo(list, f), s) = 1
  <2>1. s \notin DOMAIN list
    BY <1>4 DEF TallyOf
  <2>2. PICK i \in DOMAIN f : f[i] = s
    BY <1>4 DEF Range
  <2>3. \E k \in DOMAIN f : f[k] = s /\ \A j \in DOMAIN f : f[j] = s => j = k
    BY <2>2
  <2>4. \A t : /\ t \notin DOMAIN list
               /\ \E k \in DOMAIN f : f[k] = t /\ \A j \in DOMAIN f : f[j] = t => j = k
               => TimesIn(PushedTo(list, f), t) = 1
    BY Pushing, Zenon
  <2> QED
    BY <2>1, <2>3, <2>4, Zenon
<1>5. \A s \in DOMAIN PushedTo(list, f) : s.metric \in MetricsOf(sub) =>
        \E i \in 1..(n + 1) : s \in Gives(sub, all[i], names)
  <2> SUFFICES ASSUME NEW s \in DOMAIN PushedTo(list, f), s.metric \in MetricsOf(sub)
               PROVE  \E i \in 1..(n + 1) : s \in Gives(sub, all[i], names)
    OBVIOUS
  <2>1. s \in DOMAIN list \/ s \in Range(f)
    BY Pushing
  <2>2. CASE s \in DOMAIN list
    BY <1>2, <2>2 DEF TallyOf
  <2>3. CASE s \in Range(f)
    BY <1>2, <2>3
  <2> QED
    BY <2>1, <2>2, <2>3
<1> QED
  BY <1>1, <1>3, <1>4, <1>5 DEF TallyOf

\* What the rows of a result are worth: metrics of their own, and no sample of
\* two rows.
LEMMA GivenMetrics ==
  ASSUME NEW sub \in Tallied, NEW row, NEW names, NEW s \in Gives(sub, row, names)
  PROVE  s.metric \in MetricsOf(sub)
<1>1. CASE sub = "slave"
  BY <1>1 DEF Gives, MetricsOf, slaveSample, Sample
<1>2. CASE sub # "slave"
  BY <1>2 DEF Gives, MetricsOf, CellSample, StatusSample, Sample, Tallied
<1> QED
  BY <1>1, <1>2

\* The cell a status or variable sample was made of.
LEMMA CellName ==
  ASSUME NEW sub \in {"status", "variables"}, NEW a, NEW b,
         a.key \in STRING \X STRING, b.key \in STRING \X STRING,
         CellSample(sub, a) = CellSample(sub, b)
  PROVE  a.key = b.key
<1>1. CASE sub = "variables"
  BY <1>1 DEF CellSample, Sample
<1>2. CASE sub = "status"
  <2>1. StatusSample(a.key, parseStatus(a).value) = StatusSample(b.key, parseStatus(b).value)
    BY <1>2 DEF CellSample
  <2> DEFINE ka == a.key  kb == b.key  va == parseStatus(a).value  vb == parseStatus(b).value
  <2>2. ka \in STRING \X STRING /\ kb \in STRING \X STRING /\ StatusSample(ka, va) = StatusSample(kb, vb)
    BY <2>1
  <2> HIDE DEF ka, kb, va, vb
  <2>3. ka = <<ka[1], ka[2]>> /\ kb = <<kb[1], kb[2]>>
    BY <2>2
  <2> DEFINE Changed(k) == k[1] = "innodb_buffer_pool_pages" /\ k[2] \notin PageStates
  <2>4. CASE Changed(ka)
    <3>1. StatusSample(ka, va).metric = "buffer_pool_page_changes"
          /\ StatusSample(ka, va).label = <<ka[2]>>
      BY <2>4 DEF StatusSample, Sample
    <3>2. Changed(kb)
      BY <2>2, <3>1 DEF StatusSample, Sample
    <3>3. StatusSample(kb, vb).label = <<kb[2]>>
      BY <3>2 DEF StatusSample, Sample
    <3>4. ka[2] = kb[2]
      BY <2>2, <3>1, <3>3
    <3> QED
      BY <2>3, <2>4, <3>2, <3>4 DEF ka, kb
  <2>5. CASE ~Changed(ka)
    <3>1. StatusSample(ka, va).metric = "status" /\ StatusSample(ka, va).label = ka
      BY <2>5 DEF StatusSample, Sample
    <3>2. ~Changed(kb)
      BY <2>2, <3>1 DEF StatusSample, Sample
    <3>3. StatusSample(kb, vb).label = kb
      BY <3>2 DEF StatusSample, Sample
    <3> QED
      BY <2>2, <3>1, <3>3 DEF ka, kb
  <2> QED
    BY <2>4, <2>5
<1> QED
  BY <1>1, <1>2

\* The channel and the column a replication sample was made of.
LEMMA ColumnName ==
  ASSUME NEW r1, NEW r2, NEW a, NEW b,
         a.key \in STRING \X STRING, b.key \in STRING \X STRING,
         slaveSample(r1, a) = slaveSample(r2, b)
  PROVE  ChannelName(r1) = ChannelName(r2) /\ a.key = b.key
<1> DEFINE c1 == ChannelName(r1)  c2 == ChannelName(r2)  ka == a.key  kb == b.key
<1>1. <<c1, ka[1], ka[2]>> = <<c2, kb[1], kb[2]>>
  BY DEF slaveSample, Sample
<1>2. ka \in STRING \X STRING /\ kb \in STRING \X STRING
  OBVIOUS
<1> HIDE DEF c1, c2, ka, kb
<1>3. c1 = c2 /\ ka[1] = kb[1] /\ ka[2] = kb[2]
  BY <1>1
<1>4. ka = <<ka[1], ka[2]>> /\ kb = <<kb[1], kb[2]>>
  BY <1>2
<1>5. c1 = c2 /\ ka = kb
  BY <1>3, <1>4
<1> QED
  BY <1>5 DEF c1, c2, ka, kb

LEMMA GivenOnce ==
  ASSUME NEW sub \in Tallied, NEW all \in Answers[sub], NEW names,
         NEW i \in DOMAIN all, NEW j \in DOMAIN all, i # j
  PROVE  Gives(sub, all[i], names) \cap Gives(sub, all[j], names) = {}
<1> SUFFICES ASSUME NEW s, s \in Gives(sub, all[i], names), s \in Gives(sub, all[j], names)
             PROVE  FALSE
  OBVIOUS
<1>1. CASE sub = "slave"
  <2>1. PICK c \in SlaveCounted(all[i], names) : s = slaveSample(all[i], all[i].cols[c])
    BY <1>1 DEF Gives
  <2>2. PICK d \in SlaveCounted(all[j], names) : s = slaveSample(all[j], all[j].cols[d])
    BY <1>1 DEF Gives
  <2>3. c \in DOMAIN all[i].cols /\ d \in DOMAIN all[j].cols
    BY DEF SlaveCounted
  <2>4. all[i].cols[c].key \in STRING \X STRING /\ all[j].cols[d].key \in STRING \X STRING
    BY <1>1, <2>3, MyServerAssumption
  <2>5. ChannelName(all[i]) = ChannelName(all[j])
    <3> DEFINE r1 == all[i]  r2 == all[j]  a == r1.cols[c]  b == r2.cols[d]
    <3>1. a.key \in STRING \X STRING /\ b.key \in STRING \X STRING
          /\ slaveSample(r1, a) = slaveSample(r2, b)
      BY <2>1, <2>2, <2>4
    <3> HIDE DEF r1, r2, a, b
    <3>2. ChannelName(r1) = ChannelName(r2)
      BY <3>1, ColumnName
    <3> QED
      BY <3>2 DEF r1, r2
  <2> QED
    BY <1>1, <2>5, MyServerAssumption
<1>2. CASE sub \in {"status", "variables"}
  <2>1. s = CellSample(sub, all[i]) /\ s = CellSample(sub, all[j])
    BY <1>2 DEF Gives
  <2>2. all[i].key \in STRING \X STRING /\ all[j].key \in STRING \X STRING
    BY <1>2, MyServerAssumption
  <2>3. all[i].key = all[j].key
    <3> DEFINE a == all[i]  b == all[j]
    <3>1. a.key \in STRING \X STRING /\ b.key \in STRING \X STRING
          /\ CellSample(sub, a) = CellSample(sub, b)
      BY <2>1, <2>2
    <3> HIDE DEF a, b
    <3>2. a.key = b.key
      BY <1>2, <3>1, CellName
    <3> QED
      BY <3>2 DEF a, b
  <2> QED
    BY <1>2, <2>3, MyServerAssumption
<1> QED
  BY <1>1, <1>2 DEF Tallied

\* The samples Row pushes are those the row is worth, each once.
LEMMA RowGives ==
  ASSUME NEW sub \in Tallied, NEW row \in RowsFor(sub)
  PROVE  /\ Range(RowSamples(sub, row)) = Gives(sub, row, valid)
         /\ \A i, j \in DOMAIN RowSamples(sub, row) :
              RowSamples(sub, row)[i] = RowSamples(sub, row)[j] => i = j
<1> DEFINE f == RowSamples(sub, row)
<1>1. CASE sub = "slave"
  <2>1. f = [c \in SlaveCounted(row, valid) |-> slaveSample(row, row.cols[c])]
    BY <1>1 DEF RowSamples, slaveSamples
  <2>2. PICK all \in Answers["slave"] : row \in Range(all)
    BY <1>1 DEF RowsFor
  <2>3. PICK k \in DOMAIN all : row = all[k]
    BY <2>2 DEF Range
  <2>4. \A c, d \in DOMAIN row.cols : /\ row.cols[c].key \in STRING \X STRING
                                      /\ row.cols[c].key = row.cols[d].key => c = d
    BY <2>3, MyServerAssumption
  <2>5. SlaveCounted(row, valid) \subseteq DOMAIN row.cols
    BY DEF SlaveCounted
  <2>6. ASSUME NEW c \in SlaveCounted(row, valid), NEW d \in SlaveCounted(row, valid),
               slaveSample(row, row.cols[c]) = slaveSample(row, row.cols[d])
        PROVE  c = d
    BY <2>4, <2>5, <2>6, ColumnName
  <2> HIDE DEF f
  <2>7. Range(f) = {slaveSample(row, row.cols[c]) : c \in SlaveCounted(row, valid)}
    BY <2>1 DEF Range
  <2>8. \A i, j \in DOMAIN f : f[i] = f[j] => i = j
    BY <2>1, <2>6
  <2> QED
    BY <1>1, <2>7, <2>8 DEF f, Gives
<1>2. CASE sub \in {"status", "variables"}
  <2>1. f = IF Counted(sub, row, valid) THEN <<CellSample(sub, row)>> ELSE <<>>
    BY <1>2 DEF RowSamples, cellSamples
  <2> HIDE DEF f
  <2>2. CASE Counted(sub, row, valid)
    <3> DEFINE x == CellSample(sub, row)
    <3>1. f = <<x>>
      BY <2>1, <2>2
    <3> HIDE DEF x
    <3>2. DOMAIN f = {1} /\ f[1] = x
      BY <3>1
    <3>3. Range(f) = {x} /\ \A i, j \in DOMAIN f : i = j
      BY <3>2 DEF Range
    <3> QED
      BY <1>2, <2>2, <3>3 DEF f, x, Gives
  <2>3. CASE ~Counted(sub, row, valid)
    <3>1. f = <<>>
      BY <2>1, <2>3
    <3>2. DOMAIN f = {}
      BY <3>1
    <3>3. Range(f) = {} /\ \A i, j \in DOMAIN f : i = j
      BY <3>2 DEF Range
    <3> QED
      BY <1>2, <2>3, <3>3 DEF f, Gives
  <2> QED
    BY <2>2, <2>3
<1> QED
  BY <1>1, <1>2 DEF Tallied

\* Samples of other metrics change no tally.
LEMMA TallyAside ==
  ASSUME NEW sub \in Tallied, NEW all, NEW n, NEW names, NEW list, NEW list2,
         TallyOf(sub, all, n, names, list), AsideOf(list, list2)
  PROVE  TallyOf(sub, all, n, names, list2)
<1>1. MetricsOf(sub) \subseteq Own
  BY DEF MetricsOf, Own, Tallied
<1>2. \A i \in 1..n : \A s \in Gives(sub, all[i], names) : s.metric \in Own
  BY <1>1, GivenMetrics
<1> QED
  BY <1>1, <1>2 DEF TallyOf, AsideOf

LEMMA PushAside ==
  ASSUME NEW list, NEW f, \A s \in Range(f) : s.metric \notin Own
  PROVE  AsideOf(list, PushedTo(list, f))
<1>1. DOMAIN PushedTo(list, f) = DOMAIN list \cup Range(f)
  BY Pushing
<1>2. ASSUME NEW s, s.metric \in Own, TimesIn(list, s) = 1 PROVE TimesIn(PushedTo(list, f), s) = 1
  <2>1. s \notin Range(f)
    BY <1>2
  <2> QED
    BY <1>2, <2>1, Pushing
<1> QED
  BY <1>1, <1>2 DEF AsideOf

\* The rows of the other sub-gathers give other metrics.
LEMMA OtherRows ==
  ASSUME NEW sub \in Range(Subs) \ Tallied, NEW row, NEW s \in Range(RowSamples(sub, row))
  PROVE  s.metric \notin Own
<1>1. sub \in {"innodb", "compute", "binlog", "byState", "byUser", "schema", "table", "system"}
  <2>1. PICK a \in 1..11 : sub = Subs[a]
    BY SubPlaces DEF Range
  <2> QED
    BY <2>1 DEF Subs, Tallied
<1>2. PICK i \in DOMAIN RowSamples(sub, row) : s = RowSamples(sub, row)[i]
  BY DEF Range
<1>3. CASE sub \in {"byUser", "schema"}
  <2>1. RowSamples(sub, row) = countSamples(sub, row)
    BY <1>3 DEF RowSamples
  <2> QED
    BY <1>2, <1>3, <2>1 DEF countSamples, Sample, Own
<1>4. CASE sub \in {"table", "system"}
  <2>1. RowSamples(sub, row) = tableSamples(sub, row)
    BY <1>4 DEF RowSamples
  <2> QED
    BY <1>2, <1>4, <2>1 DEF tableSamples, Sample, Own
<1>5. CASE sub = "innodb"
  <2>1. RowSamples(sub, row) = innodbSamples(row)
    BY <1>5 DEF RowSamples
  <2> QED
    BY <1>2, <2>1 DEF innodbSamples, Sample, Own
<1>6. CASE sub \in {"compute", "binlog", "byState"}
  <2>1. RowSamples(sub, row) = <<>>
    BY <1>6 DEF RowSamples
  <2> QED
    BY <1>2, <2>1
<1> QED
  BY <1>1, <1>3, <1>4, <1>5, <1>6

LEMMA WhenSeq ==
  ASSUME NEW T, NEW cond, NEW s \in T
  PROVE  When(cond, s) \in Seq(T)
BY DEF When

LEMMA SeqRange ==
  ASSUME NEW T, NEW f \in Seq(T)
  PROVE  Range(f) \subseteq T
BY ElementOfSeq, LenProperties DEF Range

\* So do the samples after the rows.
LEMMA EndAside ==
  ASSUME NEW sub, NEW s \in Range(EndSamples(sub))
  PROVE  s.metric \notin Own
<1>1. CASE sub = "status"
  <2> DEFINE x == Sample("galera", <<"info">>, 1)
             T == {x} \cup {Sample("galera_latency", <<EvsNames[i]>>, 0) : i \in 1..5}
             a == When(Text("wsrep_local_state_uuid") # "", x)
             b == IF Text("wsrep_evs_repl_latency") = "five numbers"
                  THEN [i \in 1..5 |-> Sample("galera_latency", <<EvsNames[i]>>, 0)] ELSE <<>>
  <2>1. EndSamples(sub) = a \o b
    BY <1>1 DEF EndSamples, StatusEnd
  <2>2. a \in Seq(T)
    BY WhenSeq
  <2>3. b \in Seq(T)
    <3> DEFINE e == [i \in 1..5 |-> Sample("galera_latency", <<EvsNames[i]>>, 0)]
    <3>1. e = [i \in 1..5 |-> e[i]] /\ \A i \in 1..5 : e[i] \in T
      OBVIOUS
    <3>2. b = e \/ b = <<>>
      OBVIOUS
    <3> HIDE DEF e, T, b
    <3>3. [i \in 1..5 |-> e[i]] \in Seq(T)
      BY <3>1
    <3> QED
      BY <3>1, <3>2, <3>3, EmptySeq
  <2>4. \A t \in T : t.metric \notin Own
    BY DEF Sample, Own
  <2> HIDE DEF a, b, T
  <2>5. a \o b \in Seq(T)
    BY <2>2, <2>3, ConcatProperties
  <2> QED
    BY <2>1, <2>4, <2>5, SeqRange
<1>2. CASE sub = "variables"
  <2> DEFINE level == IF Text("transaction_isolation") # "" THEN Text("transaction_isolation")
                      ELSE Text("tx_isolation")
             opts == Text("wsrep_provider_options")
             v1 == Sample("version_info", <<Text("version")>>, 1)
             v2 == Sample("galera", <<"variables">>, 1)
             v3 == Sample("galera", <<"gcache">>, parseWsrepProviderOptions(opts))
             v4 == Sample("isolation", <<level>>, 1)
             T == {v1, v2, v3, v4}
             b == When(Text("wsrep_cluster_name") # "", v2)
             c == When(opts # "", v3)
             d == When(level # "", v4)
  <2>1. EndSamples(sub) = ((<<v1>> \o b) \o c) \o d
    BY <1>2 DEF EndSamples, VariablesEnd
  <2>2. b \in Seq(T) /\ c \in Seq(T) /\ d \in Seq(T)
    BY WhenSeq
  <2>3. \A t \in T : t.metric \notin Own
    <3>1. v1.metric = "version_info" /\ v2.metric = "galera"
      BY DEF Sample
    <3>2. v3.metric = "galera" /\ v4.metric = "isolation"
      BY DEF Sample
    <3> HIDE DEF v1, v2, v3, v4
    <3> QED
      BY <3>1, <3>2 DEF Own
  <2> HIDE DEF level, opts, v1, v2, v3, v4, b, c, d
  <2>4. <<v1>> \in Seq(T)
    OBVIOUS
  <2> HIDE DEF T
  <2>5. <<v1>> \o b \in Seq(T)
    BY <2>2, <2>4, ConcatProperties
  <2>6. (<<v1>> \o b) \o c \in Seq(T)
    BY <2>2, <2>5, ConcatProperties
  <2>7. ((<<v1>> \o b) \o c) \o d \in Seq(T)
    BY <2>2, <2>6, ConcatProperties
  <2> QED
    BY <2>1, <2>3, <2>7, SeqRange
<1>3. CASE sub = "binlog"
  <2> DEFINE odd == \E i \in DOMAIN got : got[i].cols \notin {2, 3}
             x == Sample("binlog", <<"size">>, IF odd THEN 0 ELSE Sizes)
             y == Sample("binlog", <<"count">>, Len(got))
             z == Sample("binlog", <<"number">>, Last(got).file)
             T == {x, y, z}
             b == IF got = <<>> \/ odd THEN <<>> ELSE When(Last(got).word = "number", z)
  <2>1. EndSamples(sub) = <<x, y>> \o b
    BY <1>3 DEF EndSamples, BinlogEnd
  <2>2. b \in Seq(T)
    <3>1. When(Last(got).word = "number", z) \in Seq(T)
      BY WhenSeq
    <3> QED
      BY <3>1
  <2>3. \A t \in T : t.metric \notin Own
    BY DEF Sample, Own
  <2> HIDE DEF x, y, z, b
  <2>4. <<x, y>> \in Seq(T)
    OBVIOUS
  <2> HIDE DEF T
  <2>5. <<x, y>> \o b \in Seq(T)
    BY <2>2, <2>4, ConcatProperties
  <2> QED
    BY <2>1, <2>3, <2>5, SeqRange
<1>4. CASE sub = "byState"
  <2>1. EndSamples(sub) = ByStateEnd
    BY <1>4 DEF EndSamples
  <2>2. \A i \in DOMAIN ByStateEnd : ByStateEnd[i].metric = "byState"
    BY DEF ByStateEnd, Sample
  <2> QED
    BY <2>1, <2>2 DEF Own, Range
<1>5. CASE sub \notin {"status", "variables", "binlog", "byState"}
  <2>1. EndSamples(sub) = <<>>
    BY <1>5 DEF EndSamples
  <2> QED
    BY <2>1 DEF Range
<1> QED
  BY <1>1, <1>2, <1>3, <1>4, <1>5

\* A part of the pages has a part of the bytes.
LEMMA Portion ==
  ASSUME NEW p \in Nat, NEW q \in Nat, q <= p, NEW z \in Nat
  PROVE  0 <= (p - q) * z /\ (p - q) * z <= p * z
<1>1. (p - q) * z + q * z = p * z
  OBVIOUS
<1>2. (p - q) * z \in Nat /\ q * z \in Nat /\ p * z \in Nat
  OBVIOUS
<1> QED
  BY <1>1, <1>2

LEMMA TallyPast ==
  ASSUME NEW sub \in Tallied, NEW all, NEW n, NEW names, NEW list, NEW f,
         TallyOf(sub, all, n, names, list), \A s \in Range(f) : s.metric \notin MetricsOf(sub)
  PROVE  TallyOf(sub, all, n, names, PushedTo(list, f))
<1>1. \A i \in 1..n : \A s \in Gives(sub, all[i], names) : s \notin Range(f)
  BY GivenMetrics
<1>2. \A i \in 1..n : \A s \in Gives(sub, all[i], names) : TimesIn(PushedTo(list, f), s) = 1
  BY <1>1, Pushing DEF TallyOf
<1>3. DOMAIN PushedTo(list, f) = DOMAIN list \cup Range(f)
  BY Pushing
<1> QED
  BY <1>2, <1>3 DEF TallyOf

\* A step that pushes samples of other metrics and handles no row of a result.
LEMMA AsideStep ==
  ASSUME RowsInv, AsideOf(slist, slist'), UNCHANGED <<valid, answer, overlapped>>,
         hurt \subseteq hurt', myPc # "crashed", at' \in Nat, at' >= at,
         \A sub \in Tallied \ hurt' : Handled(sub)' = Handled(sub)
  PROVE  Tally' /\ NoBytesYet' /\ BytesSane'
<1>1. Tally'
  <2> SUFFICES ASSUME ~overlapped, NEW sub \in Tallied \ hurt'
               PROVE  TallyOf(sub, answer[sub], Handled(sub)', valid, slist')
    BY DEF Tally
  <2>1. TallyOf(sub, answer[sub], Handled(sub), valid, slist)
    BY DEF RowsInv, Tally
  <2> QED
    BY <2>1, TallyAside
<1>2. \A s \in DOMAIN slist' : s \in DOMAIN slist \/ s.metric # "bytes"
  BY DEF AsideOf, Own
<1>3. NoBytesYet' /\ BytesSane'
  <2>1. at \in Nat
    BY DEF RowsInv, MyTypes
  <2> QED
    BY <1>2, <2>1 DEF RowsInv, NoBytesYet, BytesSane, Value
<1> QED
  BY <1>1, <1>3

\* All of a result was seen: its free pages are part of the total.
LEMMA PagesSane ==
  ASSUME NEW all, all = <<>> \/ all \in Answers["status"], NEW c \in [Pages \cup {PAGE_SIZE} -> Nat],
         PagesSeen(all, Len(all), c)
  PROVE  c[PoolPages("free")] <= c[PoolPages("total")]
<1> DEFINE fr == PoolPages("free")  to == PoolPages("total")
<1>1. fr \in Pages /\ to \in Pages
  BY DEF Pages
<1> HIDE DEF fr, to
<1>2. c[fr] \in Nat /\ c[to] \in Nat
  BY <1>1
<1>3. CASE c[fr] = 0
  BY <1>2, <1>3 DEF fr, to
<1>4. CASE c[fr] # 0
  <2>1. PICK i \in 1..Len(all) : all[i].key = fr /\ c[fr] = parseStatus(all[i]).value
    BY <1>1, <1>4 DEF PagesSeen
  <2>2. all \in Answers["status"]
    <3>1. all = <<>> => Len(all) = 0
      OBVIOUS
    <3> QED
      BY <2>1, <3>1
  <2>3. all \in Seq(Range(all)) /\ DOMAIN all = 1..Len(all)
    <3>1. "status" \in DOMAIN Answers
      BY MyAssumption, SubPlaces DEF Tallied
    <3> QED
      BY <2>2, <3>1, MyServerAssumption, LenProperties
  <2>4. PICK j \in DOMAIN all : /\ all[j].key = to /\ parseStatus(all[j]).ok
                                /\ parseStatus(all[i]).value <= parseStatus(all[j]).value
    BY <2>1, <2>2, <2>3, MyServerAssumption DEF fr, to
  <2>5. PICK k \in 1..Len(all) : all[k].key = to /\ c[to] = parseStatus(all[k]).value
    BY <1>1, <2>3, <2>4 DEF PagesSeen
  <2>6. k = j
    BY <2>2, <2>3, <2>4, <2>5, MyServerAssumption
  <2> QED
    BY <2>1, <2>4, <2>5, <2>6 DEF fr, to
<1> QED
  BY <1>3, <1>4

\* The sub-gather returns.
LEMMA LeaveSub ==
  ASSUME RowsInv, NextSub, UNCHANGED <<cache, valid, answer, overlapped>>, at <= 11,
         hurt \subseteq hurt', myPc \in {"ask", "rows"},
         \A sub \in Tallied \ hurt' : Handled(sub) = Len(answer[sub])
  PROVE  /\ MyTypes' /\ RowsInTurn' /\ NotAsked' /\ Results' /\ PagesKept'
         /\ at' \in Nat /\ at' >= at
         /\ \A sub \in Tallied \ hurt' : Handled(sub)' = Handled(sub)
<1>1. /\ at' = at + 1 /\ myPc' = "ask" /\ got' = <<>> /\ pending' = <<>>
      /\ at \in 1..12 /\ at' \in 1..12
  BY DEF NextSub, RowsInv, MyTypes
<1>2. MyTypes'
  BY <1>1 DEF RowsInv, MyTypes
<1>3. RowsInTurn' /\ Results'
  BY <1>1 DEF RowsInTurn, RowsInv, Results
<1>4. NotAsked'
  <2> SUFFICES ASSUME NEW sub \in Tallied, Place(sub) > at' \/ Place(sub) = at'
               PROVE  answer[sub] = <<>>
    BY DEF NotAsked
  <2>1. Place(sub) > at
    BY <1>1, SubPlaces
  <2> QED
    BY <2>1 DEF RowsInv, NotAsked
<1>5. \A sub \in Tallied \ hurt' : Handled(sub)' = Handled(sub)
  BY <1>1 DEF Handled
<1>6. PagesKept'
  <2> SUFFICES ASSUME "status" \notin hurt'
               PROVE  cache[PoolPages("free")] <= cache[PoolPages("total")]
    BY <1>1 DEF PagesKept
  <2>1. CASE at # 1
    BY <2>1 DEF RowsInv, PagesKept
  <2>2. CASE at = 1
    <3>1. PagesSeen(answer["status"], Len(answer["status"]), cache)
      BY <2>2 DEF RowsInv, PagesKept, Tallied
    <3>2. answer["status"] = <<>> \/ answer["status"] \in Answers["status"]
      BY DEF RowsInv, Results, Tallied
    <3> QED
      BY <3>1, <3>2, PagesSane DEF RowsInv, MyTypes
  <2> QED
    BY <2>1, <2>2
<1> QED
  BY <1>1, <1>2, <1>3, <1>4, <1>5, <1>6

LEMMA SameAside == ASSUME NEW list PROVE AsideOf(list, list)
BY DEF AsideOf

\* Sub-gathers that are skipped or refused.
LEMMA SkipStep == ASSUME RowsInv, Skip \/ LogBinOff \/ QueryError PROVE RowsInv'
<1>1. /\ myPc = "ask" /\ at <= 11 /\ NextSub /\ hurt \subseteq hurt'
      /\ UNCHANGED <<cache, valid, answer, overlapped, slist>>
  BY SubPlaces DEF Skip, LogBinOff, QueryError, Fault, CanQuery, Asking, insVars
<1>2. \A sub \in Tallied \ hurt' : Handled(sub) = Len(answer[sub])
  BY <1>1 DEF Handled
<1>3. /\ MyTypes' /\ RowsInTurn' /\ NotAsked' /\ Results' /\ PagesKept'
      /\ at' \in Nat /\ at' >= at
      /\ \A sub \in Tallied \ hurt' : Handled(sub)' = Handled(sub)
  BY <1>1, <1>2, LeaveSub
<1>4. AsideOf(slist, slist')
  BY <1>1, SameAside
<1>5. Tally' /\ NoBytesYet' /\ BytesSane'
  BY <1>1, <1>3, <1>4, AsideStep
<1> QED
  BY <1>3, <1>5 DEF RowsInv

\* The next replication statement.
LEMMA TryStep == ASSUME RowsInv, TryNext PROVE RowsInv'
<1>1. /\ myPc = "ask" /\ hurt \subseteq hurt'
      /\ UNCHANGED <<at, myPc, cache, valid, answer, overlapped, slist, pending, got>>
  BY DEF TryNext, Fault, CanQuery, Asking, insVars
<1>2. /\ MyTypes' /\ RowsInTurn' /\ NotAsked' /\ Results' /\ at \in Nat
      /\ \A sub \in Tallied \ hurt' : Handled(sub)' = Handled(sub)
  BY <1>1 DEF RowsInv, MyTypes, RowsInTurn, NotAsked, Results, Handled
<1>3. PagesKept'
  BY <1>1 DEF RowsInv, PagesKept, Handled
<1>4. Tally' /\ NoBytesYet' /\ BytesSane'
  BY <1>1, <1>2, SameAside, AsideStep
<1> QED
  BY <1>2, <1>3, <1>4 DEF RowsInv

\* The rows are done: the last samples of the sub-gather.
LEMMA RowsDoneStep == ASSUME RowsInv, RowsDone PROVE RowsInv'
<1>1. /\ myPc = "rows" /\ at <= 11 /\ NextSub /\ hurt \subseteq hurt'
      /\ UNCHANGED <<cache, valid, answer, overlapped>>
      /\ slist' = PushedTo(slist, EndSamples(Sub))
  BY DEF RowsDone, RowsInv, RowsInTurn, insVars, Push, PushedTo, Times, TimesIn
<1>2. ASSUME NEW sub \in Tallied \ hurt' PROVE Handled(sub) = Len(answer[sub])
  <2>1. CASE sub # Sub
    BY <2>1 DEF Handled
  <2>2. CASE sub = Sub
    <3>1. pending = <<>> /\ Sub \notin hurt
      BY <1>1, <2>2 DEF RowsDone, Reading, Tallied
    <3>2. Len(answer[Sub]) = Len(got) + Len(pending) /\ got \in Seq(RowsFor(Sub))
      BY <1>1, <3>1 DEF RowsInv, RowsInTurn
    <3>3. Len(pending) = 0 /\ Len(got) \in Nat
      BY <3>1, <3>2, LenProperties, EmptySeq
    <3> QED
      BY <1>1, <2>2, <3>2, <3>3 DEF Handled
  <2> QED
    BY <2>1, <2>2
<1>3. /\ MyTypes' /\ RowsInTurn' /\ NotAsked' /\ Results' /\ PagesKept'
      /\ at' \in Nat /\ at' >= at
      /\ \A sub \in Tallied \ hurt' : Handled(sub)' = Handled(sub)
  BY <1>1, <1>2, LeaveSub
<1>4. AsideOf(slist, slist')
  BY <1>1, EndAside, PushAside
<1>5. Tally' /\ NoBytesYet' /\ BytesSane'
  BY <1>1, <1>3, <1>4, AsideStep
<1> QED
  BY <1>3, <1>5 DEF RowsInv

\* gatherEngineInnodbStatusCompute: the only samples of bytes.
LEMMA ComputeStep == ASSUME RowsInv, Compute PROVE RowsInv'
<1>1. /\ myPc = "ask" /\ at = 4 /\ NextSub
      /\ UNCHANGED <<cache, valid, answer, overlapped, hurt>>
      /\ slist' = PushedTo(slist, Computed)
  <2>1. myPc = "ask" /\ at <= 11 /\ Subs[at] = "compute" /\ at \in 1..12
    BY SubPlaces DEF Compute, Asking, Sub, RowsInv, MyTypes
  <2>2. at = 4
    BY <2>1, SubPlaces
  <2> QED
    BY <2>1, <2>2 DEF Compute, insVars, Push, PushedTo, Times, TimesIn
<1>2. \A sub \in Tallied \ hurt' : Handled(sub) = Len(answer[sub])
  BY <1>1 DEF Handled
<1>3. /\ MyTypes' /\ RowsInTurn' /\ NotAsked' /\ Results' /\ PagesKept'
      /\ at' = 5
      /\ \A sub \in Tallied \ hurt' : Handled(sub)' = Handled(sub)
  <2>1. at <= 11 /\ myPc \in {"ask", "rows"} /\ hurt \subseteq hurt' /\ at' = 5
    BY <1>1 DEF NextSub
  <2> QED
    BY <1>1, <1>2, <2>1, LeaveSub
<1> DEFINE P(s) == cache[PoolPages(s)]
           z == cache[PAGE_SIZE]
           used == P("total") - P("free")
           c1 == Sample("bytes", <<"used">>, used * z)
           c2 == Sample("bytes", <<"data">>, P("data") * z)
           c3 == Sample("bytes", <<"free">>, P("free") * z)
           c4 == Sample("bytes", <<"total">>, P("total") * z)
           c5 == Sample("bytes", <<"dirty">>, P("dirty") * z)
           c6 == Sample("pages", <<"utilization">>,
                        IF P("total") = 0 THEN 0 ELSE (used * 100) \div P("total"))
           c7 == Sample("pages", <<"used">>, used)
           T == {c1, c2, c3, c4, c5, c6, c7}
           w == When("extraInnodb" \in flags, c7)
<1>4. Range(Computed) \subseteq T
  <2>1. Computed = <<c1, c2, c3, c4, c5, c6>> \o w
    BY DEF Computed
  <2>2. w \in Seq(T)
    BY WhenSeq
  <2> HIDE DEF c1, c2, c3, c4, c5, c6, c7, w
  <2>3. <<c1, c2, c3, c4, c5, c6>> \in Seq(T)
    OBVIOUS
  <2> HIDE DEF T
  <2>4. <<c1, c2, c3, c4, c5, c6>> \o w \in Seq(T)
    BY <2>2, <2>3, ConcatProperties
  <2> QED
    BY <2>1, <2>4, SeqRange
<1>5. DOMAIN slist' = DOMAIN slist \cup Range(Computed)
  BY <1>1, Pushing
<1>6. \A t \in T : t.metric \in {"bytes", "pages"}
  BY DEF Sample
<1>7. Tally'
  <2> SUFFICES ASSUME ~overlapped, NEW sub \in Tallied \ hurt
               PROVE  TallyOf(sub, answer[sub], Handled(sub)', valid, slist')
    BY <1>1 DEF Tally
  <2>1. TallyOf(sub, answer[sub], Handled(sub), valid, slist)
    BY <1>1 DEF RowsInv, Tally
  <2>2. \A s \in Range(Computed) : s.metric \notin MetricsOf(sub)
    <3> HIDE DEF T
    <3> QED
      BY <1>4, <1>6 DEF MetricsOf, Tallied
  <2>3. Handled(sub)' = Handled(sub)
    BY <1>1, <1>3
  <2>4. TallyOf(sub, answer[sub], Handled(sub), valid, PushedTo(slist, Computed))
    BY <2>1, <2>2, TallyPast
  <2> QED
    BY <1>1, <2>3, <2>4
<1>8. NoBytesYet'
  BY <1>3 DEF NoBytesYet
<1>9. BytesSane'
  <2> SUFFICES ASSUME NEW a \in DOMAIN slist', a.metric = "bytes", a.label = <<"used">>,
                      NEW b \in DOMAIN slist', b.metric = "bytes", b.label = <<"total">>,
                      "status" \notin hurt
               PROVE  0 <= a.value /\ a.value <= b.value
    BY <1>1 DEF BytesSane, Value
  <2>1. \A s \in DOMAIN slist : s.metric # "bytes"
    BY <1>1 DEF RowsInv, NoBytesYet
  <2>2. a \in T /\ b \in T
    <3> HIDE DEF T
    <3> QED
      BY <1>4, <1>5, <2>1
  <2>3. a.value = used * z
    <3>1. \A t \in T : t.metric = "bytes" /\ t.label = <<"used">> => t.value = used * z
      BY DEF Sample
    <3> HIDE DEF T
    <3> QED
      BY <2>2, <3>1
  <2>4. b.value = P("total") * z
    <3>1. \A t \in T : t.metric = "bytes" /\ t.label = <<"total">> => t.value = P("total") * z
      BY DEF Sample
    <3> HIDE DEF T
    <3> QED
      BY <2>2, <3>1
  <2>5. z \in Nat /\ P("total") \in Nat /\ P("free") \in Nat
    BY DEF RowsInv, MyTypes, Pages
  <2>6. P("free") <= P("total")
    BY <1>1 DEF RowsInv, PagesKept
  <2> DEFINE p == P("total")  q == P("free")
  <2>7. z \in Nat /\ p \in Nat /\ q \in Nat /\ q <= p
    BY <2>5, <2>6
  <2> HIDE DEF z, p, q
  <2>8. 0 <= (p - q) * z /\ (p - q) * z <= p * z
    BY <2>7, Portion
  <2> QED
    BY <2>3, <2>4, <2>8 DEF p, q
<1> QED
  BY <1>3, <1>7, <1>8, <1>9 DEF RowsInv

\* One more row of the status is cached.
LEMMA PagesNext ==
  ASSUME NEW all \in Answers["status"], NEW n \in Nat, n + 1 \in DOMAIN all,
         \A i \in 1..n : i \in DOMAIN all /\ i # n + 1,
         cache \in [Pages \cup {PAGE_SIZE} -> Nat], PagesSeen(all, n, cache)
  PROVE  PagesSeen(all, n + 1, Cached("status", all[n + 1]))
<1> DEFINE row == all[n + 1]  c == Cached("status", row)  v == parseStatus(row).value
<1>1. \A i \in 1..(n + 1) : i \in 1..n \/ i = n + 1
  OBVIOUS
<1>2. n + 1 \in 1..(n + 1) /\ \A i \in 1..n : i \in 1..(n + 1)
  OBVIOUS
<1>3. \A i \in 1..n : all[i].key # row.key
  BY MyServerAssumption
<1>4. c = IF row.key \in DOMAIN cache /\ parseStatus(row).ok THEN [cache EXCEPT ![row.key] = v] ELSE cache
  BY DEF Cached
<1>5. SUFFICES ASSUME NEW k \in Pages
               PROVE  \/ \E i \in 1..(n + 1) : /\ all[i].key = k /\ parseStatus(all[i]).ok
                                               /\ c[k] = parseStatus(all[i]).value
                      \/ /\ c[k] = 0
                         /\ \A i \in 1..(n + 1) : all[i].key = k => ~parseStatus(all[i]).ok
  BY DEF PagesSeen
<1>6. \/ \E i \in 1..n : /\ all[i].key = k /\ parseStatus(all[i]).ok
                         /\ cache[k] = parseStatus(all[i]).value
      \/ cache[k] = 0 /\ \A i \in 1..n : all[i].key = k => ~parseStatus(all[i]).ok
  BY DEF PagesSeen
<1>7. CASE row.key = k /\ parseStatus(row).ok
  <2>1. c[k] = v
    BY <1>4, <1>7
  <2> QED
    BY <1>2, <1>7, <2>1
<1>8. CASE ~(row.key = k /\ parseStatus(row).ok)
  <2>1. c[k] = cache[k]
    BY <1>4, <1>8
  <2> HIDE DEF c, v
  <2> QED
    BY <1>1, <1>2, <1>6, <1>8, <2>1
<1> QED
  BY <1>7, <1>8

\* The server has a result, of which n rows will arrive.
LEMMA QueryStep ==
  ASSUME RowsInv, CanQuery, NEW all \in Answers[Sub], NEW n \in 0..Len(all), Query(all, n)
  PROVE  RowsInv'
<1>1. /\ myPc = "ask" /\ at \in 1..11 /\ Sub = Subs[at] /\ Sub # "compute" /\ Sub \in Range(Subs)
      /\ Sub \in DOMAIN Answers
  BY SubPlaces, MyAssumption DEF CanQuery, Asking, Sub, RowsInv, MyTypes
<1>2. /\ myPc' = "rows" /\ pending' = SubSeq(all, 1, n)
      /\ answer' = [answer EXCEPT ![Sub] = all]
      /\ hurt' = IF n < Len(all) THEN hurt \cup {Sub} ELSE hurt
      /\ UNCHANGED <<at, got, cache, slist, overlapped, valid>>
  BY DEF Query, Fault, insVars
<1>3. Sub' = Sub
  BY <1>2 DEF Sub
<1>4. got = <<>>
  BY <1>1 DEF RowsInv, RowsInTurn
<1>5. /\ all \in Seq(RowsFor(Sub)) /\ Len(all) \in Nat /\ DOMAIN all = 1..Len(all)
      /\ \A i \in 1..Len(all) : all[i] \in RowsFor(Sub)
  <2>1. all \in Seq(Range(all))
    BY <1>1, MyServerAssumption
  <2>2. Len(all) \in Nat /\ DOMAIN all = 1..Len(all)
    BY <2>1, LenProperties
  <2>3. \A i \in 1..Len(all) : all[i] \in RowsFor(Sub)
    <3>1. Range(all) \subseteq RowsFor(Sub)
      BY DEF RowsFor
    <3>2. \A i \in DOMAIN all : all[i] \in Range(all)
      BY DEF Range
    <3> QED
      BY <2>2, <3>1, <3>2
  <2>4. Range(all) \subseteq RowsFor(Sub)
    BY DEF RowsFor
  <2>5. all \in Seq(RowsFor(Sub))
    BY <2>1, <2>4
  <2> QED
    BY <2>2, <2>3, <2>5
<1>6. /\ pending' \in Seq(RowsFor(Sub)) /\ Len(pending') = n
      /\ \A i \in 1..n : pending'[i] = all[i]
  <2>1. \A i \in 1..n : all[i] \in RowsFor(Sub)
    BY <1>5
  <2>2. /\ SubSeq(all, 1, n) \in Seq(RowsFor(Sub))
        /\ Len(SubSeq(all, 1, n)) = (IF 1 <= n THEN n - 1 + 1 ELSE 0)
        /\ \A i \in 1..(n - 1 + 1) : SubSeq(all, 1, n)[i] = all[1 + i - 1]
    BY <1>5, <2>1, SubSeqProperties
  <2> HIDE DEF Sub
  <2> QED
    BY <1>2, <1>5, <2>2
<1>7. /\ answer'[Sub] = all
      /\ \A sub \in Tallied : sub # Sub => answer'[sub] = answer[sub]
  BY <1>1, <1>2, SubPlaces DEF RowsInv, MyTypes
<1>8. MyTypes'
  BY <1>1, <1>2 DEF RowsInv, MyTypes
<1>9. Len(got) = 0 /\ <<>> \in Seq(RowsFor(Sub))
  BY <1>4, EmptySeq
<1>10. RowsInTurn'
  <2>1. Sub \notin hurt' => n = Len(all)
    <3>1. n < Len(all) => Sub \in hurt'
      BY <1>2
    <3>2. n < Len(all) \/ n = Len(all)
      <4>1. Len(all) \in Nat
        BY <1>5
      <4> QED
        BY <4>1
    <3> QED
      BY <3>1, <3>2
  <2>2. got' = <<>> /\ Len(got') = 0
    BY <1>2, <1>4, <1>9
  <2>3. at' <= 11 /\ Sub' # "compute" /\ myPc' = "rows"
    BY <1>1, <1>2, <1>3
  <2>4. got' \in Seq(RowsFor(Sub)) /\ pending' \in Seq(RowsFor(Sub))
    BY <1>6, <1>9, <2>2
  <2>5. ASSUME Sub \notin hurt'
        PROVE  /\ answer'[Sub] \in Answers[Sub] /\ Len(answer'[Sub]) = Len(got') + Len(pending')
               /\ \A i \in 1..Len(pending') : pending'[i] = answer'[Sub][Len(got') + i]
    <3>1. answer'[Sub] = all /\ Len(got') = 0 /\ Len(pending') = Len(all) /\ n = Len(all)
      BY <1>6, <1>7, <2>1, <2>2, <2>5
    <3>2. \A i \in 1..n : pending'[i] = all[0 + i]
      BY <1>6
    <3>3. Len(all) = 0 + Len(all)
      BY <1>5
    <3> HIDE DEF Sub
    <3> QED
      BY <3>1, <3>2, <3>3
  <2> QED
    BY <1>3, <2>3, <2>4, <2>5 DEF RowsInTurn
<1>11. Results'
  BY <1>7 DEF RowsInv, Results
<1>12. NotAsked'
  <2> SUFFICES ASSUME NEW sub \in Tallied, Place(sub) > at
               PROVE  answer'[sub] = <<>>
    BY <1>2 DEF NotAsked
  <2>1. sub # Sub
    BY <1>1, SubPlaces
  <2> QED
    BY <1>1, <1>7, <2>1 DEF RowsInv, NotAsked
<1>13. \A sub \in Tallied : sub = Sub => answer[sub] = <<>>
  BY <1>1, SubPlaces DEF RowsInv, NotAsked
<1>14. ASSUME NEW sub \in Tallied
       PROVE  /\ sub # Sub => Handled(sub)' = Handled(sub)
              /\ sub = Sub => Handled(sub)' = 0 /\ Handled(sub) = 0
  BY <1>1, <1>2, <1>3, <1>7, <1>9, <1>13, EmptySeq DEF Handled
<1>15. Tally'
  <2> SUFFICES ASSUME ~overlapped, NEW sub \in Tallied \ hurt'
               PROVE  TallyOf(sub, answer'[sub], Handled(sub)', valid, slist)
    BY <1>2 DEF Tally
  <2>1. TallyOf(sub, answer[sub], Handled(sub), valid, slist)
    BY <1>1, <1>2 DEF RowsInv, Tally
  <2>2. CASE sub # Sub
    BY <1>7, <1>14, <2>1, <2>2
  <2>3. CASE sub = Sub
    <3>1. TallyOf(sub, answer[sub], 0, valid, slist) /\ Handled(sub)' = 0
      BY <1>14, <2>1, <2>3
    <3>2. TallyOf(sub, answer'[sub], 0, valid, slist)
      BY <3>1 DEF TallyOf
    <3> QED
      BY <3>1, <3>2
  <2> QED
    BY <2>2, <2>3
<1>16. PagesKept'
  <2> SUFFICES ASSUME "status" \notin hurt' PROVE PagesKept'
    BY DEF PagesKept
  <2>1. CASE at # 1
    BY <1>1, <1>2, <2>1 DEF RowsInv, PagesKept
  <2>2. CASE at = 1
    <3>1. Sub = "status"
      BY <1>1, <2>2, SubPlaces DEF Tallied, Place
    <3>2. Handled("status") = 0 /\ Handled("status")' = 0
      BY <1>14, <3>1 DEF Tallied
    <3>3. PagesSeen(answer["status"], 0, cache)
      BY <1>1, <1>2, <2>2, <3>2 DEF RowsInv, PagesKept
    <3>4. PagesSeen(answer'["status"], 0, cache)
      BY <3>3 DEF PagesSeen
    <3> QED
      BY <1>2, <2>2, <3>2, <3>4 DEF PagesKept
  <2> QED
    BY <2>1, <2>2
<1>17. NoBytesYet' /\ BytesSane'
  BY <1>2 DEF RowsInv, NoBytesYet, BytesSane, Value
<1> QED
  BY <1>8, <1>10, <1>11, <1>12, <1>15, <1>16, <1>17 DEF RowsInv

\* The page counts and the page size that a row may put into the cache.
LEMMA CachedType ==
  ASSUME NEW sub \in Range(Subs), NEW row \in RowsFor(sub), cache \in [Pages \cup {PAGE_SIZE} -> Nat]
  PROVE  /\ Cached(sub, row) \in [Pages \cup {PAGE_SIZE} -> Nat]
         /\ sub # "status" => \A k \in Pages : Cached(sub, row)[k] = cache[k]
<1>1. CASE ~(sub \in {"status", "variables"} /\ row.key \in DOMAIN cache /\ parseStatus(row).ok)
  BY <1>1 DEF Cached
<1>2. CASE sub \in {"status", "variables"} /\ row.key \in DOMAIN cache /\ parseStatus(row).ok
  <2> DEFINE k == row.key  v == parseStatus(row).value
  <2>1. Cached(sub, row) = [cache EXCEPT ![k] = v]
    BY <1>2 DEF Cached
  <2>2. PICK all \in Answers[sub] : row \in Range(all)
    BY DEF RowsFor
  <2>3. PICK i \in DOMAIN all : row = all[i]
    BY <2>2 DEF Range
  <2>4. k \in Pages \cup {PAGE_SIZE}
    BY <1>2
  <2>5. v \in Nat
    BY <1>2, <2>3, <2>4, MyServerAssumption
  <2>6. sub # "status" => k \notin Pages
    BY <1>2, <2>3, MyServerAssumption
  <2> HIDE DEF k, v
  <2> QED
    BY <2>1, <2>4, <2>5, <2>6
<1> QED
  BY <1>1, <1>2

\* A row is read.
LEMMA RowStep == ASSUME RowsInv, Row PROVE RowsInv'
<1> DEFINE row == Head(pending)
<1>1. /\ myPc = "rows" /\ at \in 1..11 /\ Sub = Subs[at] /\ Sub \in Range(Subs) /\ Sub # "compute"
      /\ pending # <<>> /\ pending \in Seq(RowsFor(Sub)) /\ got \in Seq(RowsFor(Sub))
  BY SubPlaces DEF Row, Reading, RowsInv, RowsInTurn, MyTypes, Sub
<1>2. /\ slist' = PushedTo(slist, RowSamples(Sub, row)) /\ cache' = Cached(Sub, row)
      /\ got' = Append(got, row) /\ pending' = Tail(pending)
      /\ UNCHANGED <<at, myPc, answer, hurt, overlapped, valid>>
  BY DEF Row, insVars, Push, PushedTo, Times, TimesIn
<1>3. Sub' = Sub
  BY <1>2 DEF Sub
<1>4. /\ row \in RowsFor(Sub) /\ Len(got) \in Nat /\ Len(pending) \in Nat \ {0}
      /\ Tail(pending) \in Seq(RowsFor(Sub)) /\ Len(Tail(pending)) = Len(pending) - 1
      /\ \A i \in 1..Len(Tail(pending)) : Tail(pending)[i] = pending[i + 1]
      /\ row = pending[1]
  BY <1>1, HeadTailProperties, LenProperties, EmptySeq
<1>5. got' \in Seq(RowsFor(Sub)) /\ Len(got') = Len(got) + 1
  BY <1>1, <1>2, <1>4, AppendProperties
<1> HIDE DEF row
<1>6. MyTypes'
  BY <1>1, <1>2, <1>4, CachedType DEF RowsInv, MyTypes
<1>7. /\ Sub \notin hurt =>
           /\ answer[Sub] \in Answers[Sub] /\ row = answer[Sub][Len(got) + 1]
           /\ Len(answer[Sub]) = Len(got) + Len(pending)
           /\ Len(got) + 1 <= Len(answer[Sub])
           /\ \A i \in 1..Len(pending) : pending[i] = answer[Sub][Len(got) + i]
  BY <1>1, <1>4 DEF RowsInv, RowsInTurn
<1>8. RowsInTurn'
  <2>1. ASSUME Sub \notin hurt
        PROVE  /\ Len(answer[Sub]) = Len(got') + Len(pending')
               /\ \A i \in 1..Len(pending') : pending'[i] = answer[Sub][Len(got') + i]
    <3>1. Len(answer[Sub]) = Len(got') + Len(pending')
      <4> DEFINE a == Len(answer[Sub])  g == Len(got)  p == Len(pending)
      <4>1. g \in Nat /\ p \in Nat /\ a = g + p
        BY <1>4, <1>7, <2>1
      <4>2. Len(got') = g + 1 /\ Len(pending') = p - 1
        BY <1>2, <1>4, <1>5
      <4> HIDE DEF a, g, p
      <4>3. a = Len(got') + Len(pending')
        BY <4>1, <4>2
      <4> QED
        BY <4>3 DEF a
    <3>2. ASSUME NEW i \in 1..Len(pending') PROVE pending'[i] = answer[Sub][Len(got') + i]
      <4>1. pending'[i] = pending[i + 1] /\ i + 1 \in 1..Len(pending)
        BY <1>2, <1>4, <3>2
      <4>2. pending[i + 1] = answer[Sub][Len(got) + (i + 1)]
        BY <1>7, <2>1, <4>1
      <4>3. Len(got) + (i + 1) = Len(got') + i
        BY <1>4, <1>5
      <4> QED
        BY <4>1, <4>2, <4>3
    <3> QED
      BY <3>1, <3>2
  <2> QED
    BY <1>1, <1>2, <1>3, <1>4, <1>5, <1>7, <2>1 DEF RowsInTurn
<1>9. NotAsked' /\ Results'
  BY <1>2 DEF RowsInv, NotAsked, Results
<1>10. ASSUME NEW sub \in Tallied
       PROVE  /\ sub # Sub => Handled(sub)' = Handled(sub)
              /\ sub = Sub => Handled(sub)' = Len(got) + 1 /\ Handled(sub) = Len(got)
  BY <1>1, <1>2, <1>3, <1>5 DEF Handled
<1>11. ASSUME Sub \notin hurt
       PROVE  answer[Sub] \in Seq(Range(answer[Sub])) /\ DOMAIN answer[Sub] = 1..Len(answer[Sub])
  <2>1. Sub \in DOMAIN Answers
    BY <1>1, MyAssumption
  <2> QED
    BY <1>7, <1>11, <2>1, MyServerAssumption, LenProperties
<1>12. Tally'
  <2> SUFFICES ASSUME ~overlapped, NEW sub \in Tallied \ hurt
               PROVE  TallyOf(sub, answer[sub], Handled(sub)', valid, slist')
    BY <1>2 DEF Tally
  <2>1. TallyOf(sub, answer[sub], Handled(sub), valid, slist)
    BY <1>1 DEF RowsInv, Tally
  <2>2. CASE sub # Sub
    <3>1. \A s \in Range(RowSamples(Sub, row)) : s.metric \notin MetricsOf(sub)
      <4>1. CASE Sub \in Tallied
        <5>1. \A s \in Range(RowSamples(Sub, row)) : s.metric \in MetricsOf(Sub)
          BY <1>4, <4>1, RowGives, GivenMetrics
        <5> QED
          BY <2>2, <4>1, <5>1 DEF MetricsOf, Tallied
      <4>2. CASE Sub \notin Tallied
        BY <1>1, <4>2, OtherRows DEF MetricsOf, Own, Tallied
      <4> QED
        BY <4>1, <4>2
    <3>2. TallyOf(sub, answer[sub], Handled(sub), valid, PushedTo(slist, RowSamples(Sub, row)))
      BY <2>1, <3>1, TallyPast
    <3> QED
      BY <1>2, <1>10, <2>2, <3>2
  <2>3. CASE sub = Sub
    <3> DEFINE all == answer[sub]  n == Len(got)  f == RowSamples(sub, row)
    <3>1. /\ all \in Answers[sub] /\ n \in Nat /\ row = all[n + 1]
          /\ n + 1 \in DOMAIN all /\ \A i \in 1..n : i \in DOMAIN all /\ i # n + 1
      BY <1>4, <1>7, <1>11, <2>3
    <3>2. TallyOf(sub, all, n, valid, slist)
      BY <1>10, <2>1, <2>3
    <3>3. Range(f) = Gives(sub, row, valid) /\ \A i, j \in DOMAIN f : f[i] = f[j] => i = j
      BY <1>4, <2>3, RowGives
    <3>4. \A i \in 1..n : Gives(sub, all[i], valid) \cap Gives(sub, all[n + 1], valid) = {}
      BY <3>1, GivenOnce
    <3>5. \A s \in Gives(sub, all[n + 1], valid) : s.metric \in MetricsOf(sub)
      BY GivenMetrics
    <3>6. slist' = PushedTo(slist, f) /\ Handled(sub)' = n + 1
      BY <1>2, <1>10, <2>3
    <3> HIDE DEF all, n, f
    <3>7. TallyOf(sub, all, n + 1, valid, PushedTo(slist, f))
      BY <3>1, <3>2, <3>3, <3>4, <3>5, TallyRow
    <3> QED
      BY <3>6, <3>7 DEF all
  <2> QED
    BY <2>2, <2>3
<1>13. NoBytesYet' /\ BytesSane'
  <2>1. \A s \in Range(RowSamples(Sub, row)) : s.metric # "bytes"
    <3>1. CASE Sub \in Tallied
      <4>1. \A s \in Range(RowSamples(Sub, row)) : s.metric \in MetricsOf(Sub)
        BY <1>4, <3>1, RowGives, GivenMetrics
      <4> QED
        BY <3>1, <4>1 DEF MetricsOf, Tallied
    <3>2. CASE Sub \notin Tallied
      BY <1>1, <3>2, OtherRows DEF Own
    <3> QED
      BY <3>1, <3>2
  <2>2. \A s \in DOMAIN slist' : s \in DOMAIN slist \/ s.metric # "bytes"
    BY <1>2, <2>1, Pushing
  <2> QED
    BY <1>2, <2>2 DEF RowsInv, NoBytesYet, BytesSane, Value
<1>14. PagesKept'
  <2> SUFFICES ASSUME "status" \notin hurt PROVE PagesKept'
    BY <1>2 DEF PagesKept
  <2>1. CASE at # 1
    <3>1. Sub # "status"
      BY <1>1, <2>1, SubPlaces DEF Tallied, Place
    <3>2. \A k \in Pages : cache'[k] = cache[k]
      BY <1>1, <1>2, <1>4, <3>1, CachedType DEF RowsInv, MyTypes
    <3> QED
      BY <1>1, <1>2, <2>1, <3>2 DEF RowsInv, PagesKept, Pages
  <2>2. CASE at = 1
    <3> DEFINE all == answer["status"]  n == Len(got)
    <3>1. Sub = "status" /\ "status" \in Tallied
      BY <1>1, <2>2, SubPlaces DEF Tallied, Place
    <3>2. PagesSeen(all, n, cache) /\ Handled("status")' = n + 1 /\ n \in Nat
      BY <1>1, <1>4, <1>10, <2>2, <3>1 DEF RowsInv, PagesKept
    <3>3. /\ all \in Answers["status"] /\ row = all[n + 1] /\ n + 1 \in DOMAIN all
          /\ \A i \in 1..n : i \in DOMAIN all /\ i # n + 1
      BY <1>4, <1>7, <1>11, <3>1
    <3>4. cache \in [Pages \cup {PAGE_SIZE} -> Nat] /\ cache' = Cached("status", all[n + 1])
      BY <1>2, <3>1, <3>3 DEF RowsInv, MyTypes
    <3>5. PagesSeen(all, n + 1, cache')
      BY <3>2, <3>3, <3>4, PagesNext
    <3> QED
      BY <1>2, <2>2, <3>2, <3>5 DEF PagesKept
  <2> QED
    BY <2>1, <2>2
<1> QED
  BY <1>6, <1>8, <1>9, <1>12, <1>13, <1>14 DEF RowsInv

\* A row is lost, and for some sub-gathers the rest of the result with it.
LEMMA ScanErrorStep == ASSUME RowsInv, ScanError PROVE RowsInv'
<1>1. /\ myPc = "rows" /\ at \in 1..11 /\ pending # <<>>
      /\ pending \in Seq(RowsFor(Sub)) /\ got \in Seq(RowsFor(Sub))
  BY DEF ScanError, Reading, RowsInv, RowsInTurn, MyTypes
<1>2. hurt' = hurt \cup {Sub} /\ UNCHANGED <<valid, cache, slist, answer, overlapped>>
  BY DEF ScanError, Fault, insVars
<1>3. \A sub \in Tallied \ hurt' : Handled(sub) = Len(answer[sub])
  BY <1>2 DEF Handled
<1>4. /\ MyTypes' /\ RowsInTurn' /\ NotAsked' /\ Results' /\ PagesKept'
      /\ at' \in Nat /\ at' >= at
      /\ \A sub \in Tallied \ hurt' : Handled(sub)' = Handled(sub)
  <2>1. CASE Sub \in Tolerant
    <3>1. pending' = Tail(pending) /\ UNCHANGED <<at, myPc, got>>
      BY <2>1 DEF ScanError
    <3>2. Sub' = Sub
      BY <3>1 DEF Sub
    <3>3. Tail(pending) \in Seq(RowsFor(Sub))
      BY <1>1, HeadTailProperties
    <3>4. MyTypes' /\ NotAsked' /\ Results'
      BY <1>2, <3>1 DEF RowsInv, MyTypes, NotAsked, Results
    <3>5. RowsInTurn'
      BY <1>1, <1>2, <3>1, <3>2, <3>3 DEF RowsInv, RowsInTurn
    <3>6. \A sub \in Tallied \ hurt' : Handled(sub)' = Handled(sub)
      BY <1>2, <3>1, <3>2 DEF Handled
    <3>7. PagesKept'
      <4> SUFFICES ASSUME "status" \notin hurt' PROVE PagesKept'
        BY DEF PagesKept
      <4>1. at # 1
        BY <1>1, <1>2, SubPlaces DEF Sub, Tallied, Place
      <4> QED
        BY <1>1, <1>2, <3>1, <4>1 DEF RowsInv, PagesKept
    <3> QED
      BY <1>1, <3>1, <3>4, <3>5, <3>6, <3>7
  <2>2. CASE Sub \notin Tolerant
    <3>1. NextSub
      BY <2>2 DEF ScanError
    <3> QED
      BY <1>1, <1>2, <1>3, <3>1, LeaveSub
  <2> QED
    BY <2>1, <2>2
<1>5. Tally' /\ NoBytesYet' /\ BytesSane'
  BY <1>1, <1>2, <1>4, SameAside, AsideStep
<1> QED
  BY <1>4, <1>5 DEF RowsInv

\* The process ends.
LEMMA MapRaceStep == ASSUME RowsInv, MapRace PROVE RowsInv'
<1>1. myPc' = "crashed" /\ UNCHANGED <<at, cache, slist, answer, hurt>>
  BY DEF MapRace, rowVars
<1>2. MyTypes' /\ RowsInTurn' /\ NotAsked' /\ Results' /\ Tally' /\ PagesKept'
  BY <1>1 DEF RowsInv, MyTypes, RowsInTurn, NotAsked, Results, Tally, PagesKept
<1>3. NoBytesYet' /\ BytesSane'
  BY <1>1 DEF RowsInv, NoBytesYet, BytesSane, Value
<1> QED
  BY <1>2, <1>3 DEF RowsInv

\* Gather begins, pings and ends.
LEMMA EndsStep ==
  ASSUME RowsInv, BeginMysqlGather \/ EndMysqlGather \/ \E up \in 0..1 : Ping(up)
  PROVE  RowsInv'
<1>1. UNCHANGED <<valid, at, cache, got, pending, answer, hurt>>
  BY DEF BeginMysqlGather, EndMysqlGather, Ping, insVars, rowVars
<1>2. /\ myPc \in {"out", "connect", "ask"} /\ myPc' \in {"connect", "ask", "done"}
      /\ myPc' = "connect" => myPc = "out" /\ UNCHANGED slist
  BY DEF BeginMysqlGather, EndMysqlGather, Ping
<1>3. MyTypes' /\ RowsInTurn' /\ NotAsked' /\ Results'
  BY <1>1, <1>2 DEF RowsInv, MyTypes, RowsInTurn, NotAsked, Results
<1>4. \A sub \in Tallied : Handled(sub)' = Handled(sub)
  BY <1>1, <1>2 DEF Handled
<1>5. PagesKept'
  BY <1>1, <1>2, <1>4 DEF RowsInv, PagesKept, Tallied
<1>6. Tally' /\ NoBytesYet' /\ BytesSane'
  <2>1. CASE BeginMysqlGather
    <3>1. DOMAIN slist = {} /\ UNCHANGED slist
      BY <2>1 DEF RowsInv, MyTypes, BeginMysqlGather
    <3>2. ASSUME NEW sub \in Tallied PROVE answer[sub] = <<>> /\ Handled(sub) = 0
      <4>1. answer[sub] = <<>>
        BY <2>1, SubPlaces DEF RowsInv, MyTypes, NotAsked, BeginMysqlGather
      <4> QED
        BY <1>2, <4>1, EmptySeq DEF Handled
    <3>3. Tally'
      BY <1>4, <3>1, <3>2 DEF Tally, TallyOf
    <3> QED
      BY <3>1, <3>3 DEF NoBytesYet, BytesSane, Value
  <2>2. CASE EndMysqlGather \/ \E up \in 0..1 : Ping(up)
    <3>1. AsideOf(slist, slist')
      <4>1. CASE EndMysqlGather
        <5> DEFINE x == Sample("scrape_use_seconds", <<>>, 0)
        <5>1. slist' = PushedTo(slist, <<x>>)
          BY <4>1 DEF EndMysqlGather, Push, PushedTo, Times, TimesIn
        <5>2. x.metric \notin Own
          BY DEF Sample, Own
        <5> HIDE DEF x
        <5>3. \A s \in Range(<<x>>) : s = x
          BY DEF Range
        <5> QED
          BY <5>1, <5>2, <5>3, PushAside
      <4>2. CASE \E up \in 0..1 : Ping(up)
        <5>1. PICK up \in 0..1 : Ping(up)
          BY <4>2
        <5> DEFINE x == Sample("up", <<>>, up)
                   y == Sample("scrape_use_seconds", <<>>, 0)
                   w == When(up = 0, y)
        <5>2. slist' = PushedTo(slist, <<x>> \o w)
          <6>1. Push(<<x>> \o w)
            BY <5>1 DEF Ping
          <6> DEFINE f == <<x>> \o w
          <6>2. Push(f)
            BY <6>1
          <6> HIDE DEF f
          <6>3. slist' = PushedTo(slist, f)
            BY <6>2 DEF Push, PushedTo, Times, TimesIn
          <6> QED
            BY <6>3 DEF f
        <5>3. x.metric \notin Own /\ y.metric \notin Own
          BY DEF Sample, Own
        <5>4. w \in Seq({x, y})
          BY WhenSeq
        <5> HIDE DEF x, y, w
        <5>5. <<x>> \in Seq({x, y})
          OBVIOUS
        <5>6. <<x>> \o w \in Seq({x, y})
          BY <5>4, <5>5, ConcatProperties
        <5>7. Range(<<x>> \o w) \subseteq {x, y}
          BY <5>6, SeqRange
        <5> QED
          BY <5>2, <5>3, <5>7, PushAside
      <4> QED
        BY <2>2, <4>1, <4>2
    <3>2. UNCHANGED overlapped
      BY <2>2 DEF EndMysqlGather, Ping
    <3>3. at \in Nat
      BY DEF RowsInv, MyTypes
    <3> QED
      BY <1>1, <1>2, <1>4, <3>1, <3>2, <3>3, AsideStep
  <2> QED
    BY <2>1, <2>2
<1> QED
  BY <1>3, <1>5, <1>6 DEF RowsInv

\* Init of another Monitor: before Gather nothing is counted, and during it
\* overlapped says so.
LEMMA InstanceStep == ASSUME MyInv, RowsInv, MyInstance PROVE RowsInv'
<1>1. UNCHANGED <<at, myPc, cache, got, pending, slist, answer, hurt>>
  BY DEF MyInstance, FillMap, InitRefusedAfterFlags, InitMakesMap, InitFlags, rowVars
<1>2. overlapped' \/ myPc = "out"
  <2>1. CASE FillMap
    BY <2>1 DEF FillMap, MyInv, FillingSeen
  <2>2. CASE ~FillMap
    BY <2>2 DEF MyInstance, InitRefusedAfterFlags, InitMakesMap, InitFlags
  <2> QED
    BY <2>1, <2>2
<1>3. MyTypes' /\ RowsInTurn' /\ NotAsked' /\ Results' /\ PagesKept' /\ NoBytesYet' /\ BytesSane'
  <2>1. Sub' = Sub
    BY <1>1 DEF Sub
  <2>2. \A sub : Handled(sub)' = Handled(sub)
    BY <1>1, <2>1 DEF Handled
  <2>3. MyTypes' /\ RowsInTurn' /\ NotAsked' /\ Results'
    BY <1>1, <2>1 DEF RowsInv, MyTypes, RowsInTurn, NotAsked, Results
  <2> QED
    BY <1>1, <2>2, <2>3 DEF RowsInv, PagesKept, NoBytesYet, BytesSane, Value
<1>4. Tally'
  <2> SUFFICES ASSUME ~overlapped' PROVE Tally'
    BY DEF Tally
  <2>1. myPc = "out" /\ myPc' = "out" /\ DOMAIN slist' = {}
    BY <1>1, <1>2 DEF RowsInv, MyTypes
  <2>2. ASSUME NEW sub \in Tallied PROVE Handled(sub)' = 0
    <3>1. answer'[sub] = <<>>
      BY <1>1, <2>1, SubPlaces DEF RowsInv, MyTypes, NotAsked
    <3> QED
      BY <2>1, <3>1, EmptySeq DEF Handled
  <2> QED
    BY <2>1, <2>2 DEF Tally, TallyOf
<1> QED
  BY <1>3, <1>4 DEF RowsInv

LEMMA MyIdleStep == ASSUME RowsInv, UNCHANGED myVars PROVE RowsInv'
<1>1. UNCHANGED <<at, myPc, cache, got, pending, slist, answer, hurt, overlapped, valid>>
  BY DEF myVars, insVars, rowVars
<1>2. Sub' = Sub
  BY <1>1 DEF Sub
<1>3. \A sub : Handled(sub)' = Handled(sub)
  BY <1>1, <1>2 DEF Handled
<1>4. MyTypes' /\ RowsInTurn' /\ NotAsked' /\ Results'
  BY <1>1, <1>2 DEF RowsInv, MyTypes, RowsInTurn, NotAsked, Results
<1>5. Tally' /\ PagesKept'
  BY <1>1, <1>3 DEF RowsInv, Tally, PagesKept
<1>6. NoBytesYet' /\ BytesSane'
  BY <1>1 DEF RowsInv, NoBytesYet, BytesSane, Value
<1> QED
  BY <1>4, <1>5, <1>6 DEF RowsInv

LEMMA RowsStep == ASSUME MyInv, RowsInv, [MyNext]_myVars PROVE RowsInv'
<1>1. CASE UNCHANGED myVars
  BY <1>1, MyIdleStep
<1>2. CASE BeginMysqlGather
  BY <1>2, EndsStep
<1>3. CASE MyInstance
  BY <1>3, InstanceStep
<1>4. CASE MyGatherStep
  <2>1. CASE (\E up \in 0..1 : Ping(up)) \/ EndMysqlGather
    BY <2>1, EndsStep
  <2>2. CASE Skip \/ LogBinOff \/ QueryError
    BY <2>2, SkipStep
  <2>3. CASE Compute \/ TryNext
    BY <2>3, ComputeStep, TryStep
  <2>4. CASE CanQuery /\ \E all \in Answers[Sub] : \E n \in 0..Len(all) : Query(all, n)
    BY <2>4, QueryStep
  <2>5. CASE Row \/ MapRace
    BY <2>5, RowStep, MapRaceStep
  <2>6. CASE ScanError \/ RowsDone
    BY <2>6, ScanErrorStep, RowsDoneStep
  <2> QED
    BY <1>4, <2>1, <2>2, <2>3, <2>4, <2>5, <2>6 DEF MyGatherStep
<1> QED
  BY <1>1, <1>2, <1>3, <1>4 DEF MyNext

LEMMA RowsInitInv == MyInit => RowsInv
<1> SUFFICES ASSUME MyInit PROVE RowsInv
  OBVIOUS
<1>1. /\ at = 1 /\ myPc = "out" /\ got = <<>> /\ pending = <<>> /\ slist = <<>>
      /\ cache = [k \in Pages \cup {PAGE_SIZE} |-> 0] /\ answer = [s \in Range(Subs) |-> <<>>]
  BY DEF MyInit
<1>2. DOMAIN slist = {}
  BY <1>1
<1>3. \A sub \in Tallied : answer[sub] = <<>> /\ Handled(sub) = 0
  BY <1>1, SubPlaces, EmptySeq DEF Handled
<1>4. MyTypes /\ RowsInTurn /\ NotAsked /\ Results
  BY <1>1, <1>2, <1>3 DEF MyTypes, RowsInTurn, NotAsked, Results
<1>5. Tally
  BY <1>2, <1>3 DEF Tally, TallyOf
<1>6. PagesKept
  BY <1>1, <1>3 DEF PagesKept, PagesSeen, Tallied
<1>7. NoBytesYet /\ BytesSane
  BY <1>2 DEF NoBytesYet, BytesSane, Value
<1> QED
  BY <1>4, <1>5, <1>6, <1>7 DEF RowsInv

\* When Gather is done every result is handled, or there was none.
LEMMA RowsDoneAll == MyInv /\ RowsInv => NothingLostAlone
<1> SUFFICES ASSUME MyInv, RowsInv PROVE NothingLostAlone
  OBVIOUS
<1>1. myPc = "crashed" => overlapped
  BY DEF MyInv, CrashOverlapped
<1>2. ASSUME myPc = "done", ~overlapped, NEW sub \in Tallied \ hurt,
             NEW i \in DOMAIN answer[sub], NEW s \in Gives(sub, answer[sub][i], valid)
      PROVE  Times(s) = 1
  <2>1. TallyOf(sub, answer[sub], Len(answer[sub]), valid, slist)
    BY <1>2 DEF RowsInv, Tally, Handled
  <2>2. i \in 1..Len(answer[sub])
    <3>1. answer[sub] = <<>> \/ answer[sub] \in Answers[sub]
      BY DEF RowsInv, Results
    <3>2. sub \in DOMAIN Answers
      BY MyAssumption, SubPlaces DEF Tallied
    <3>3. answer[sub] \in Answers[sub] => answer[sub] \in Seq(Range(answer[sub]))
      BY <3>2, MyServerAssumption
    <3>4. answer[sub] = <<>> => DOMAIN answer[sub] = {}
      OBVIOUS
    <3> QED
      BY <1>2, <3>1, <3>3, <3>4, LenProperties
  <2>3. TimesIn(slist, s) = 1
    BY <1>2, <2>1, <2>2 DEF TallyOf
  <2> QED
    BY <2>3 DEF TimesIn, Times
<1>3. ASSUME myPc = "done", ~overlapped, NEW sub \in {"status", "variables"} \ hurt,
             NEW i \in DOMAIN answer[sub], Counted(sub, answer[sub][i], valid)
      PROVE  Times(CellSample(sub, answer[sub][i])) = 1
  <2>1. CellSample(sub, answer[sub][i]) \in Gives(sub, answer[sub][i], valid)
    BY <1>3 DEF Gives
  <2> QED
    BY <1>2, <1>3, <2>1 DEF Tallied
<1>4. ASSUME myPc = "done", ~overlapped, "slave" \notin hurt, NEW i \in DOMAIN answer["slave"],
             NEW c \in SlaveCounted(answer["slave"][i], valid)
      PROVE  Times(slaveSample(answer["slave"][i], answer["slave"][i].cols[c])) = 1
  <2>1. slaveSample(answer["slave"][i], answer["slave"][i].cols[c])
          \in Gives("slave", answer["slave"][i], valid)
    BY DEF Gives
  <2> QED
    BY <1>2, <1>4, <2>1 DEF Tallied
<1> QED
  BY <1>1, <1>3, <1>4 DEF NothingLostAlone

(***************************************************************************)
(* mysql and postgresql, as the factory runs them.                          *)
(***************************************************************************)

LEMMA AlwaysPgInv == BlockingSpec => []PgInv
<1>1. BlockingInit => PgInv
  BY PgInitInv DEF BlockingInit
<1>2. PgInv /\ [BlockingNext]_blockingVars => PgInv'
  BY PgStep, OneModelMoves
<1> QED
  BY <1>1, <1>2, PTL DEF BlockingSpec

\* A postgresql Gather that met no other leaves its pool closed and no
\* connection of it held, not even by Gathers that begin later.
THEOREM AloneLeavesNoPool == BlockingSpec => []NoPoolLeftAlone
<1>1. ASSUME PgInv PROVE NoPoolLeftAlone
  <2> SUFFICES ASSUME NEW p \in DOMAIN pools, pc[pools[p].by] = "done", met[pools[p].by] = {}
               PROVE  pools[p].closed /\ pools[p].busy = {}
    BY DEF NoPoolLeftAlone
  <2> DEFINE g == pools[p].by
  <2>1. pools[p] \in PoolRecord /\ DOMAIN pools \subseteq Nat
    BY <1>1, ElementOfSeq, LenProperties DEF PgInv, PgTypes
  <2>2. g \in Gathers /\ pools[p].busy \subseteq Gathers
    BY <2>1 DEF PoolRecord
  <2>3. pools[p].closed
    BY <1>1, <2>2 DEF PgInv, AloneHas, OnePoolEach
  <2>4. ASSUME NEW h \in pools[p].busy PROVE FALSE
    <3>1. pc[h] \in {"rows1", "rows2"} /\ pool[h] = p
      BY <1>1, <2>2 DEF PgInv, HoldsOwn
    <3>2. PICK q \in DOMAIN pools : pools[q].by = h /\ q <= p
      BY <1>1, <2>2, <3>1 DEF PgInv, HoldsOwn, Asked
    <3>3. q < p
      BY <2>1, <3>1, <3>2
    <3> QED
      BY <1>1, <3>1, <3>2, <3>3 DEF PgInv, LaterMet, Opened
  <2> QED
    BY <2>3, <2>4
<1> QED
  BY <1>1, AlwaysPgInv, PTL

\* A postgresql Gather that met no other takes all its samples from one server,
\* whatever Init does to the configuration, and finds its pool open.
THEOREM AloneAsksOneServer == BlockingSpec => []OneServerAlone
<1>1. ASSUME PgInv PROVE OneServerAlone
  BY <1>1 DEF PgInv, AloneHas, OneServerAlone, Asked, Opened
<1> QED
  BY <1>1, AlwaysPgInv, PTL

LEMMA AlwaysMyInv == BlockingSpec => [](MyInv /\ RowsInv)
<1>1. BlockingInit => MyInv /\ RowsInv
  <2>1. MyInit => MyInv
    BY DEF MyInit, MyInv, ConnectionFree, FillingSeen, CrashOverlapped
  <2> QED
    BY <2>1, RowsInitInv DEF BlockingInit
<1>2. MyInv /\ RowsInv /\ [BlockingNext]_blockingVars => MyInv' /\ RowsInv'
  BY MyStep, RowsStep, OneModelMoves
<1> QED
  BY <1>1, <1>2, PTL DEF BlockingSpec

\* No mysql Gather waits for a connection that its own rows keep: when a
\* sub-gather asks, whatever happened to those before it, the connection is
\* free.
THEOREM ConnectionIsFree == BlockingSpec => []ConnectionFree
<1>1. MyInv => ConnectionFree
  BY DEF MyInv
<1> QED
  BY <1>1, AlwaysMyInv, PTL

\* The buffer pool bytes that a mysql Gather computes from the cached pages are
\* between 0 and the total, for every result a server may have, unless a row of
\* the status was lost.
THEOREM BytesAreSane == BlockingSpec => []BytesSane
<1>1. RowsInv => BytesSane
  BY DEF RowsInv
<1> QED
  BY <1>1, AlwaysMyInv, PTL

\* A mysql Gather that no Init overlapped does not crash on validMetrics, and
\* every status, variable and replication cell with a valid name is in the
\* list once, whatever the sub-gathers before it met.
THEOREM NothingLost == BlockingSpec => []NothingLostAlone
BY AlwaysMyInv, RowsDoneAll, PTL
===============================================================================
