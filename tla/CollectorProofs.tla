---------------------------- MODULE CollectorProofs ----------------------------
(***************************************************************************)
(* Proofs about Collector for any number of Monitors of a model, any of     *)
(* whose Inits may fail, and any number of runs that share the Instance and *)
(* the list: every sample is sent at most once, only failed runs leave      *)
(* samples in the list, and data comes from a target that Init accepted.    *)
(***************************************************************************)
EXTENDS Collector, SequenceTheorems, TLAPS

-------------------------------------------------------------------------------
(***************************************************************************)
(* The inductive invariant.                                                 *)
(***************************************************************************)
Places == Monitors \cup {NoAddress}
Usable == Monitors \ (BadMonitors \cup Unparsed)
Kinds == {"up", "down", "data", "scrape"}
Samples == [by : Monitors, run : Nat, kind : Kinds, label : Places, at : Places]
Steps == {"idle", "open", "data", "scrape", "process", "forward"}
Runs == [step : Steps, run : Nat, label : Places, at : Places, ok : BOOLEAN,
         hold : Seq(Samples)]
Writes == [sample : Samples, labels : Monitors]

ColTypes ==
  /\ address \in Places
  /\ target \in Places \ BadMonitors
  /\ initing \subseteq Monitors
  /\ inits \in Nat
  /\ started \subseteq Monitors
  /\ list \in Seq(Samples)
  /\ tick \in [Monitors -> Runs]
  /\ ticks \in Nat
  /\ sent \in Seq(Writes)

InList == {list[i] : i \in DOMAIN list}
Held(m) == {tick[m].hold[i] : i \in DOMAIN tick[m].hold}

\* No sample is twice in the list, in what a run holds or in what was sent ...
Distinct ==
  /\ \A i, j \in DOMAIN list : list[i] = list[j] => i = j
  /\ \A m \in Monitors : \A i, j \in DOMAIN tick[m].hold :
       tick[m].hold[i] = tick[m].hold[j] => i = j
  /\ \A i, j \in DOMAIN sent : sent[i].sample = sent[j].sample => i = j

\* ... or in two of these places.
Apart ==
  /\ InList \cap Gone = {}
  /\ \A m \in Monitors : Held(m) \cap InList = {} /\ Held(m) \cap Gone = {}
  /\ \A m, n \in Monitors : m # n => Held(m) \cap Held(n) = {}

\* Runs have numbers of their own, and a run has not yet pushed what it is going
\* to push: this tells a new sample from all the others.
Unpushed(t, s) ==
  s.run = t.run => /\ t.step # "open"
                   /\ t.step = "data" => s.kind = "up"
                   /\ t.step = "scrape" => s.kind # "scrape"

Numbered ==
  /\ \A m \in Monitors : tick[m].run <= ticks
  /\ \A m, n \in Monitors :
       m # n /\ tick[m].step # "idle" /\ tick[n].step # "idle"
         => tick[m].run # tick[n].run
  /\ \A s \in Pending \cup Gone :
       s.run <= ticks /\ \A m \in Monitors : Unpushed(tick[m], s)

\* A sample of a run that reached its target is in the list only while that run
\* is still before its Process.
LeftByRun ==
  /\ \A s \in InList :
       s.kind \in {"up", "data"} =>
         /\ tick[s.by].run = s.run
         /\ tick[s.by].step \in {"data", "scrape", "process"}
         /\ tick[s.by].ok
  /\ \A m \in Monitors : tick[m].step = "data" => tick[m].ok

\* A loop exists only after an Init that set the target, and a run that got past
\* its ping did so at a target that parses.
Reached ==
  /\ started # {} => target # NoAddress
  /\ \A m \in Monitors : tick[m].step # "idle" => target # NoAddress
  /\ \A m \in Monitors : tick[m].step = "data" => tick[m].at \in Usable
  /\ \A s \in Pending \cup Gone : s.kind \in {"up", "data"} => s.at \in Usable

ColInv == ColTypes /\ Distinct /\ Apart /\ Numbered /\ LeftByRun /\ Reached

-------------------------------------------------------------------------------
LEMMA RunFields ==
  ASSUME ColTypes, NEW m \in Monitors
  PROVE  /\ tick[m] \in Runs
         /\ tick[m].step \in Steps
         /\ tick[m].run \in Nat
         /\ tick[m].label \in Places
         /\ tick[m].at \in Places
         /\ tick[m].ok \in BOOLEAN
         /\ tick[m].hold \in Seq(Samples)
<1>1. tick[m] \in Runs
  BY DEF ColTypes
<1> QED
  BY <1>1 DEF Runs

LEMMA SampleFields ==
  ASSUME NEW s \in Samples
  PROVE  /\ s.by \in Monitors
         /\ s.run \in Nat
         /\ s.kind \in Kinds
         /\ s.at \in Places
BY DEF Samples

\* Everything that is pushed or sent is a sample.
LEMMA AreSamples ==
  ASSUME ColTypes
  PROVE  /\ InList \subseteq Samples
         /\ \A m \in Monitors : Held(m) \subseteq Samples
         /\ Gone \subseteq Samples
         /\ Pending = InList \cup UNION {Held(m) : m \in Monitors}
<1>1. InList \subseteq Samples
  BY DEF ColTypes, InList
<1>2. ASSUME NEW m \in Monitors PROVE Held(m) \subseteq Samples
  BY <1>2, RunFields DEF Held
<1>3. Gone \subseteq Samples
  <2>1. \A i \in DOMAIN sent : sent[i] \in Writes
    BY DEF ColTypes
  <2>2. \A i \in DOMAIN sent : sent[i].sample \in Samples
    BY <2>1 DEF Writes
  <2> QED
    BY <2>2 DEF Gone
<1>4. Pending = InList \cup UNION {Held(m) : m \in Monitors}
  BY DEF Pending, InList, Held
<1> QED
  BY <1>1, <1>2, <1>3, <1>4

\* A step of a run that pushes nothing and holds what it held.
LEMMA Moves ==
  ASSUME ColInv, NEW m \in Monitors, NEW t \in Runs,
         tick' = [tick EXCEPT ![m] = t],
         list' = list, sent' = sent,
         t.hold = tick[m].hold
  PROVE  /\ InList' = InList
         /\ Gone' = Gone
         /\ \A n \in Monitors : Held(n)' = Held(n)
         /\ (Pending \cup Gone)' = Pending \cup Gone
         /\ \A n \in Monitors : tick'[n] = IF n = m THEN t ELSE tick[n]
         /\ Distinct' /\ Apart'
<1>1. \A n \in Monitors : tick'[n] = IF n = m THEN t ELSE tick[n]
  BY DEF ColInv, ColTypes
<1>2. InList' = InList /\ Gone' = Gone
  BY DEF InList, Gone
<1>3. \A n \in Monitors : tick'[n].hold = tick[n].hold
  BY <1>1
<1>4. \A n \in Monitors : Held(n)' = Held(n)
  BY <1>3 DEF Held
<1>5. Pending' = Pending
  BY <1>3 DEF Pending
<1>6. Distinct'
  BY <1>3 DEF ColInv, Distinct
<1>7. Apart'
  BY <1>2, <1>4 DEF ColInv, Apart
<1> QED
  BY <1>1, <1>2, <1>4, <1>5, <1>6, <1>7

\* A run pushes a sample that is not there yet.
LEMMA Pushes ==
  ASSUME ColInv, NEW m \in Monitors, NEW t \in Runs, NEW s \in Samples,
         tick' = [tick EXCEPT ![m] = t],
         list' = PushFront(list, s), sent' = sent,
         t.hold = tick[m].hold,
         s \notin Pending \cup Gone
  PROVE  /\ list' \in Seq(Samples)
         /\ InList' = InList \cup {s}
         /\ (Pending \cup Gone)' = (Pending \cup Gone) \cup {s}
         /\ \A n \in Monitors : tick'[n] = IF n = m THEN t ELSE tick[n]
         /\ Distinct' /\ Apart'
<1> USE DEF ColInv
<1>1. \A n \in Monitors : tick'[n] = IF n = m THEN t ELSE tick[n]
  BY DEF ColTypes
<1>2. \A n \in Monitors : tick'[n].hold = tick[n].hold
  BY <1>1
<1>3. \A n \in Monitors : Held(n)' = Held(n)
  BY <1>2 DEF Held
<1>4. Gone' = Gone
  BY DEF Gone
<1>5. /\ list \in Seq(Samples)
      /\ list' \in Seq(Samples)
      /\ Len(list') = Len(list) + 1
      /\ \A i \in 1..Len(list) : list'[i] = list[i]
      /\ list'[Len(list) + 1] = s
  BY DEF ColTypes, PushFront
<1>6. InList' = InList \cup {s}
  <2>1. DOMAIN list = 1..Len(list) /\ DOMAIN list' = 1..Len(list')
    BY <1>5
  <2>2. ASSUME NEW u \in InList' PROVE u \in InList \cup {s}
    <3>1. PICK i \in 1..Len(list') : u = list'[i]
      BY <2>1, <2>2 DEF InList
    <3>2. i \in 1..Len(list) \/ i = Len(list) + 1
      BY <1>5, <3>1
    <3> QED
      BY <1>5, <2>1, <3>1, <3>2 DEF InList
  <2>3. ASSUME NEW u \in InList PROVE u \in InList'
    <3>1. PICK i \in 1..Len(list) : u = list[i]
      BY <2>1, <2>3 DEF InList
    <3>2. i \in 1..Len(list') /\ list'[i] = u
      BY <1>5, <3>1
    <3> QED
      BY <2>1, <3>2 DEF InList
  <2>4. s \in InList'
    <3>1. Len(list) + 1 \in 1..Len(list')
      BY <1>5
    <3> QED
      BY <2>1, <1>5, <3>1 DEF InList
  <2> QED
    BY <2>2, <2>3, <2>4
<1>7. (Pending \cup Gone)' = (Pending \cup Gone) \cup {s}
  BY <1>2, <1>4, <1>6 DEF Pending, InList
<1>8. s \notin InList /\ s \notin Gone /\ \A n \in Monitors : s \notin Held(n)
  BY AreSamples
<1>9. Distinct'
  <2>1. \A i \in DOMAIN list : list[i] # s
    BY <1>8 DEF InList
  <2>2. \A i, j \in DOMAIN list' : list'[i] = list'[j] => i = j
    <3> SUFFICES ASSUME NEW i \in 1..Len(list) + 1, NEW j \in 1..Len(list) + 1,
                        list'[i] = list'[j]
                 PROVE  i = j
      BY <1>5
    <3>1. CASE i \in 1..Len(list) /\ j \in 1..Len(list)
      BY <1>5, <3>1 DEF Distinct
    <3>2. CASE i = Len(list) + 1 /\ j \in 1..Len(list)
      BY <1>5, <2>1, <3>2
    <3>3. CASE j = Len(list) + 1 /\ i \in 1..Len(list)
      BY <1>5, <2>1, <3>3
    <3>4. CASE i = Len(list) + 1 /\ j = Len(list) + 1
      BY <3>4
    <3> QED
      BY <1>5, <3>1, <3>2, <3>3, <3>4
  <2> QED
    BY <1>2, <2>2 DEF Distinct
<1>10. Apart'
  BY <1>3, <1>4, <1>6, <1>8 DEF Apart
<1> QED
  BY <1>1, <1>5, <1>6, <1>7, <1>9, <1>10

-------------------------------------------------------------------------------
(***************************************************************************)
(* One lemma for each action.                                               *)
(***************************************************************************)
LEMMA NoTickType == NoTick \in Runs
<1>1. <<>> \in Seq(Samples)
  OBVIOUS
<1> QED
  BY <1>1 DEF NoTick, Runs, Steps, Places

LEMMA ColInitInv == ColInit => ColInv
<1> SUFFICES ASSUME ColInit PROVE ColInv
  OBVIOUS
<1> USE DEF ColInit
<1>1. \A m \in Monitors : /\ tick[m] = NoTick
                          /\ tick[m].hold = <<>> /\ tick[m].run = 0
                          /\ tick[m].step = "idle"
  BY DEF NoTick
<1>2. ColTypes
  <2>1. tick \in [Monitors -> Runs]
    BY NoTickType
  <2>2. NoAddress \in Places \ BadMonitors
    BY CollectorAssumption DEF Places
  <2>3. list \in Seq(Samples) /\ sent \in Seq(Writes)
    BY DEF NewSafeList
  <2> QED
    BY <2>1, <2>2, <2>3 DEF ColTypes
<1>3. InList = {} /\ Gone = {} /\ \A m \in Monitors : Held(m) = {}
  BY <1>1 DEF InList, Gone, Held, NewSafeList
<1>4. Pending \cup Gone = {}
  BY <1>2, <1>3, AreSamples
<1>5. Distinct
  BY <1>1 DEF Distinct, NewSafeList
<1>6. Apart
  BY <1>3 DEF Apart
<1>7. Numbered
  BY <1>1, <1>4 DEF Numbered
<1>8. LeftByRun
  BY <1>1, <1>3 DEF LeftByRun
<1>9. Reached
  BY <1>1, <1>4 DEF Reached
<1> QED
  BY <1>2, <1>5, <1>6, <1>7, <1>8, <1>9 DEF ColInv

\* Init and the end of a loop touch the fields of the Instance only.
LEMMA InitStep ==
  ASSUME ColInv, UNCHANGED <<list, tick, ticks, sent>>,
         address' \in Places, target' \in Places \ BadMonitors,
         initing' \subseteq Monitors, inits' \in Nat, started' \subseteq Monitors,
         target' # NoAddress \/ (target' = target /\ started' \subseteq started)
  PROVE  ColInv'
<1>1. ColTypes'
  BY DEF ColInv, ColTypes
<1>2. (Pending \cup Gone)' = Pending \cup Gone /\ InList' = InList /\ Gone' = Gone
  BY DEF Pending, Gone, InList
<1>3. Distinct' /\ LeftByRun'
  BY <1>2 DEF ColInv, Distinct, LeftByRun
<1>4. Apart'
  BY <1>2 DEF ColInv, Apart, Held
<1>5. Numbered'
  BY <1>2 DEF ColInv, Numbered
<1>6. Reached'
  BY <1>2 DEF ColInv, Reached
<1> QED
  BY <1>1, <1>3, <1>4, <1>5, <1>6 DEF ColInv

LEMMA InitSteps ==
  ASSUME ColInv,
         \/ \E m \in Monitors : InitAddress(m) \/ StopLoop(m)
         \/ InitFails \/ InitFailsLate \/ InitTarget
  PROVE  ColInv'
<1> USE DEF ColInv, ColTypes, Places
<1>1. CASE \E m \in Monitors : InitAddress(m)
  BY <1>1, InitStep DEF InitAddress
<1>2. CASE \E m \in Monitors : StopLoop(m)
  BY <1>2, InitStep DEF StopLoop
<1>3. CASE InitFails
  BY <1>3, InitStep DEF InitFails
<1>4. CASE InitFailsLate
  BY <1>4, InitStep, CollectorAssumption DEF InitFailsLate
<1>5. CASE InitTarget
  BY <1>5, InitStep, CollectorAssumption DEF InitTarget
<1> QED
  BY <1>1, <1>2, <1>3, <1>4, <1>5

LEMMA GatherBeginStep ==
  ASSUME ColInv, NEW m \in Monitors, GatherBegin(m) PROVE ColInv'
<1> DEFINE t == [NoTick EXCEPT !.step = "open", !.run = ticks + 1, !.label = address]
<1> USE DEF ColInv
<1>1. /\ m \in started /\ tick[m].step = "idle" /\ ticks \in Nat
      /\ tick' = [tick EXCEPT ![m] = t]
      /\ ticks' = ticks + 1
      /\ UNCHANGED <<address, target, initing, inits, started, list, sent>>
  BY DEF GatherBegin, ColTypes
<1>2. /\ t.step = "open" /\ t.run = ticks + 1 /\ t.hold = <<>>
      /\ t \in Runs
  <2>1. NoTick.hold = <<>>
    BY DEF NoTick
  <2>2. t.step = "open" /\ t.run = ticks + 1 /\ t.hold = NoTick.hold
    BY NoTickType DEF Runs
  <2>3. t \in Runs
    <3>1. ticks + 1 \in Nat /\ address \in Places /\ "open" \in Steps
      BY <1>1 DEF ColTypes, Steps
    <3>2. ASSUME NEW u \in Runs
          PROVE  [u EXCEPT !.step = "open", !.run = ticks + 1, !.label = address] \in Runs
      BY <3>1 DEF Runs
    <3> QED
      BY <3>2, NoTickType
  <2> QED
    BY <2>1, <2>2, <2>3
<1> HIDE DEF t
<1>3. \A n \in Monitors : tick'[n] = IF n = m THEN t ELSE tick[n]
  BY <1>1 DEF ColTypes
<1>4. ColTypes'
  BY <1>1, <1>2 DEF ColTypes
<1>5. InList' = InList /\ Gone' = Gone
  BY <1>1 DEF InList, Gone
<1>6. \A n \in Monitors : Held(n)' \subseteq Held(n)
  BY <1>2, <1>3 DEF Held
<1>7. (Pending \cup Gone)' \subseteq Pending \cup Gone
  <2>1. Pending = InList \cup UNION {Held(n) : n \in Monitors}
    BY DEF Pending, InList, Held
  <2>2. Pending' = InList' \cup UNION {Held(n)' : n \in Monitors}
    BY DEF Pending, InList, Held
  <2> QED
    BY <1>5, <1>6, <2>1, <2>2
<1>8. Distinct'
  BY <1>1, <1>2, <1>3 DEF Distinct
<1>9. Apart'
  BY <1>5, <1>6 DEF Apart
<1>10. Numbered'
  <2>1. \A n \in Monitors : tick[n].run \in Nat
    BY RunFields
  <2>2. \A s \in Pending \cup Gone : s.run \in Nat
    BY AreSamples, SampleFields
  <2> QED
    BY <1>1, <1>2, <1>3, <1>7, <2>1, <2>2 DEF Numbered, Unpushed
<1>11. LeftByRun'
  BY <1>1, <1>2, <1>3, <1>5, AreSamples, SampleFields DEF LeftByRun
<1>12. Reached'
  BY <1>1, <1>2, <1>3, <1>7 DEF Reached
<1> QED
  BY <1>4, <1>8, <1>9, <1>10, <1>11, <1>12

LEMMA ConnectStep ==
  ASSUME ColInv, NEW m \in Monitors, NEW ok \in BOOLEAN, Connect(m, ok)
  PROVE  ColInv'
<1> DEFINE t == [tick[m] EXCEPT !.at = target, !.ok = ok,
                                !.step = IF ok THEN "data" ELSE "scrape"]
           s == [by |-> m, run |-> t.run, kind |-> IF ok THEN "up" ELSE "down",
                 label |-> t.label, at |-> t.at]
<1> USE DEF ColInv
<1>1. /\ tick[m].step = "open" /\ (ok => target \notin Unparsed)
      /\ tick' = [tick EXCEPT ![m] = t]
      /\ list' = PushFront(list, s)
      /\ UNCHANGED <<address, target, initing, inits, started, ticks, sent>>
  BY DEF Connect
<1>2. tick[m] \in Runs /\ tick[m].run \in Nat /\ target \in Places
  BY RunFields DEF ColTypes
<1>3. /\ t \in Runs
      /\ t.run = tick[m].run /\ t.hold = tick[m].hold /\ t.at = target
      /\ t.ok = ok /\ t.step = IF ok THEN "data" ELSE "scrape"
  BY <1>2 DEF Runs, Steps
<1>4. /\ s \in Samples
      /\ s.run = tick[m].run /\ s.by = m /\ s.at = target
      /\ s.kind = IF ok THEN "up" ELSE "down"
  BY <1>2, <1>3 DEF Samples, Runs, Kinds
<1> HIDE DEF t, s
<1>5. s \notin Pending \cup Gone
  BY <1>1, <1>4 DEF Numbered, Unpushed
<1>6. /\ list' \in Seq(Samples)
      /\ InList' = InList \cup {s}
      /\ (Pending \cup Gone)' = (Pending \cup Gone) \cup {s}
      /\ \A n \in Monitors : tick'[n] = IF n = m THEN t ELSE tick[n]
      /\ Distinct' /\ Apart'
  BY <1>1, <1>3, <1>4, <1>5, Pushes
<1>7. ColTypes'
  BY <1>1, <1>3, <1>6 DEF ColTypes
<1>8. Numbered'
  BY <1>1, <1>3, <1>4, <1>6 DEF Numbered, Unpushed
<1>9. LeftByRun'
  BY <1>1, <1>3, <1>4, <1>6 DEF LeftByRun
<1>10. ok => target \in Usable
  BY <1>1 DEF Reached, ColTypes, Places, Usable
<1>11. Reached'
  BY <1>1, <1>3, <1>4, <1>6, <1>10 DEF Reached
<1> QED
  BY <1>6, <1>7, <1>8, <1>9, <1>11

LEMMA GatherDataStep ==
  ASSUME ColInv, NEW m \in Monitors, GatherData(m) PROVE ColInv'
<1> DEFINE t == [tick[m] EXCEPT !.step = "scrape"]
           at == IF Rereads THEN target ELSE tick[m].at
           s == [SampleOf(m, "data") EXCEPT !.at = at]
<1> USE DEF ColInv
<1>1. /\ tick[m].step = "data"
      /\ tick' = [tick EXCEPT ![m] = t]
      /\ (list' = PushFront(list, s) /\ at \notin Unparsed) \/ list' = list
      /\ UNCHANGED <<address, target, initing, inits, started, ticks, sent>>
  BY DEF GatherData, Goto
<1>2. tick[m] \in Runs /\ tick[m].run \in Nat /\ target \in Places
  BY RunFields DEF ColTypes
<1>3. /\ t \in Runs
      /\ t.run = tick[m].run /\ t.hold = tick[m].hold
      /\ t.ok = tick[m].ok /\ t.step = "scrape"
  BY <1>2 DEF Runs, Steps
<1>4. at \in Monitors \ BadMonitors
  <2>1. tick[m].at \in Usable
    BY <1>1 DEF Reached
  <2>2. target \in Monitors \ BadMonitors
    BY <1>1 DEF Reached, ColTypes, Places
  <2> QED
    BY <2>1, <2>2 DEF Usable
<1>5. /\ s \in Samples
      /\ s.run = tick[m].run /\ s.by = m /\ s.kind = "data" /\ s.at = at
  <2>1. s = [by |-> m, run |-> tick[m].run, kind |-> "data", label |-> tick[m].label,
             at |-> at]
    BY DEF SampleOf
  <2>2. tick[m].label \in Places
    BY <1>2 DEF Runs
  <2> HIDE DEF at, s
  <2> QED
    BY <1>2, <1>4, <2>1, <2>2 DEF Samples, Kinds, Places
<1> HIDE DEF at
<1> HIDE DEF t, s
<1>6. s \notin Pending \cup Gone
  BY <1>1, <1>5 DEF Numbered, Unpushed
<1>7. tick[m].ok /\ t.ok
  BY <1>1, <1>3 DEF LeftByRun
<1>8. CASE list' = PushFront(list, s) /\ at \notin Unparsed
  <2>1. /\ list' \in Seq(Samples)
        /\ InList' = InList \cup {s}
        /\ (Pending \cup Gone)' = (Pending \cup Gone) \cup {s}
        /\ \A n \in Monitors : tick'[n] = IF n = m THEN t ELSE tick[n]
        /\ Distinct' /\ Apart'
    BY <1>1, <1>3, <1>5, <1>6, <1>8, Pushes
  <2>2. ColTypes'
    BY <1>1, <1>3, <2>1 DEF ColTypes
  <2>3. Numbered'
    BY <1>1, <1>3, <1>5, <2>1 DEF Numbered, Unpushed
  <2>4. LeftByRun'
    BY <1>1, <1>3, <1>5, <1>7, <2>1 DEF LeftByRun
  <2>5. Reached'
    <3>1. s.at \in Usable
      BY <1>4, <1>5, <1>8 DEF Usable
    <3> QED
      BY <1>1, <1>3, <1>5, <2>1, <3>1 DEF Reached
  <2> QED
    BY <2>1, <2>2, <2>3, <2>4, <2>5
<1>9. CASE list' = list
  <2>1. /\ InList' = InList
        /\ (Pending \cup Gone)' = Pending \cup Gone
        /\ \A n \in Monitors : tick'[n] = IF n = m THEN t ELSE tick[n]
        /\ Distinct' /\ Apart'
    BY <1>1, <1>3, <1>9, Moves
  <2>2. ColTypes'
    BY <1>1, <1>3, <1>9 DEF ColTypes
  <2>3. Numbered'
    BY <1>1, <1>3, <2>1 DEF Numbered, Unpushed
  <2>4. LeftByRun'
    BY <1>1, <1>3, <1>7, <2>1 DEF LeftByRun
  <2>5. Reached'
    BY <1>1, <1>3, <2>1 DEF Reached
  <2> QED
    BY <2>1, <2>2, <2>3, <2>4, <2>5
<1> QED
  BY <1>1, <1>8, <1>9

LEMMA GatherEndStep ==
  ASSUME ColInv, NEW m \in Monitors, GatherEnd(m) PROVE ColInv'
<1> DEFINE t == [tick[m] EXCEPT !.step = IF tick[m].ok THEN "process" ELSE "idle"]
           s == SampleOf(m, "scrape")
<1> USE DEF ColInv
<1>1. /\ tick[m].step = "scrape"
      /\ tick' = [tick EXCEPT ![m] = t]
      /\ list' = PushFront(list, s)
      /\ UNCHANGED <<address, target, initing, inits, started, ticks, sent>>
  BY DEF GatherEnd, Goto
<1>2. tick[m] \in Runs /\ tick[m].run \in Nat /\ tick[m].ok \in BOOLEAN
  BY RunFields
<1>3. /\ t \in Runs
      /\ t.run = tick[m].run /\ t.hold = tick[m].hold /\ t.ok = tick[m].ok
      /\ t.step = IF tick[m].ok THEN "process" ELSE "idle"
  BY <1>2 DEF Runs, Steps
<1>4. /\ s \in Samples
      /\ s.run = tick[m].run /\ s.by = m /\ s.kind = "scrape"
  BY <1>2 DEF SampleOf, Samples, Runs, Kinds
<1> HIDE DEF t, s
<1>5. s \notin Pending \cup Gone
  BY <1>1, <1>4 DEF Numbered, Unpushed
<1>6. /\ list' \in Seq(Samples)
      /\ InList' = InList \cup {s}
      /\ (Pending \cup Gone)' = (Pending \cup Gone) \cup {s}
      /\ \A n \in Monitors : tick'[n] = IF n = m THEN t ELSE tick[n]
      /\ Distinct' /\ Apart'
  BY <1>1, <1>3, <1>4, <1>5, Pushes
<1>7. ColTypes'
  BY <1>1, <1>3, <1>6 DEF ColTypes
<1>8. Numbered'
  BY <1>1, <1>3, <1>4, <1>6 DEF Numbered, Unpushed
<1>9. LeftByRun'
  BY <1>1, <1>3, <1>4, <1>6 DEF LeftByRun
<1>10. Reached'
  BY <1>1, <1>3, <1>4, <1>6 DEF Reached
<1> QED
  BY <1>6, <1>7, <1>8, <1>9, <1>10

\* What the list held is what the run holds now.
LEMMA ProcessStep ==
  ASSUME ColInv, NEW m \in Monitors, Process(m) PROVE ColInv'
<1> DEFINE t == [[tick[m] EXCEPT !.hold = list] EXCEPT !.step = "forward"]
<1> USE DEF ColInv
<1>1. /\ tick[m].step = "process"
      /\ list' = <<>>
      /\ UNCHANGED <<address, target, initing, inits, started, ticks, sent>>
  BY DEF Process, NewSafeList
<1>2. tick' = [tick EXCEPT ![m] = t]
  BY DEF Process, PopBackAll
<1>3. tick[m] \in Runs /\ list \in Seq(Samples)
  BY RunFields DEF ColTypes
<1>4. /\ t \in Runs
      /\ t.run = tick[m].run /\ t.hold = list /\ t.step = "forward"
  BY <1>3 DEF Runs, Steps
<1> HIDE DEF t
<1>5. \A n \in Monitors : tick'[n] = IF n = m THEN t ELSE tick[n]
  BY <1>2 DEF ColTypes
<1>6. ColTypes'
  BY <1>1, <1>2, <1>4 DEF ColTypes
<1>7. InList' = {} /\ Gone' = Gone
  BY <1>1 DEF InList, Gone
<1>8. \A n \in Monitors : Held(n)' = IF n = m THEN InList ELSE Held(n)
  BY <1>4, <1>5 DEF Held, InList
<1>9. (Pending \cup Gone)' \subseteq Pending \cup Gone
  <2>1. Pending' = InList' \cup UNION {Held(n)' : n \in Monitors}
    BY DEF Pending, InList, Held
  <2> QED
    BY <1>7, <1>8, <2>1, AreSamples
<1>10. Distinct'
  BY <1>1, <1>4, <1>5 DEF Distinct
<1>11. Apart'
  BY <1>7, <1>8 DEF Apart
<1>12. Numbered'
  BY <1>1, <1>4, <1>5, <1>9 DEF Numbered, Unpushed
<1>13. LeftByRun'
  BY <1>4, <1>5, <1>7 DEF LeftByRun
<1>14. Reached'
  BY <1>1, <1>4, <1>5, <1>9 DEF Reached
<1> QED
  BY <1>6, <1>10, <1>11, <1>12, <1>13, <1>14

LEMMA ForwardStep ==
  ASSUME ColInv, NEW m \in Monitors, Forward(m) PROVE ColInv'
<1> DEFINE held == tick[m].hold
           out == [i \in DOMAIN held |-> [sample |-> held[i], labels |-> m]]
<1> USE DEF ColInv
<1>1. /\ tick[m].step = "forward"
      /\ sent' = sent \o out
      /\ tick' = [tick EXCEPT ![m] = NoTick]
      /\ UNCHANGED <<address, target, initing, inits, started, list, ticks>>
  BY DEF Forward
<1>2. held \in Seq(Samples) /\ DOMAIN held = 1..Len(held) /\ Len(held) \in Nat
  BY RunFields
<1>3. \A i \in 1..Len(held) : held[i] \in Samples
  BY <1>2
<1>4. /\ DOMAIN out = 1..Len(held)
      /\ \A i \in 1..Len(held) : out[i] = [sample |-> held[i], labels |-> m]
  BY <1>2
<1>5. \A i \in 1..Len(held) : out[i] \in Writes /\ out[i].sample = held[i]
  BY <1>3, <1>4 DEF Writes
<1>6. out \in Seq(Writes) /\ Len(out) = Len(held)
  <2>1. out \in [1..Len(held) -> Writes]
    BY <1>4, <1>5
  <2> QED
    BY <1>2, <2>1
<1> HIDE DEF out, held
<1>7. /\ sent \in Seq(Writes) /\ sent' \in Seq(Writes)
      /\ Len(sent') = Len(sent) + Len(held)
      /\ \A i \in 1..Len(sent) : sent'[i] = sent[i]
      /\ \A i \in 1..Len(held) : sent'[Len(sent) + i] = out[i]
  <2>1. sent \in Seq(Writes) /\ sent' = sent \o out
    BY <1>1 DEF ColTypes
  <2>2. Len(sent') = Len(sent) + Len(out) /\ sent' \in Seq(Writes)
    BY <1>6, <2>1, ConcatProperties
  <2>3. \A i \in 1..Len(sent) : sent'[i] = sent[i]
    BY <1>6, <2>1
  <2>4. \A i \in 1..Len(out) : sent'[Len(sent) + i] = out[i]
    BY <1>6, <2>1
  <2> QED
    BY <1>6, <2>1, <2>2, <2>3, <2>4
<1>8. \A i \in 1..Len(sent') :
        \/ i \in 1..Len(sent) /\ sent'[i].sample = sent[i].sample
        \/ /\ i \notin 1..Len(sent) /\ i - Len(sent) \in 1..Len(held)
           /\ sent'[i].sample = held[i - Len(sent)]
  <2> SUFFICES ASSUME NEW i \in 1..Len(sent'), i \notin 1..Len(sent)
               PROVE  /\ i - Len(sent) \in 1..Len(held)
                      /\ sent'[i].sample = held[i - Len(sent)]
    BY <1>7
  <2>1. i - Len(sent) \in 1..Len(held) /\ i = Len(sent) + (i - Len(sent))
    BY <1>2, <1>7
  <2> QED
    BY <1>5, <1>7, <2>1
<1>9. \A n \in Monitors : tick'[n] = IF n = m THEN NoTick ELSE tick[n]
  BY <1>1 DEF ColTypes
<1>10. ColTypes'
  BY <1>1, <1>7, NoTickType DEF ColTypes
<1>11. NoTick.step = "idle" /\ NoTick.run = 0 /\ NoTick.hold = <<>>
  BY DEF NoTick
<1>12. InList' = InList
  BY <1>1 DEF InList
<1>13. Held(m)' = {} /\ \A n \in Monitors : n # m => Held(n)' = Held(n)
  BY <1>9, <1>11 DEF Held
<1>14. Gone' \subseteq Gone \cup Held(m)
  <2> SUFFICES ASSUME NEW i \in 1..Len(sent')
               PROVE  sent'[i].sample \in Gone \cup Held(m)
    BY <1>7 DEF Gone
  <2>1. CASE i \in 1..Len(sent)
    BY <1>7, <1>8, <2>1 DEF Gone
  <2>2. CASE i \notin 1..Len(sent)
    BY <1>2, <1>8, <2>2 DEF Held, held
  <2> QED
    BY <2>1, <2>2
<1>15. (Pending \cup Gone)' \subseteq Pending \cup Gone
  <2>1. Pending' = InList' \cup UNION {Held(n)' : n \in Monitors}
    BY DEF Pending, InList, Held
  <2> QED
    BY <1>12, <1>13, <1>14, <2>1, AreSamples
<1>16. Distinct'
  <2>1. \A i, j \in 1..Len(held) : held[i] = held[j] => i = j
    BY <1>2 DEF Distinct, held
  <2>2. \A i \in 1..Len(sent), j \in 1..Len(held) : sent[i].sample # held[j]
    <3>1. \A i \in 1..Len(sent) : sent[i].sample \in Gone
      BY <1>7 DEF Gone
    <3>2. \A j \in 1..Len(held) : held[j] \in Held(m)
      BY <1>2 DEF Held, held
    <3> QED
      BY <3>1, <3>2 DEF Apart
  <2>3. \A i, j \in 1..Len(sent') : sent'[i].sample = sent'[j].sample => i = j
    <3> SUFFICES ASSUME NEW i \in 1..Len(sent'), NEW j \in 1..Len(sent'),
                        sent'[i].sample = sent'[j].sample
                 PROVE  i = j
      OBVIOUS
    <3>1. CASE i \in 1..Len(sent) /\ j \in 1..Len(sent)
      BY <1>7, <3>1 DEF Distinct
    <3>2. CASE i \notin 1..Len(sent) /\ j \notin 1..Len(sent)
      <4>1. i - Len(sent) = j - Len(sent)
        BY <1>8, <2>1, <3>2
      <4> QED
        BY <1>7, <4>1
    <3>3. CASE i \in 1..Len(sent) /\ j \notin 1..Len(sent)
      BY <1>8, <2>2, <3>3
    <3>4. CASE i \notin 1..Len(sent) /\ j \in 1..Len(sent)
      BY <1>8, <2>2, <3>4
    <3> QED
      BY <3>1, <3>2, <3>3, <3>4
  <2>4. \A n \in Monitors : tick'[n].hold = IF n = m THEN <<>> ELSE tick[n].hold
    BY <1>9, <1>11
  <2> QED
    <3>1. \A i, j \in DOMAIN list' : list'[i] = list'[j] => i = j
      BY <1>1 DEF Distinct
    <3>2. \A n \in Monitors : \A i, j \in DOMAIN tick'[n].hold :
            tick'[n].hold[i] = tick'[n].hold[j] => i = j
      BY <2>4 DEF Distinct
    <3>3. DOMAIN sent' = 1..Len(sent')
      BY <1>7
    <3> QED
      BY <2>3, <3>1, <3>2, <3>3 DEF Distinct
<1>17. Apart'
  BY <1>12, <1>13, <1>14 DEF Apart
<1>18. Numbered'
  BY <1>1, <1>9, <1>11, <1>15 DEF Numbered, Unpushed, ColTypes
<1>19. LeftByRun'
  BY <1>1, <1>9, <1>11, <1>12 DEF LeftByRun
<1>20. Reached'
  BY <1>1, <1>9, <1>11, <1>15 DEF Reached
<1> QED
  BY <1>10, <1>16, <1>17, <1>18, <1>19, <1>20

LEMMA ColStep == ColInv /\ [ColNext]_colVars => ColInv'
<1> SUFFICES ASSUME ColInv, [ColNext]_colVars PROVE ColInv'
  OBVIOUS
<1>1. CASE \/ \E m \in Monitors : InitAddress(m) \/ StopLoop(m)
           \/ InitFails \/ InitFailsLate \/ InitTarget
  BY <1>1, InitSteps
<1>2. CASE \E m \in Monitors : Closure(m)
  BY <1>2, GatherBeginStep, ConnectStep, GatherDataStep, GatherEndStep,
     ProcessStep, ForwardStep DEF Closure
<1>3. CASE UNCHANGED colVars
  BY <1>3, InitStep DEF colVars, ColInv, ColTypes
<1> QED
  BY <1>1, <1>2, <1>3 DEF ColNext

LEMMA ColAlways == ColSpec => []ColInv
<1> QED
  BY ColInitInv, ColStep, PTL DEF ColSpec
-------------------------------------------------------------------------------
(***************************************************************************)
(* The theorems.                                                            *)
(***************************************************************************)

\* However the closures of the Monitors of one model interleave on the one list
\* (Process pops it all, forward writes it later), no sample is written twice.
THEOREM NothingSentTwice == ColSpec => []SentOnce
<1>1. ColInv => SentOnce
  <2> SUFFICES ASSUME ColInv PROVE Pending \cap Gone = {}
    BY DEF ColInv, Distinct, SentOnce
  <2> QED
    BY AreSamples DEF ColInv, Apart
<1> QED
  BY <1>1, ColAlways, PTL

\* Samples of a run that reached its target are in the list only while that run
\* has not come to its Process: a closure that ended well left nothing.
THEOREM GoodRunsClean == ColSpec => []GoodRunLeavesNothing
<1>1. ColInv => GoodRunLeavesNothing
  BY DEF ColInv, LeftByRun, InList, GoodRunLeavesNothing
<1> QED
  BY <1>1, ColAlways, PTL

\* A sample that says "up" or carries data was measured at a target that parses
\* and that an Init got as far as to set, although Inits that fail half way
\* overwrite the one Instance while other Monitors gather with it.
THEOREM OnlyUsableTargets == ColSpec => []MeasuredAtUsable
<1>1. ColInv => MeasuredAtUsable
  BY DEF ColInv, Reached, Usable, MeasuredAtUsable
<1> QED
  BY <1>1, ColAlways, PTL
===============================================================================
