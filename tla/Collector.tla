------------------------------- MODULE Collector -------------------------------
(***************************************************************************)
(* The collection path of one model (mysql, redis, ...): the shared handler *)
(* of pkg/input, the closure the Monitor reconciler runs, process.Process   *)
(* and forward.                                                             *)
(*                                                                          *)
(* SharedHandlerFactory has one handler Instance and one RootList for each  *)
(* model.  Every Monitor of the model initialises that one Instance when it *)
(* is reconciled, and its loop gathers with the Instance as it is then into *)
(* the one list, takes everything out of the list, adds its own labels and  *)
(* writes it.  Nothing but the list is locked: Init and several Gathers     *)
(* interleave field by field.  The Instance is abstracted to the two fields *)
(* that Gather reads at different moments: the address it labels samples    *)
(* with, and the connection target (mysql: dsn, redis: client).             *)
(* A Monitor that is created again while a run of its old loop goes on is   *)
(* another member of Monitors.                                              *)
(***************************************************************************)
EXTENDS SafeList, FiniteSets

CONSTANTS
  Monitors,     \* Monitors of this model
  BadMonitors,  \* those whose Init fails before it sets the target
  LateMonitors, \* those whose Init sets the target and then fails
  Unparsed,     \* those of them whose target does not parse
  Rereads,      \* Gather reads the target again for the data
  NoAddress,    \* the fields of the zero Instance
  MaxInits,     \* bound: Init calls
  MaxTicks      \* bound: runs of the closure, all Monitors together

\* mysql reads its dsn once, and its Init fails late on a dsn that does not
\* parse.  redis and elasticsearch read their client and servers again; the Init
\* of redis sets the client last, that of elasticsearch may still refuse a
\* pattern of indices when the servers, good ones, are set.
ASSUME CollectorAssumption == /\ MaxInits \in Nat /\ MaxTicks \in Nat
                              /\ BadMonitors \cup LateMonitors \subseteq Monitors
                              /\ Unparsed \subseteq LateMonitors
                              /\ Rereads \in BOOLEAN
                              /\ NoAddress \notin Monitors

VARIABLES
  address,    \* Instance.Address
  target,     \* Instance.dsn or Instance.client
  initing,    \* the Init in progress, between the two fields: at most one
  inits,      \* Init calls so far
  started,    \* Monitors that have a loop
  list,       \* RootList[model], from Back to Front
  tick,       \* Monitor -> its run of the closure
  ticks,      \* runs so far
  sent        \* history: what forward gave to WriteSamples

colVars == <<address, target, initing, inits, started, list, tick, ticks, sent>>

\* Each Monitor has an address of its own: the Monitor stands for it.  A sample
\* has the Monitor and the run that pushed it, its kind ("up" 1, "down" for up 0,
\* "data", "scrape"), the address it is labelled with and the one it was
\* measured at.  A run is "idle", in Gather ("open", "data", "scrape"), in
\* "process" or in "forward".
NoTick == [step |-> "idle", run |-> 0, label |-> NoAddress, at |-> NoAddress,
           ok |-> FALSE, hold |-> <<>>]

ColInit ==
  /\ address = NoAddress /\ target = NoAddress
  /\ initing = {} /\ inits = 0
  /\ started = {}
  /\ list = NewSafeList
  /\ tick = [m \in Monitors |-> NoTick]
  /\ ticks = 0
  /\ sent = <<>>

(***************************************************************************)
(* InitConfig, called by the one reconcile goroutine.                       *)
(***************************************************************************)

\* handler.Init up to the first thing that can fail: ins.Address is set.
InitAddress(m) ==
  /\ initing = {}
  /\ m \notin started
  /\ inits < MaxInits
  /\ inits' = inits + 1
  /\ address' = m
  /\ initing' = {m}
  /\ UNCHANGED <<target, started, list, tick, ticks, sent>>

\* Mutant: the target is set before the options are parsed.
InitFails_AfterTarget ==
  /\ \E m \in initing \cap BadMonitors : target' = m
  /\ initing' = {}
  /\ UNCHANGED <<address, inits, started, list, tick, ticks, sent>>

\* timeout_seconds or pool_size does not parse: Init returns the error, with
\* the address overwritten and the target not.
InitFails ==
  /\ initing \cap BadMonitors # {}
  /\ initing' = {}
  /\ UNCHANGED <<address, target, inits, started, list, tick, ticks, sent>>

\* mysql.ParseDSN refuses the dsn, which ins.dsn holds by then, or
\* compileIndexMatchers a pattern, when ins.Servers is set.
InitFailsLate ==
  /\ \E m \in initing \cap (LateMonitors \ BadMonitors) : target' = m
  /\ initing' = {}
  /\ UNCHANGED <<address, inits, started, list, tick, ticks, sent>>

\* The rest of Init, and AddWorkerTask and Run of the reconciler.
InitTarget ==
  /\ \E m \in initing \ (BadMonitors \cup LateMonitors) :
       target' = m /\ started' = started \cup {m}
  /\ initing' = {}
  /\ UNCHANGED <<address, inits, list, tick, ticks, sent>>

\* The Monitor is deleted: its loop starts no further run.
StopLoop(m) ==
  /\ m \in started
  /\ started' = started \ {m}
  /\ UNCHANGED <<address, target, initing, inits, list, tick, ticks, sent>>

(***************************************************************************)
(* The closure: Gather, Process, forward.                                   *)
(***************************************************************************)
Goto(m, step) == tick' = [tick EXCEPT ![m].step = step]

SampleOf(m, kind) ==
  [by |-> m, run |-> tick[m].run, kind |-> kind, label |-> tick[m].label,
   at |-> tick[m].at]

\* tags := {"address": ins.Address}
GatherBegin(m) ==
  /\ m \in started
  /\ tick[m].step = "idle"
  /\ ticks < MaxTicks
  /\ ticks' = ticks + 1
  /\ tick' = [tick EXCEPT ![m] = [NoTick EXCEPT !.step = "open", !.run = ticks + 1,
                                                !.label = address]]
  /\ UNCHANGED <<address, target, initing, inits, started, list, sent>>

\* sql.Open(ins.dsn) and Ping, or client.Ping: up is 1 or 0; on 0 Gather
\* returns the error after its deferred scrape_use_seconds.  sql.Open fails on
\* a dsn that does not parse.
Connect(m, ok) ==
  LET now == [tick[m] EXCEPT !.at = target, !.ok = ok,
                             !.step = IF ok THEN "data" ELSE "scrape"]
      up == [by |-> m, run |-> now.run, kind |-> IF ok THEN "up" ELSE "down",
             label |-> now.label, at |-> now.at]
  IN
  /\ tick[m].step = "open"
  /\ ok => target \notin Unparsed
  /\ tick' = [tick EXCEPT ![m] = now]
  /\ list' = PushFront(list, up)
  /\ UNCHANGED <<address, target, initing, inits, started, ticks, sent>>

\* The sub-gathers, abstracted to one sample, or none when they all fail or
\* are switched off.
GatherData(m) ==
  LET at == IF Rereads THEN target ELSE tick[m].at IN
  /\ tick[m].step = "data"
  /\ \/ /\ at \notin Unparsed
        /\ list' = PushFront(list, [SampleOf(m, "data") EXCEPT !.at = at])
     \/ UNCHANGED list
  /\ Goto(m, "scrape")
  /\ UNCHANGED <<address, target, initing, inits, started, ticks, sent>>

\* Mutant: the closure returns after every Gather.
GatherEnd_Returns(m) ==
  /\ tick[m].step = "scrape"
  /\ list' = PushFront(list, SampleOf(m, "scrape"))
  /\ Goto(m, "idle")
  /\ UNCHANGED <<address, target, initing, inits, started, ticks, sent>>

\* The deferred scrape_use_seconds.  After an error the closure returns: what
\* was pushed stays in the list.
GatherEnd(m) ==
  /\ tick[m].step = "scrape"
  /\ list' = PushFront(list, SampleOf(m, "scrape"))
  /\ Goto(m, IF tick[m].ok THEN "process" ELSE "idle")
  /\ UNCHANGED <<address, target, initing, inits, started, ticks, sent>>

\* Mutant: the list is copied and not emptied.
Process_Copies(m) ==
  /\ tick[m].step = "process"
  /\ tick' = [tick EXCEPT ![m].hold = PopBackAll(list), ![m].step = "forward"]
  /\ UNCHANGED <<address, target, initing, inits, started, list, ticks, sent>>

\* Mutant: only the oldest sample is taken.
Process_PopsOne(m) ==
  /\ tick[m].step = "process"
  /\ tick' = [tick EXCEPT ![m].hold = PopBackN(list, 1), ![m].step = "forward"]
  /\ list' = AfterPopBackN(list, 1)
  /\ UNCHANGED <<address, target, initing, inits, started, ticks, sent>>

\* Process: PopBackAll of the model's list, labels added to each sample.
Process(m) ==
  /\ tick[m].step = "process"
  /\ tick' = [tick EXCEPT ![m].hold = PopBackAll(list), ![m].step = "forward"]
  /\ list' = NewSafeList
  /\ UNCHANGED <<address, target, initing, inits, started, ticks, sent>>

\* forward: WriteSamples of all of them, with the labels of this Monitor.
Forward(m) ==
  LET held == tick[m].hold IN
  /\ tick[m].step = "forward"
  /\ sent' = sent \o [i \in DOMAIN held |-> [sample |-> held[i], labels |-> m]]
  /\ tick' = [tick EXCEPT ![m] = NoTick]
  /\ UNCHANGED <<address, target, initing, inits, started, list, ticks>>
-------------------------------------------------------------------------------
Closure(m) ==
  \/ GatherBegin(m)
  \/ \E ok \in BOOLEAN : Connect(m, ok)
  \/ GatherData(m) \/ GatherEnd(m) \/ Process(m) \/ Forward(m)

ColNext ==
  \/ \E m \in Monitors : InitAddress(m) \/ StopLoop(m) \/ Closure(m)
  \/ InitFails
  \/ InitFailsLate
  \/ InitTarget

ColFairness == \A m \in Monitors : WF_colVars(Closure(m))

ColSpec == ColInit /\ [][ColNext]_colVars
ColFairSpec == ColSpec /\ ColFairness
-------------------------------------------------------------------------------
(***************************************************************************)
(* Properties.                                                              *)
(***************************************************************************)

\* Every sample that was pushed and not sent yet.
Pending == {list[i] : i \in DOMAIN list}
           \cup UNION {{tick[m].hold[i] : i \in DOMAIN tick[m].hold} : m \in Monitors}
Gone == {sent[i].sample : i \in DOMAIN sent}

\* Two loops that drain one list at the same time send no sample twice and
\* leave none that was sent in the list.
SentOnce ==
  /\ \A i, j \in DOMAIN sent : sent[i].sample = sent[j].sample => i = j
  /\ Pending \cap Gone = {}

\* When a run has ended well everything it gathered has left the list, taken
\* by its own closure or by another Monitor's: only failed runs leave samples.
GoodRunLeavesNothing ==
  \A i \in DOMAIN list :
    LET s == list[i] IN
    s.kind \in {"up", "data"} =>
      tick[s.by].run = s.run /\ tick[s.by].step \in {"data", "scrape", "process"}

\* A run measures, and says up, only at a target that parses and that an Init
\* has set as a whole, whatever Inits of other Monitors failed half way
\* meanwhile: the early failures leave the target as it was.  It need not be the
\* target of a Monitor that Init accepted: an elasticsearch Init that fails on a
\* pattern leaves its servers to the other Monitors' Gathers.
MeasuredAtUsable ==
  \A s \in Pending \cup Gone :
    s.kind \in {"up", "data"} => s.at \in Monitors \ (BadMonitors \cup Unparsed)

\* Every sample of a run that reached its target is sent, though another
\* closure may be the one that sends it.
GoodRunSent ==
  \A r \in 1..MaxTicks :
    (\E s \in Pending : s.run = r /\ s.kind = "data")
      ~> (\E s \in Gone : s.run = r /\ s.kind = "data")

\* "configures the acquisition task through CRD" (README.md:2), and
\* config/samples has two Monitors of one model with different servers: what is
\* sent with a Monitor's labels was acquired as that Monitor configures.
SentAsConfigured ==
  \A i \in DOMAIN sent :
    LET s == sent[i].sample IN s.label = sent[i].labels /\ s.at = sent[i].labels
===============================================================================
