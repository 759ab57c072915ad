-------------------------------- MODULE Workers --------------------------------
(***************************************************************************)
(* pkg/worker/worker.go: the table of running collection tasks, and the     *)
(* wait.Until loops it starts.                                              *)
(*                                                                          *)
(* A task is the stop channel of its loop.  AddWorkerTask makes the channel *)
(* and stores it under the Monitor's name; Run starts a goroutine with      *)
(* wait.Until on that channel; Stop and StopAll close the channel and       *)
(* remove the task.  Closing a channel twice panics and ends the process.   *)
(* A loop tests its channel before each run of its function, so closing the *)
(* channel does not end a run in progress.                                  *)
(***************************************************************************)
EXTENDS Naturals, Sequences

CONSTANTS
  Names,       \* names of Monitor objects: the keys of Tasks
  Jobs,        \* what a loop runs: the closure built by the reconciler
  NoTask       \* the value of a name that has no task

ASSUME NoTaskAssumption == NoTask \notin Nat

VARIABLES
  Tasks,       \* workers.Tasks: name -> number of the stop channel, or NoTask
  channels,    \* number of stop channels made so far
  closed,      \* the channels that were closed
  loops,       \* the goroutines started by Run, in order; never changed
  lpc,         \* where each loop is: see LoopStates
  panicked     \* a channel was closed twice

workerVars == <<Tasks, channels, closed, loops, lpc, panicked>>

\* "top": before the test of stopCh; "run": in the function; "wait": in the
\* select on stopCh and the timer; "exit": returned.
LoopStates == {"top", "run", "wait", "exit"}

WorkersTypeOK ==
  /\ Tasks \in [Names -> Nat \cup {NoTask}]
  /\ channels \in Nat
  /\ closed \subseteq 1..channels
  /\ loops \in Seq([name : Names, job : Jobs, ch : Nat])
  /\ lpc \in Seq(LoopStates)
  /\ Len(lpc) = Len(loops)
  /\ panicked \in BOOLEAN

WorkersInit ==
  /\ Tasks = [n \in Names |-> NoTask]
  /\ channels = 0
  /\ closed = {}
  /\ loops = <<>>
  /\ lpc = <<>>
  /\ panicked = FALSE

Exist(n) == Tasks[n] # NoTask

\* The channel AddWorkerTask(n) leaves in Tasks: the one that is there, or a
\* new one.
TaskChannel(n) == IF Exist(n) THEN Tasks[n] ELSE channels + 1

\* Mutant: AddWorkerTask makes no channel for the task it stores.
AddAndRun_NoMake(n, job) ==
  /\ Tasks' = [Tasks EXCEPT ![n] = TaskChannel(n)]
  /\ loops' = Append(loops, [name |-> n, job |-> job, ch |-> TaskChannel(n)])
  /\ lpc' = Append(lpc, "top")
  /\ UNCHANGED <<channels, closed, panicked>>

\* AddWorkerTask(n) followed by Run(n, period, job), as the reconciler calls
\* them: Run finds the task AddWorkerTask stored.
AddAndRun(n, job) ==
  /\ Tasks' = [Tasks EXCEPT ![n] = TaskChannel(n)]
  /\ channels' = IF Exist(n) THEN channels ELSE channels + 1
  /\ loops' = Append(loops, [name |-> n, job |-> job, ch |-> TaskChannel(n)])
  /\ lpc' = Append(lpc, "top")
  /\ UNCHANGED <<closed, panicked>>

\* Mutant: the task is not deleted.
Stop_KeepsTask(n) ==
  IF Exist(n)
    THEN /\ closed' = closed \cup {Tasks[n]}
         /\ panicked' = (panicked \/ Tasks[n] \in closed)
         /\ UNCHANGED <<Tasks, channels, loops, lpc>>
    ELSE UNCHANGED workerVars

\* Mutant: the channel is not closed.
Stop_NoClose(n) ==
  /\ Tasks' = [Tasks EXCEPT ![n] = NoTask]
  /\ UNCHANGED <<channels, closed, loops, lpc, panicked>>

\* Stop(n): a name without a task is only logged.
Stop(n) ==
  IF Exist(n)
    THEN /\ closed' = closed \cup {Tasks[n]}
         /\ panicked' = (panicked \/ Tasks[n] \in closed)
         /\ Tasks' = [Tasks EXCEPT ![n] = NoTask]
         /\ UNCHANGED <<channels, loops, lpc>>
    ELSE UNCHANGED workerVars

\* StopAll: Range over Tasks, closing and deleting each.
StopAll ==
  LET open == {Tasks[n] : n \in {m \in Names : Exist(m)}} IN
  /\ closed' = closed \cup open
  /\ panicked' = \/ panicked
                 \/ open \cap closed # {}
                 \/ \E m, n \in Names : m # n /\ Exist(m) /\ Tasks[m] = Tasks[n]
  /\ Tasks' = [n \in Names |-> NoTask]
  /\ UNCHANGED <<channels, loops, lpc>>

(***************************************************************************)
(* wait.Until (k8s.io/apimachinery), one loop per Run.                      *)
(***************************************************************************)

Closed(i) == loops[i].ch \in closed

\* The select with default at the head of the loop, and the call of f.
LoopTop(i) ==
  /\ lpc[i] = "top"
  /\ lpc' = [lpc EXCEPT ![i] = IF Closed(i) THEN "exit" ELSE "run"]
  /\ UNCHANGED <<Tasks, channels, closed, loops, panicked>>

\* f returned; the timer is set.
LoopRunDone(i) ==
  /\ lpc[i] = "run"
  /\ lpc' = [lpc EXCEPT ![i] = "wait"]
  /\ UNCHANGED <<Tasks, channels, closed, loops, panicked>>

\* The select on stopCh and the timer: when both are ready either may win, and
\* the timer's case goes back to the head.
LoopWait(i) ==
  /\ lpc[i] = "wait"
  /\ \/ lpc' = [lpc EXCEPT ![i] = "top"]
     \/ Closed(i) /\ lpc' = [lpc EXCEPT ![i] = "exit"]
  /\ UNCHANGED <<Tasks, channels, closed, loops, panicked>>
-------------------------------------------------------------------------------
(***************************************************************************)
(* Properties.                                                              *)
(***************************************************************************)

\* Closing a stop channel twice panics: no sequence of reconciles and StopAll
\* does it.
NoDoubleClose == ~panicked

\* A loop that can go on is always the one Tasks holds for its name, so that a
\* later Stop reaches it: no loop is leaked.
NoLeakedLoop ==
  \A i \in DOMAIN loops : ~Closed(i) => Tasks[loops[i].name] = loops[i].ch

\* A name has at most one loop that can start another run.
OneLoopPerName ==
  \A i, j \in DOMAIN loops :
    loops[i].name = loops[j].name /\ ~Closed(i) /\ ~Closed(j) => i = j

\* What keeps these: the tasks are open channels, no two names or loops share
\* one, and a loop that can go on is the one in Tasks.  Inductive.
TaskInv ==
  /\ WorkersTypeOK
  /\ \A n \in Names : Exist(n) => Tasks[n] \in (1..channels) \ closed
  /\ \A m, n \in Names : Exist(m) /\ Tasks[m] = Tasks[n] => m = n
  /\ \A i \in DOMAIN loops : loops[i].ch \in 1..channels
  /\ \A i, j \in DOMAIN loops : loops[i].ch = loops[j].ch => i = j
  /\ NoLeakedLoop
  /\ NoDoubleClose
===============================================================================
