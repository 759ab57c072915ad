------------------------------ MODULE MetricPipe ------------------------------
(***************************************************************************)
(* What the writers promise to the code that collects metrics, without any  *)
(* of its goroutines: a first-in first-out pipe of bounded size that takes  *)
(* whole groups of series at its end, or refuses them, and hands over       *)
(* batches from its head.  Nothing that entered is dropped, doubled or      *)
(* reordered.                                                               *)
(***************************************************************************)
EXTENDS Naturals, Sequences

CONSTANTS
  PipeSize,     \* most series the pipe ever holds
  BatchSize     \* most series handed over at once

VARIABLES
  pipe,         \* series accepted and not handed over yet
  delivered     \* series handed over, in order

pipeVars == <<pipe, delivered>>

PipeInit == pipe = <<>> /\ delivered = <<>>

\* A group of series enters as a whole.
Offer ==
  /\ Len(pipe') <= PipeSize
  /\ Len(pipe) <= Len(pipe')
  /\ SubSeq(pipe', 1, Len(pipe)) = pipe
  /\ UNCHANGED delivered

\* A batch from the head is handed over.
Deliver ==
  \E n \in 1..BatchSize :
    /\ n <= Len(pipe)
    /\ delivered' = delivered \o SubSeq(pipe, 1, n)
    /\ pipe' = SubSeq(pipe, n + 1, Len(pipe))

PipeNext == Offer \/ Deliver

PipeSpec == PipeInit /\ [][PipeNext]_pipeVars
===============================================================================
