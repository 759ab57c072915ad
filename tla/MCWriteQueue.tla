----------------------------- MODULE MCWriteQueue -----------------------------
(***************************************************************************)
(* TLC instance of WriteQueue.                                              *)
(***************************************************************************)
EXTENDS WriteQueue, TLC

Symmetry == Permutations(Producers)
===============================================================================
