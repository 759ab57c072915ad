---------------------------- MODULE MCWriterFanout ----------------------------
(***************************************************************************)
(* TLC instance of WriterFanout.                                            *)
(***************************************************************************)
EXTENDS WriterFanout
===============================================================================
