------------------------------- MODULE MCWriters -------------------------------
(***************************************************************************)
(* TLC instance of Writers.                                                 *)
(***************************************************************************)
EXTENDS Writers
===============================================================================
