-------------------------- MODULE MCMonitorController --------------------------
(***************************************************************************)
(* TLC instances of MonitorController.                                      *)
(***************************************************************************)
EXTENDS MonitorController

MCKeys == Namespaces \X Names
MCJobs == [key : MCKeys, spec : Specs]
===============================================================================
