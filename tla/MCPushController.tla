--------------------------- MODULE MCPushController ---------------------------
(***************************************************************************)
(* TLC instances of PushController.                                         *)
(***************************************************************************)
EXTENDS PushController

MCKeys == Namespaces \X Names
===============================================================================
