------------------------------- MODULE Handlers -------------------------------
(***************************************************************************)
(* SharedHandlerFactory.Gather for the models that read an answer of a      *)
(* server by themselves: redis, clickhouse and the statistics of            *)
(* elasticsearch.  Each model has one Instance and one sample list, so the  *)
(* models share no state: a behaviour is one call of Gather, of any model.  *)
(***************************************************************************)
EXTENDS RedisGather, ClickhouseGather, EsStatistics

VARIABLE model   \* the argument of Factory.Gather

handlersVars == <<model, rdVars, chVars, esStVars>>

\* RegisterHandler: the init functions of the packages have filled the table.
supportModel == {"redis", "clickhouse", "elasticsearch"}

HandlersInit == model \in supportModel /\ RdInit /\ ChInit /\ EsStInit

\* handler.Gather(list), with the Init of other Monitors of the model.
GatherOf(m) ==
  /\ model = m /\ UNCHANGED model
  /\ CASE m = "redis" -> RdNext /\ UNCHANGED <<chVars, esStVars>>
       [] m = "clickhouse" -> ChNext /\ UNCHANGED <<rdVars, esStVars>>
       [] OTHER -> EsStNext /\ UNCHANGED <<rdVars, chVars>>

HandlersNext == \E m \in supportModel : GatherOf(m)

HandlersSpec == HandlersInit /\ [][HandlersNext]_handlersVars
===============================================================================
