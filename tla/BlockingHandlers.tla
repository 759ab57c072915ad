--------------------------- MODULE BlockingHandlers ---------------------------
(***************************************************************************)
(* SharedHandlerFactory.Gather for the models whose Gather waits: mysql and *)
(* postgresql for the one connection of their pool, elasticsearch for its   *)
(* goroutines.  Each model has one Instance and one sample list, so they    *)
(* share no state: a behaviour is that of one model.                        *)
(***************************************************************************)
EXTENDS MysqlGather, PostgresGather, ElasticsearchGather

VARIABLE model   \* the argument of Factory.Gather

blockingVars == <<model, myVars, pgVars, esVars>>

\* RegisterHandler: the init functions of the packages have filled the table.
supportModel == {"mysql", "postgresql", "elasticsearch"}

\* The Instance of a model that is not asked has one arbitrary configuration.
BlockingInit ==
  /\ model \in supportModel /\ MyInit /\ PgInit /\ ESInit
  /\ model # "mysql" => flags = CHOOSE c \in Configs : TRUE
  /\ model # "elasticsearch" => conf = CHOOSE c \in EsConfigs : TRUE

\* handler.Gather(list) on the Instance of the model, with the Init of other
\* Monitors of the model and, for postgresql and elasticsearch, their Gathers.
GatherOf(m) ==
  /\ model = m /\ UNCHANGED model
  /\ CASE m = "mysql" -> MyNext /\ UNCHANGED <<pgVars, esVars>>
       [] m = "postgresql" -> PgNext /\ UNCHANGED <<myVars, esVars>>
       [] OTHER -> ESNext /\ UNCHANGED <<myVars, pgVars>>

BlockingNext == \E m \in supportModel : GatherOf(m)

BlockingSpec == BlockingInit /\ [][BlockingNext]_blockingVars

\* Goroutines run, and a server answers, breaks the connection or, for
\* elasticsearch, runs into http.Client.Timeout: a step of a Gather that can be
\* taken is taken, in the behaviours of its model.
Of(m, A) == model = m /\ A

BlockingFairSpec ==
  /\ BlockingSpec
  /\ WF_myVars(Of("mysql", MyProgress))
  /\ \A g \in Gathers : WF_pgVars(Of("postgresql", Gather(g)))
  /\ WF_esVars(Of("elasticsearch", ESProgress))
-------------------------------------------------------------------------------
UnderWay == MyUnderWay \/ PgUnderWay \/ EsUnderWay

\* The Gathers that are called return, or the process ends: there comes a time
\* when none is under way.  No mysql sub-gather leaves the one connection to rows
\* that nobody closes, no postgresql Gather waits for ever for a connection of a
\* pool that another one holds or closed, and no elasticsearch Gather, unless Init
\* was called during it, for a goroutine that was not started or does not end.
EveryGatherReturns == []<>~UnderWay
===============================================================================
