-------------------------- MODULE MCBlockingHandlers --------------------------
(***************************************************************************)
(* A MySQL server and configurations for the TLC run of BlockingHandlers.   *)
(***************************************************************************)
EXTENDS BlockingHandlers

N(group, name, n) == [key |-> <<group, name>>, word |-> "number", num |-> n]
T(name, word) == [key |-> <<"", name>>, word |-> word, num |-> 0]
Pool(state, n) == N("innodb_buffer_pool_pages", state, n)

\* SHOW STATUS and SHOW VARIABLES list names in alphabetical order.
StatusRows ==
  { <<N("com", "select", 7), Pool("free", 2), Pool("total", 3)>>,
    <<N("handler", "write", 6), Pool("flushed", 5), T("wsrep_evs_repl_latency", "five numbers")>> }

VariableRows ==
  { <<N("", "innodb_page_size", 2), N("", "max_connections", 9)>>,
    <<T("tx_isolation", "REPEATABLE-READ"), T("wsrep_provider_options", "1M")>> }

Process(command, state, n) == [key |-> state, word |-> command, num |-> n]
Log(file, size, cols) == [word |-> "number", num |-> size, file |-> file, cols |-> cols]
Lag == [key |-> <<"", "seconds_behind_master">>, word |-> "", num |-> 0]
SlaveIO(word, n) == [key |-> <<"", "slave_io_running">>, word |-> word, num |-> n]

MCAnswers ==
  [s \in {"status", "variables", "innodb", "binlog", "byState", "byUser", "schema",
          "table", "system", "slave"} |->
   CASE s = "status" -> StatusRows
     [] s = "variables" -> VariableRows
     [] s = "innodb" -> {<<[lines |-> <<[key |-> "inside", num |-> 1], [key |-> "views", num |-> 2]>>],
                           [lines |-> <<[key |-> "inside", num |-> 8]>>]>>}
     [] s = "binlog" -> {<<Log(1, 3, 2), Log(2, 4, 2)>>, <<Log(1, 3, 4)>>}
     [] s = "byState" -> {<<Process("query", "update", 2), Process("query", "", 1),
                            Process("query", "user sleep", 1), Process("sleep", "", 4)>>}
     [] s \in {"byUser", "schema"} -> {<<[key |-> "u", num |-> 3]>>}
     [] s \in {"table", "system"} -> {<<[key |-> "t", num |-> 5, index |-> 6]>>}
     [] s = "slave" -> {<<[connection |-> "", channel |-> "", cols |-> <<SlaveIO("connecting", 0), Lag>>],
                          [connection |-> "c2", channel |-> "", cols |-> <<SlaveIO("yes", 0)>>]>>}]

MCConfigs == {{"status", "compute", "extraStatus", "extraInnodb"}, {"innodb", "binlog", "byState"},
              {"byUser", "schema", "table", "system", "slave"}}

\* Two elasticsearch Monitors: the servers of a cluster, and one of them alone.
CONSTANTS s1, s2
MCEsConfigs ==
  {[servers |-> {s1, s2}, local |-> TRUE, health |-> FALSE, stats |-> TRUE],
   [servers |-> {s2}, local |-> TRUE, health |-> TRUE, stats |-> FALSE]}
===============================================================================
