------------------------------ MODULE MCHandlers ------------------------------
(***************************************************************************)
(* Servers and configurations for the TLC run of Handlers.                  *)
(***************************************************************************)
EXTENDS Handlers, JsonFlattener

Line(name, val) == [kind |-> "data", name |-> name, val |-> val]
Header(name) == [kind |-> "section", name |-> name, val |-> ""]

MCInfoLines ==
  {Header(s) : s \in {"Server", "Replication", "Keyspace", "Commandstats", ""}}
  \cup {Line("uptime_in_seconds", "int"), Line("redis_version", "float"),
        Line("rdb_last_save_time", "int"), Line("used_memory_human", "float"),
        Line("rdb_last_bgsave_status", "yes"), Line("role", "text"),
        Line("slave0", "pairs"), Line("db0", "pairs"), Line("db0", "hole"),
        Line("cmdstat_get", "hole")}
  \cup {[kind |-> k, name |-> "", val |-> ""] : k \in {"other", "long"}}

Conf(servers, auto, include, exclude, user) ==
  [servers |-> servers, auto |-> auto, include |-> include, exclude |-> exclude, user |-> user]

MCChConfigs ==
  { Conf(<<"s1", "s2">>, "true", <<>>, <<"c2">>, "u"),
    Conf(<<"s1", "s1">>, "true", <<"c2">>, <<"c1", "c2">>, "u"),
    Conf(<<"s2", "bad", "s1">>, "", <<>>, <<>>, "w") }

MCClusters ==
  [s \in {"s1", "s2"} |-> IF s = "s1" THEN {<<"c1", "h1">>, <<"c2", "h1">>, <<"c2", "h2">>}
                                      ELSE {<<"c3", "h1">>}]

MCUserOf == [h \in {"s1", "s2", "h1", "h2"} |-> IF h = "s2" THEN "w" ELSE "u"]

MCRowsOf ==
  [f \in Range(MetricFuncs) |->
     CASE f \in Unguarded -> {<<>>, <<"">>}
       [] f = "dictionaries" -> {<<"", "d">>}
       [] f \in {"tables", "disks", "processes", "textLog"} -> {<<"a", "b">>}
       [] OTHER -> {<<"x">>}]

EsConf(include, recent, text, level) ==
  [include |-> include, recent |-> recent, recentText |-> text, level |-> level]

MCEsConfigs ==
  { EsConf(<<"logs*", "log*">>, 1, "int", ""), EsConf(<<"logs*">>, 2, "int", "shards"),
    EsConf(<<"logs*", "bad">>, 1, "int", ""), EsConf(<<"_all">>, 1, "hex", ""),
    EsConf(<<"_all">>, 2, "int", ""), EsConf(<<>>, 1, "int", "") }

MCMatches == [p \in {"logs*", "log*", "_all", ""} |->
                CASE p = "logs*" -> {2, 3, 4} [] p = "log*" -> {1, 2, 3} [] OTHER -> {}]

Leaf(t, v) == [t |-> t, v |-> v]
Map(m) == [t |-> "map", v |-> m]

\* "a_b" and "b" inside "a" collide.
Collides == Map(<<"a", "b">> :> Num(1) @@ <<"a">> :> Map(<<"b">> :> Num(2) @@ <<"c">> :> Leaf("string", "x")))
Flat == Map(<<"a">> :> Num(3) @@ <<"l">> :> Leaf("list", <<>>) @@ <<"n">> :> Leaf("null", <<>>))
Shard(p) == Map(<<"routing">> :> Map(<<"primary">> :> Leaf("bool", p) @@ <<"state">> :> Leaf("string", "STARTED"))
                @@ <<"docs">> :> Num(4))

MCTrees == {[total |-> Collides, shards |-> <<Shard(FALSE)>>],
            [total |-> Flat, shards |-> <<Shard(TRUE), Shard(FALSE)>>]}
===============================================================================
