--------------------------- MODULE ClickhouseGather ---------------------------
(***************************************************************************)
(* Init and Gather of internal/handlers/clickhouse.                         *)
(*                                                                          *)
(* Gather first makes the list of hosts, from the configuration or from     *)
(* system.clusters of each server, and then asks every host twelve things,  *)
(* each failing for itself: Gather returns nil whatever fails after the     *)
(* list is made.  The list of servers is read once; the other fields of the *)
(* shared Instance are read again for every query, so an Init of another    *)
(* Monitor takes effect in the middle.                                      *)
(*                                                                          *)
(* Metrics is never set, so execCustomQuery is not reached.                 *)
(***************************************************************************)
EXTENDS Naturals, Sequences, FiniteSets, Functions, Conversions

CONSTANTS
  ChConfigs,     \* [servers, auto, include, exclude, user], as in a Monitor
  BadUrls,       \* servers that url.Parse refuses
  Clusters,      \* server -> the rows of its system.clusters, <<cluster, host>>
  UserOf,        \* host -> the user that may query it
  RowsOf,        \* function -> the results it may get, as sequences of labels
  MaxChFaults,   \* bound: queries that fail for no reason of the model's
  MaxChInits     \* bound: calls of Init

\* A server of a Monitor is one url.Parse refuses or one the model knows.
ChServers == BadUrls \cup DOMAIN Clusters

ASSUME ChAssumption ==
  /\ MaxChFaults \in Nat /\ MaxChInits \in Nat
  /\ \A c \in ChConfigs : ParseSlice(c.servers) \in Seq(ChServers)

VARIABLES
  chConf,      \* the fields of the Instance
  nextConf,    \* what the Init in progress still has to assign, <<>> if none
  chInits,     \* calls of Init so far
  chPc,        \* "out", "servers", "hosts", "done", "error" or "crashed"
  todo,        \* the servers not looked at yet
  found,       \* conns: the rows of the last server that are not looked at yet
  connects,    \* <<cluster, host>> for each host found
  queries,     \* the functions still to be called for Head(connects)
  exists,      \* the first query of the current function said yes
  chSamples,   \* pushed: <<metric, label, cluster, host>>
  asked,       \* history: how often a host was asked for a function
  listed,      \* history: servers whose clusters were read
  trouble,     \* history: servers and <<host, function>> that failed
  chOverlap    \* history: Init ran during this Gather

chIns == <<chConf, nextConf, chInits>>
chVars == <<chIns, chPc, todo, found, connects, queries, exists, chSamples, asked, listed, trouble,
            chOverlap>>

(***************************************************************************)
(* The functions, and what each pushes for a row of its result.             *)
(***************************************************************************)

\* metricsFuncs and then commonMetrics, whose order is that of a map.
MetricFuncs == <<"tables", "zookeeper", "replicationQueue", "detachedParts", "dictionaries",
                 "mutations", "disks", "processes", "textLog",
                 "events", "metrics", "asynchronous_metrics">>

tables == {"bytes", "parts", "rows"}
zookeeper == {"root_nodes"}
replicationQueue == {"too_many_tries_replicas", "num_tries_replicas"}
detachedParts == {"detached_parts"}
dictionaries(origin) == IF origin = "" THEN {} ELSE {"is_loaded", "bytes_allocated"}
mutations == {"failed", "running", "completed"}
disks == {"free_space_percent", "keep_free_space_percent"}
processes == {"percentile_50", "percentile_90", "longest_running"}
textLog == {"messages_last_10_min"}
commonMetrics(row) == {row}

Pushes(fn, row) ==
  CASE fn = "tables" -> tables [] fn = "zookeeper" -> zookeeper
    [] fn = "replicationQueue" -> replicationQueue [] fn = "detachedParts" -> detachedParts
    [] fn = "dictionaries" -> dictionaries(row) [] fn = "mutations" -> mutations
    [] fn = "disks" -> disks [] fn = "processes" -> processes [] fn = "textLog" -> textLog
    [] OTHER -> commonMetrics(row)

\* They ask first whether their system table is there.
Gated == {"zookeeper", "replicationQueue", "textLog"}

\* They use row 0: the first two without a look at the length, the others only
\* when there is one.
Unguarded == {"zookeeper", "replicationQueue"}
FirstRow == Unguarded \cup {"detachedParts", "mutations"}

(***************************************************************************)
(* Init.                                                                    *)
(***************************************************************************)

Loaded(c) == [servers |-> ParseSlice(c.servers), auto |-> ParseBool(c.auto),
              include |-> ParseSlice(c.include), exclude |-> ParseSlice(c.exclude), user |-> c.user]

ChInitBegins(c) ==
  /\ nextConf = <<>> /\ chInits < MaxChInits
  /\ chInits' = chInits + 1
  /\ chConf' = [chConf EXCEPT !.servers = ParseSlice(c.servers)]
  /\ nextConf' = <<c>>
  /\ chOverlap' = (chOverlap \/ chPc # "out")
  /\ UNCHANGED <<chPc, todo, found, connects, queries, exists, chSamples, asked, listed, trouble>>

ChInitEnds ==
  /\ nextConf # <<>>
  /\ chConf' = Loaded(nextConf[1]) /\ nextConf' = <<>>
  /\ UNCHANGED <<chInits, chPc, todo, found, connects, queries, exists, chSamples, asked, listed, trouble,
                 chOverlap>>

(***************************************************************************)
(* The list of hosts.                                                       *)
(***************************************************************************)

ChInit ==
  /\ chConf = [servers |-> <<>>, auto |-> FALSE, include |-> <<>>, exclude |-> <<>>, user |-> ""]
  /\ nextConf = <<>> /\ chInits = 0
  /\ chPc = "out" /\ todo = <<>> /\ found = {} /\ connects = <<>> /\ queries = <<>> /\ exists = FALSE
  /\ chSamples = {} /\ asked = [p \in (DOMAIN UserOf) \X Range(MetricFuncs) |-> 0]
  /\ listed = {} /\ trouble = {} /\ chOverlap = FALSE

\* Gather is called by the loop of a Monitor whose Init succeeded.
BeginChGather ==
  /\ chConf.include # <<>>
  /\ chPc = "out" /\ chPc' = "servers"
  /\ todo' = chConf.servers
  /\ chOverlap' = (nextConf # <<>>)
  /\ UNCHANGED <<chIns, found, connects, queries, exists, chSamples, asked, listed, trouble>>

\* One server that cannot be parsed ends Gather, with nothing pushed.
BadServer ==
  /\ chPc = "servers" /\ found = {} /\ todo # <<>> /\ Head(todo) \in BadUrls
  /\ chPc' = "error"
  /\ UNCHANGED <<chIns, todo, found, connects, queries, exists, chSamples, asked, listed, trouble, chOverlap>>

\* WHERE cluster IN (...) OR cluster NOT IN (...): both lists have an element,
\* so both conditions are always there.
clusterIncludeExcludeFilter(cluster) ==
  cluster \in Range(chConf.include) \/ cluster \notin Range(chConf.exclude)

\* The faults that have no reason in the model are bounded.
MayFail == Cardinality(trouble) < MaxChFaults
Authorised(host) == chConf.user = UserOf[host]

\* The next server of the list, with discovery on.
Discovering ==
  chPc = "servers" /\ found = {} /\ todo # <<>> /\ Head(todo) \notin BadUrls /\ chConf.auto

\* The rows of system.clusters come in any order: the query does not sort.  A
\* row that comes again adds nothing.
Discover ==
  /\ Discovering /\ Authorised(Head(todo))
  /\ found' = {r \in Clusters[Head(todo)] : clusterIncludeExcludeFilter(r[1])}
  /\ listed' = listed \cup {Head(todo)}
  /\ todo' = Tail(todo)
  /\ UNCHANGED <<chIns, chPc, connects, queries, exists, chSamples, asked, trouble, chOverlap>>

\* The local function exists.
Exists(host) == \E i \in DOMAIN connects : connects[i][2] = host

\* A host that is not in the list yet is appended; with the same host in two
\* clusters the first row stays.
AddHost(r) ==
  /\ chPc = "servers" /\ r \in found
  /\ found' = found \ {r}
  /\ connects' = IF Exists(r[2]) THEN connects ELSE Append(connects, r)
  /\ UNCHANGED <<chIns, chPc, todo, queries, exists, chSamples, asked, listed, trouble, chOverlap>>

\* A server whose clusters cannot be listed is left out.
DiscoverFails ==
  /\ Discovering
  /\ MayFail \/ ~Authorised(Head(todo))
  /\ todo' = Tail(todo)
  /\ trouble' = trouble \cup {<<Head(todo), "discovery">>}
  /\ UNCHANGED <<chIns, chPc, found, connects, queries, exists, chSamples, asked, listed, chOverlap>>

\* Without discovery the servers are the hosts, as often as they are listed.
AddServer ==
  /\ chPc = "servers" /\ found = {} /\ todo # <<>> /\ Head(todo) \notin BadUrls /\ ~chConf.auto
  /\ connects' = Append(connects, <<"", Head(todo)>>)
  /\ todo' = Tail(todo)
  /\ UNCHANGED <<chIns, chPc, found, queries, exists, chSamples, asked, listed, trouble, chOverlap>>

(***************************************************************************)
(* The queries.                                                             *)
(***************************************************************************)

ListDone ==
  /\ chPc = "servers" /\ found = {} /\ todo = <<>>
  /\ chPc' = "hosts"
  /\ queries' = MetricFuncs
  /\ UNCHANGED <<chIns, todo, found, connects, exists, chSamples, asked, listed, trouble, chOverlap>>

Asking == chPc = "hosts" /\ connects # <<>> /\ queries # <<>>
Host == Head(connects)[2]
Fn == Head(queries)

\* Mutant: an error ends the functions of the host.
NextFn_Stops(failed) ==
  /\ queries' = IF failed THEN <<>> ELSE Tail(queries)
  /\ exists' = FALSE
  /\ asked' = [asked EXCEPT ![<<Host, Fn>>] = @ + 1]

\* The function returns; Gather only logs its error.
NextFn(failed) ==
  /\ queries' = Tail(queries)
  /\ exists' = FALSE
  /\ asked' = [asked EXCEPT ![<<Host, Fn>>] = @ + 1]

ExistsYes ==
  /\ Asking /\ Fn \in Gated /\ ~exists /\ Authorised(Host)
  /\ exists' = TRUE
  /\ UNCHANGED <<chIns, chPc, todo, found, connects, queries, chSamples, asked, listed, trouble, chOverlap>>

ExistsNo ==
  /\ Asking /\ Fn \in Gated /\ ~exists /\ Authorised(Host)
  /\ NextFn(FALSE)
  /\ UNCHANGED <<chIns, chPc, todo, found, connects, chSamples, listed, trouble, chOverlap>>

\* execQuery has filled the slice: one round of pushes per row.
Data(rows) ==
  /\ Asking /\ (Fn \in Gated => exists) /\ Authorised(Host)
  /\ Fn \in Unguarded => rows # <<>>
  /\ chSamples' = chSamples \cup UNION {{<<m, rows[i]>> \o Head(connects) : m \in Pushes(Fn, rows[i])} :
                    i \in IF Fn \in FirstRow THEN {1} \cap DOMAIN rows ELSE DOMAIN rows}
  /\ NextFn(FALSE)
  /\ UNCHANGED <<chIns, chPc, todo, found, connects, listed, trouble, chOverlap>>

\* zkRootNodes[0] or replicationTooManyTries[0] of an empty slice.
FirstRowPanics(rows) ==
  /\ Asking /\ Fn \in Unguarded /\ exists /\ Authorised(Host) /\ rows = <<>>
  /\ chPc' = "crashed"
  /\ UNCHANGED <<chIns, todo, found, connects, queries, exists, chSamples, asked, listed, trouble, chOverlap>>

\* The request, the status, the decoding or a number that is not unsigned.
ExecQueryFails ==
  /\ Asking
  /\ MayFail \/ ~Authorised(Host)
  /\ trouble' = trouble \cup {<<Host, Fn>>}
  /\ NextFn(TRUE)
  /\ UNCHANGED <<chIns, chPc, todo, found, connects, chSamples, listed, chOverlap>>

NextHost ==
  /\ chPc = "hosts" /\ connects # <<>> /\ queries = <<>>
  /\ connects' = Tail(connects) /\ queries' = MetricFuncs
  /\ UNCHANGED <<chIns, chPc, todo, found, exists, chSamples, asked, listed, trouble, chOverlap>>

EndChGather ==
  /\ chPc = "hosts" /\ connects = <<>>
  /\ chPc' = "done"
  /\ UNCHANGED <<chIns, todo, found, connects, queries, exists, chSamples, asked, listed, trouble, chOverlap>>
-------------------------------------------------------------------------------
ChNext ==
  /\ chPc # "crashed"
  /\ \/ \E c \in ChConfigs : ChInitBegins(c)
     \/ ChInitEnds
     \/ BeginChGather \/ BadServer \/ Discover \/ DiscoverFails \/ AddServer \/ ListDone
     \/ \E r \in found : AddHost(r)
     \/ ExistsYes \/ ExistsNo \/ ExecQueryFails \/ NextHost \/ EndChGather
     \/ Asking /\ \E rows \in RowsOf[Fn] : Data(rows) \/ FirstRowPanics(rows)
-------------------------------------------------------------------------------
\* A server whose clusters were read names the host in a cluster that is
\* included or not excluded.
Named(h) ==
  \E s \in listed : \E r \in Clusters[s] :
    r[2] = h /\ (r[1] \in Range(chConf.include) \/ r[1] \notin Range(chConf.exclude))

\* A Gather that no Init overlapped and that found its hosts by discovery read
\* or failed to read every server of its own list and no other, and asked each
\* host they named for all twelve things, exactly once, whatever failed on the
\* way and however many servers and clusters named the host, and no host that
\* is only in clusters which are excluded and not included.
HostsAskedOnce ==
  chPc = "done" /\ chConf.auto /\ ~chOverlap =>
    /\ listed \subseteq Range(chConf.servers)
    /\ \A s \in Range(chConf.servers) : s \in listed \/ <<s, "discovery">> \in trouble
    /\ \A h \in DOMAIN UserOf, fn \in Range(MetricFuncs) :
         asked[<<h, fn>>] = IF Named(h) THEN 1 ELSE 0
===============================================================================
