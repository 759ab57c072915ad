----------------------------- MODULE MysqlGather -----------------------------
(***************************************************************************)
(* Gather of internal/handlers/mysql, with the eleven sub-gathers it calls  *)
(* one after the other, against a server that may refuse a query, break off *)
(* a result or send a row that cannot be scanned, and with the Init of      *)
(* another Monitor of the model changing the shared Instance meanwhile.     *)
(*                                                                          *)
(* The sql.DB is a local variable here, with one connection: the rows of a  *)
(* sub-gather hold it until they are closed.  rows.Err is never asked, so a *)
(* result that breaks off looks like a short one.                           *)
(*                                                                          *)
(* A key is a pair: the group globalStatusRE finds in it ("" for no match)  *)
(* and the rest.  A cell is [key, word, num]: word is "number" for a number *)
(* num, otherwise the text.  Which Monitor measures which server, and the   *)
(* list the samples go to, are in Collector.                                *)
(***************************************************************************)
EXTENDS Integers, Sequences, FiniteSets, SequencesExt

CONSTANTS
  Configs,     \* what Monitors enable: sets of sub-gathers and of Extras
  Answers,     \* sub-gather -> the results the server may have for its query
  Accepted,    \* the replication statements this server knows
  MaxMyInits,  \* bound: calls of Init
  MaxHurt      \* bound: sub-gathers that meet a fault of the server

\* The calls of Gather, in their order.
Subs == <<"status", "variables", "innodb", "compute", "binlog", "byState",
          "byUser", "schema", "table", "system", "slave">>

\* ExtraStatusMetrics and ExtraInnodbMetrics.
Extras == {"extraStatus", "extraInnodb"}

ASSUME MyAssumption ==
  /\ \A c \in Configs : c \subseteq Range(Subs) \cup Extras
  /\ Range(Subs) \ {"compute"} \subseteq DOMAIN Answers
  /\ MaxMyInits \in Nat /\ MaxHurt \in Nat

VARIABLES
  flags,       \* Instance: the sub-gathers that are enabled
  valid,       \* Instance.validMetrics
  filling,     \* the number of sets Init has copied into the new map, 0: no Init
  myInits,     \* calls of Init so far
  at,          \* the sub-gather Gather is in
  myPc,        \* "out", "connect", "ask", "rows", "done" or "crashed"
  try,         \* the replication statement to try next
  conn,        \* the sub-gather whose rows hold the connection, 0 for none
  pending,     \* rows of the result that will still arrive
  got,         \* rows that were scanned
  cache,       \* values kept for the computed metrics
  slist,       \* samples pushed -> how many times
  answer,      \* history: sub-gather -> the result the server had
  hurt,        \* history: sub-gathers whose query failed or that lost a row
  overlapped   \* history: Init ran during this Gather

insVars == <<flags, valid, filling, myInits>>
rowVars == <<try, conn, pending, got, cache>>
myVars == <<insVars, at, myPc, rowVars, slist, answer, hurt, overlapped>>

(***************************************************************************)
(* The names in validMetrics.                                               *)
(***************************************************************************)

PageStates == {"data", "free", "misc", "old", "total", "dirty"}
PoolPages(state) == <<"innodb_buffer_pool_pages", state>>
Pages == {PoolPages(s) : s \in {"data", "dirty", "free", "total"}}
PAGE_SIZE == <<"", "innodb_page_size">>

\* metrics.go: names of the maps InitValidMetrics copies, as far as the answers
\* of the model go.  The other maps that are always copied have none of them.
STATUS_VARS == {<<"com", "select">>, <<"", "threads_running">>}
VARIABLES_VARS == {<<"", "max_connections">>}
REPLICA_VARS == {<<"", "slave_io_running">>, <<"", "seconds_behind_master">>}

\* Copied on request only.
OPTIONAL_STATUS_VARS == {<<"handler", "write">>}
OPTIONAL_INNODB_VARS == {<<"innodb_rows", "read">>,
                         <<"innodb_buffer_pool_pages", "flushed">>} \cup Pages

Copies(c) == <<STATUS_VARS, VARIABLES_VARS, REPLICA_VARS>>
                  \o (IF "extraStatus" \in c THEN <<OPTIONAL_STATUS_VARS>> ELSE <<>>)
                  \o (IF "extraInnodb" \in c THEN <<OPTIONAL_INNODB_VARS>> ELSE <<>>)

AllValid(c) == UNION Range(Copies(c))

(***************************************************************************)
(* Init, called by the reconcile goroutine.                                 *)
(***************************************************************************)

\* The flags, whose assignment precedes the last refusals.
InitFlags(c) ==
  /\ filling = 0 /\ myInits < MaxMyInits
  /\ myInits' = myInits + 1
  /\ flags' = c
  /\ overlapped' = (overlapped \/ myPc # "out")
  /\ UNCHANGED <<at, myPc, rowVars, slist, answer, hurt>>

\* The address is empty or ParseDSN fails: the flags stay, the map too.
InitRefusedAfterFlags(c) == InitFlags(c) /\ UNCHANGED <<valid, filling>>

\* validMetrics = make(...): the loops that run see the new map at once.
InitMakesMap(c) == InitFlags(c) /\ valid' = {} /\ filling' = 1

\* for key := range ... { ins.validMetrics[key] = struct{}{} }
FillMap ==
  /\ filling > 0
  /\ valid' = valid \cup Copies(flags)[filling]
  /\ filling' = IF filling = Len(Copies(flags)) THEN 0 ELSE filling + 1
  /\ UNCHANGED <<flags, myInits, at, myPc, rowVars, slist, answer, hurt, overlapped>>

(***************************************************************************)
(* What the cells of a row become.                                          *)
(***************************************************************************)

\* parseStatus: [ok, value].  A time in one of the two layouts is a number.
parseStatus(cell) ==
  CASE cell.word \in {"yes", "on", "primary"} -> [ok |-> TRUE, value |-> 1]
    [] cell.word \in {"no", "off", "disabled", "connecting", "non-primary",
                      "disconnected"} -> [ok |-> TRUE, value |-> 0]
    [] cell.word \in {"number", "time"} -> [ok |-> TRUE, value |-> cell.num]
    [] OTHER -> [ok |-> FALSE, value |-> 0]

Sample(metric, label, value) == [metric |-> metric, label |-> label, value |-> value]

\* The metric and the label a status variable is pushed under.
StatusSample(key, v) ==
  IF key[1] = "innodb_buffer_pool_pages" /\ key[2] \notin PageStates
  THEN Sample("buffer_pool_page_changes", <<key[2]>>, v)
  ELSE Sample("status", key, v)

\* The names whose values are kept as texts, of each of the two statements.
statusTextItems == {"wsrep_local_state_uuid", "wsrep_cluster_state_uuid",
                    "wsrep_provider_version", "wsrep_evs_repl_latency"}
variablesTextItems == {"innodb_version", "version", "version_comment", "wsrep_cluster_name",
                       "wsrep_provider_options", "tx_isolation", "transaction_isolation"}
textItems(sub) ==
  {<<"", n>> : n \in IF sub = "status" THEN statusTextItems ELSE variablesTextItems}

\* A cell of SHOW STATUS or SHOW VARIABLES is worth a sample.
Counted(sub, cell, names) ==
  cell.key \notin textItems(sub) /\ parseStatus(cell).ok /\ cell.key \in names

CellSample(sub, cell) ==
  IF sub = "status" THEN StatusSample(cell.key, parseStatus(cell).value)
                    ELSE Sample(sub, cell.key, parseStatus(cell).value)

\* Mutant: a status variable of a group is pushed again after its case.
cellSamples_Twice(sub, cell) ==
  IF ~Counted(sub, cell, valid) THEN <<>>
  ELSE IF sub = "status" /\ cell.key[1] # ""
  THEN <<CellSample(sub, cell), Sample("status", cell.key, parseStatus(cell).value)>>
  ELSE <<CellSample(sub, cell)>>

cellSamples(sub, cell) ==
  IF Counted(sub, cell, valid) THEN <<CellSample(sub, cell)>> ELSE <<>>

\* Mutant: a status value is cached only when it is pushed too.
Cached_IfValid(sub, cell) ==
  IF sub \in {"status", "variables"} /\ cell.key \in DOMAIN cache /\ parseStatus(cell).ok
     /\ (sub = "status" => cell.key \in valid)
  THEN [cache EXCEPT ![cell.key] = parseStatus(cell).value] ELSE cache

\* cache[key] = floatVal, for the keys that are used later.
Cached(sub, cell) ==
  IF sub \in {"status", "variables"} /\ cell.key \in DOMAIN cache /\ parseStatus(cell).ok
  THEN [cache EXCEPT ![cell.key] = parseStatus(cell).value] ELSE cache

\* The channel of a replica: MariaDB calls it a connection.
ChannelName(row) ==
  IF row.connection # "" THEN row.connection
  ELSE IF row.channel # "" THEN row.channel ELSE "default"

slaveSample(row, col) ==
  Sample("slave", <<ChannelName(row), col.key[1], col.key[2]>>, parseStatus(col).value)

\* The columns of SHOW SLAVE STATUS that are worth a sample.
SlaveCounted(row, names) ==
  {i \in DOMAIN row.cols : row.cols[i].key \in names /\ parseStatus(row.cols[i]).ok}

slaveSamples(row, names) ==
  [i \in SlaveCounted(row, names) |-> slaveSample(row, row.cols[i])]

\* The numbers that the two patterns find in the lines of the InnoDB status.
innodbSamples(row) == [i \in DOMAIN row.lines |-> Sample("innodb", <<row.lines[i].key>>, row.lines[i].num)]

tableSamples(sub, row) ==
  <<Sample(sub, <<row.key, "index">>, row.index), Sample(sub, <<row.key, "data">>, row.num)>>

countSamples(sub, row) == <<Sample(sub, <<row.key>>, row.num)>>

\* The samples pushed while row is read, for the sub-gathers that do so.
RowSamples(sub, row) ==
  CASE sub \in {"status", "variables"} -> cellSamples(sub, row)
    [] sub = "slave" -> slaveSamples(row, valid)
    [] sub \in {"byUser", "schema"} -> countSamples(sub, row)
    [] sub \in {"table", "system"} -> tableSamples(sub, row)
    [] sub = "innodb" -> innodbSamples(row)
    [] OTHER -> <<>>

\* A server lists a name, a channel and a column of a channel once, and what it
\* says of the pages of the buffer pool is a size and counts of which the free
\* pages are part of the total.
ASSUME MyServerAssumption ==
  /\ \A sub \in DOMAIN Answers : \A all \in Answers[sub] : all \in Seq(Range(all))
  /\ \A sub \in {"status", "variables"} : \A all \in Answers[sub] : \A i, j \in DOMAIN all :
       /\ all[i].key \in STRING \X STRING
       /\ all[i].key = all[j].key => i = j
       /\ all[i].key \in Pages \cup {PAGE_SIZE} => parseStatus(all[i]).value \in Nat
  /\ \A all \in Answers["variables"] : \A i \in DOMAIN all : all[i].key \notin Pages
  /\ \A all \in Answers["status"] : \A i \in DOMAIN all : all[i].key = PoolPages("free") =>
       \E j \in DOMAIN all : /\ all[j].key = PoolPages("total") /\ parseStatus(all[j]).ok
                            /\ parseStatus(all[i]).value <= parseStatus(all[j]).value
  /\ \A all \in Answers["slave"] : \A i, j \in DOMAIN all :
       /\ ChannelName(all[i]) = ChannelName(all[j]) => i = j
       /\ \A c, d \in DOMAIN all[i].cols :
            /\ all[i].cols[c].key \in STRING \X STRING
            /\ all[i].cols[c].key = all[i].cols[d].key => c = d

(***************************************************************************)
(* What a sub-gather pushes after its rows.                                 *)
(***************************************************************************)

\* textItems[name] after the loop.
Text(name) == LET is == {i \in DOMAIN got : got[i].key = <<"", name>>}
              IN  IF is = {} THEN "" ELSE got[CHOOSE i \in is : \A j \in is : j <= i].word

When(cond, s) == IF cond THEN <<s>> ELSE <<>>

EvsNames == <<"min_seconds", "avg_seconds", "max_seconds", "stdev", "sample_size">>

StatusEnd ==
  When(Text("wsrep_local_state_uuid") # "", Sample("galera", <<"info">>, 1)) \o
  (IF Text("wsrep_evs_repl_latency") = "five numbers"
   THEN [i \in 1..5 |-> Sample("galera_latency", <<EvsNames[i]>>, 0)] ELSE <<>>)

\* gcache.size with its unit; 0 when the option is not there.
parseWsrepProviderOptions(opts) ==
  CASE opts = "1" -> 1 [] opts = "1M" -> 1024 * 1024 [] opts = "1G" -> 1024 * 1024 * 1024
    [] OTHER -> 0

VariablesEnd ==
  LET level == IF Text("transaction_isolation") # "" THEN Text("transaction_isolation")
               ELSE Text("tx_isolation")
      opts == Text("wsrep_provider_options")
  IN  <<Sample("version_info", <<Text("version")>>, 1)>>
      \o When(Text("wsrep_cluster_name") # "", Sample("galera", <<"variables">>, 1))
      \o When(opts # "", Sample("galera", <<"gcache">>, parseWsrepProviderOptions(opts)))
      \o When(level # "", Sample("isolation", <<level>>, 1))

Sizes == SumFunction([i \in DOMAIN got |-> got[i].num])

\* With an unknown number of columns neither name nor size is scanned.
BinlogEnd ==
  <<Sample("binlog", <<"size">>, IF \E i \in DOMAIN got : got[i].cols \notin {2, 3} THEN 0 ELSE Sizes),
    Sample("binlog", <<"count">>, Len(got))>>
  \o (IF got = <<>> \/ \E i \in DOMAIN got : got[i].cols \notin {2, 3} THEN <<>>
      ELSE When(Last(got).word = "number", Sample("binlog", <<"number">>, Last(got).file)))

generalThreadStates == {"executing", "idle", "updating", "waiting for lock",
                        "replication master", "other"}
stateStatusMappings == [s \in {"update", "user sleep"} |->
                          IF s = "update" THEN "updating" ELSE "idle"]

\* "waiting for x lock" stands for every state that contains both words.
findThreadState(command, state) ==
  CASE state \in generalThreadStates -> state
    [] state \in DOMAIN stateStatusMappings -> stateStatusMappings[state]
    [] state = "waiting for x lock" -> "waiting for lock"
    [] command = "sleep" /\ state = "" -> "idle"
    [] command = "query" -> "executing"
    [] command = "binlog dump" -> "replication master"
    [] OTHER -> "other"

FoundState(row) == findThreadState(row.word, row.key)

\* Mutant: stateCounts[foundState] = count.
StateCount_Last(s) ==
  LET is == {i \in DOMAIN got : FoundState(got[i]) = s}
  IN  IF is = {} THEN 0 ELSE got[CHOOSE i \in is : \A j \in is : j <= i].num

\* stateCounts[s] after the loop: the counts of the rows of the state.
StateCount(s) ==
  SumFunction([i \in DOMAIN got |-> IF FoundState(got[i]) = s THEN got[i].num ELSE 0])

\* for s, c := range stateCounts: the general states and those found.
ByStateEnd ==
  [s \in generalThreadStates \cup {FoundState(got[i]) : i \in DOMAIN got} |->
     Sample("byState", <<s>>, StateCount(s))]

EndSamples(sub) ==
  CASE sub = "status" -> StatusEnd [] sub = "variables" -> VariablesEnd
    [] sub = "binlog" -> BinlogEnd [] sub = "byState" -> ByStateEnd
    [] OTHER -> <<>>

\* gatherEngineInnodbStatusCompute: names that are not cached count as 0.
Computed ==
  LET P(s) == cache[PoolPages(s)]
      used == P("total") - P("free")
  IN  << Sample("bytes", <<"used">>, used * cache[PAGE_SIZE]),
         Sample("bytes", <<"data">>, P("data") * cache[PAGE_SIZE]),
         Sample("bytes", <<"free">>, P("free") * cache[PAGE_SIZE]),
         Sample("bytes", <<"total">>, P("total") * cache[PAGE_SIZE]),
         Sample("bytes", <<"dirty">>, P("dirty") * cache[PAGE_SIZE]),
         Sample("pages", <<"utilization">>,
                IF P("total") = 0 THEN 0 ELSE (used * 100) \div P("total")) >>
      \o When("extraInnodb" \in flags, Sample("pages", <<"used">>, used))

(***************************************************************************)
(* Gather.                                                                  *)
(***************************************************************************)

MyInit ==
  /\ flags \in Configs /\ valid = AllValid(flags) /\ filling = 0 /\ myInits = 0
  /\ at = 1 /\ myPc = "out" /\ try = 1 /\ conn = 0 /\ pending = <<>> /\ got = <<>>
  /\ cache = [k \in Pages \cup {PAGE_SIZE} |-> 0] /\ slist = <<>>
  /\ answer = [s \in Range(Subs) |-> <<>>] /\ hurt = {} /\ overlapped = FALSE

Times(s) == IF s \in DOMAIN slist THEN slist[s] ELSE 0

\* slist.PushFront of one sample after the other; f is their list.
Push(samples) ==
  \E f \in {samples} :
    slist' = [s \in DOMAIN slist \cup Range(f) |->
                Times(s) + Cardinality({i \in DOMAIN f : f[i] = s})]

BeginMysqlGather ==
  /\ myPc = "out" /\ myPc' = "connect"
  /\ overlapped' = (filling > 0)
  /\ UNCHANGED <<insVars, at, rowVars, slist, answer, hurt>>

\* Open and Ping; when Ping fails only "up" and the duration are pushed.
Ping(up) ==
  /\ myPc = "connect"
  /\ myPc' = IF up = 1 THEN "ask" ELSE "done"
  /\ Push(<<Sample("up", <<>>, up)>> \o When(up = 0, Sample("scrape_use_seconds", <<>>, 0)))
  /\ UNCHANGED <<insVars, at, rowVars, answer, hurt, overlapped>>

Sub == Subs[at]

\* The guard of a sub-gather.  That of the variables is the status flag.
Enabled(sub) == (IF sub = "variables" THEN "status" ELSE sub) \in flags

NextSub ==
  /\ at' = at + 1 /\ myPc' = "ask"
  /\ try' = 1 /\ pending' = <<>> /\ got' = <<>>

Asking == myPc = "ask" /\ at <= Len(Subs)

Skip ==
  /\ Asking /\ ~Enabled(Sub)
  /\ NextSub
  /\ UNCHANGED <<insVars, conn, cache, slist, answer, hurt, overlapped>>

Compute ==
  /\ Asking /\ Sub = "compute" /\ Enabled(Sub)
  /\ Push(Computed)
  /\ NextSub
  /\ UNCHANGED <<insVars, conn, cache, answer, hurt, overlapped>>

\* The statements of querySlaveStatus: two queries, each as it is and with
\* three suffixes, of which the last is empty.
slaveStatements == <<"ALL", "ALL NONBLOCKING", "ALL NOLOCK", "ALL",
                     "SLAVE", "SLAVE NONBLOCKING", "SLAVE NOLOCK", "SLAVE">>

\* db.Query waits for the connection.
CanQuery == Asking /\ Enabled(Sub) /\ Sub # "compute" /\ conn = 0

\* The server or the connection fails the sub-gather, when cond.
Fault(cond) ==
  /\ hurt' = IF cond THEN hurt \cup {Sub} ELSE hurt
  /\ Cardinality(hurt') <= MaxHurt

\* @@log_bin is 0: the binary logs are not asked for.
LogBinOff ==
  /\ CanQuery /\ Sub = "binlog"
  /\ NextSub
  /\ UNCHANGED <<insVars, conn, cache, slist, answer, hurt, overlapped>>

\* The server has the result all, of which n rows arrive.
Query(all, n) ==
  /\ Sub = "slave" => slaveStatements[try] \in Accepted
  /\ myPc' = "rows" /\ conn' = at
  /\ pending' = SubSeq(all, 1, n)
  /\ answer' = [answer EXCEPT ![Sub] = all]
  /\ Fault(n < Len(all))
  /\ UNCHANGED <<insVars, at, try, got, cache, slist, overlapped>>

\* The statement is refused; the next one is tried on the same connection.
TryNext ==
  /\ CanQuery /\ Sub = "slave" /\ try < Len(slaveStatements)
  /\ try' = try + 1
  /\ Fault(slaveStatements[try] \in Accepted)
  /\ UNCHANGED <<insVars, at, myPc, conn, pending, got, cache, slist, answer, overlapped>>

QueryError ==
  /\ CanQuery
  /\ Sub = "slave" => try = Len(slaveStatements)
  /\ Fault(TRUE)
  /\ NextSub
  /\ UNCHANGED <<insVars, conn, cache, slist, answer, overlapped>>

Reading == myPc = "rows" /\ pending # <<>> /\ ~(Sub = "innodb" /\ got # <<>>)

\* The row is looked up in validMetrics.
LooksUp == Sub \in {"slave"} \/ (Sub \in {"status", "variables"}
             /\ Head(pending).key \notin textItems(Sub) /\ parseStatus(Head(pending)).ok)

Row ==
  /\ Reading
  /\ Push(RowSamples(Sub, Head(pending)))
  /\ cache' = Cached(Sub, Head(pending))
  /\ got' = Append(got, Head(pending)) /\ pending' = Tail(pending)
  /\ UNCHANGED <<insVars, at, myPc, try, conn, answer, hurt, overlapped>>

\* A map read during an insert: the runtime may end the process.
MapRace ==
  /\ Reading /\ LooksUp /\ filling > 0
  /\ myPc' = "crashed"
  /\ UNCHANGED <<insVars, at, rowVars, slist, answer, hurt, overlapped>>

Tolerant == {"status", "variables", "slave"}

\* Scan fails: the row is left out, or the sub-gather returns.
ScanError ==
  /\ Reading
  /\ Sub = "binlog" => Head(pending).cols \in {2, 3}
  /\ Fault(TRUE)
  /\ IF Sub \in Tolerant THEN /\ pending' = Tail(pending)
                              /\ UNCHANGED <<at, myPc, try, conn, got>>
                         ELSE NextSub /\ conn' = 0
  /\ UNCHANGED <<insVars, cache, slist, answer, overlapped>>

\* Mutant: the rows of which only the first is read stay open.
RowsDone_KeepsFirst ==
  /\ myPc = "rows" /\ ~Reading
  /\ Push(EndSamples(Sub))
  /\ NextSub /\ conn' = IF pending # <<>> THEN conn ELSE 0
  /\ UNCHANGED <<insVars, cache, answer, hurt, overlapped>>

\* rows.Next is false, or only the first row was wanted: the last samples,
\* and the deferred rows.Close.
RowsDone ==
  /\ myPc = "rows" /\ ~Reading
  /\ Push(EndSamples(Sub))
  /\ NextSub /\ conn' = 0
  /\ UNCHANGED <<insVars, cache, answer, hurt, overlapped>>

\* The deferred Close and the duration.
EndMysqlGather ==
  /\ myPc = "ask" /\ at > Len(Subs)
  /\ myPc' = "done"
  /\ Push(<<Sample("scrape_use_seconds", <<>>, 0)>>)
  /\ UNCHANGED <<insVars, at, rowVars, answer, hurt, overlapped>>
-------------------------------------------------------------------------------
MyGatherStep ==
  \/ \E up \in 0..1 : Ping(up)
  \/ Skip \/ Compute \/ LogBinOff \/ TryNext \/ QueryError
  \/ CanQuery /\ \E all \in Answers[Sub] : \E n \in 0..Len(all) : Query(all, n)
  \/ Row \/ MapRace \/ ScanError \/ RowsDone \/ EndMysqlGather

MyInstance == FillMap \/ \E c \in Configs : InitRefusedAfterFlags(c) \/ InitMakesMap(c)

MyNext == myPc # "crashed" /\ (BeginMysqlGather \/ MyGatherStep \/ MyInstance)

\* What a Gather that has begun does.
MyProgress == myPc # "crashed" /\ MyGatherStep
-------------------------------------------------------------------------------
Value(metric, label) ==
  {s.value : s \in {x \in DOMAIN slist : x.metric = metric /\ x.label = label}}

\* The bytes used are between 0 and the total, unless a row of the status was
\* lost: SHOW STATUS lists the free pages before the total, and a result that
\* breaks off between the two gives a negative number.
BytesSane ==
  \A u \in Value("bytes", <<"used">>), t \in Value("bytes", <<"total">>) :
    (0 <= u /\ u <= t) \/ "status" \in hurt

\* A Gather that no Init overlapped does not crash and loses nothing that was
\* read: every status, variable and replication cell with a valid name gives
\* one sample.
NothingLostAlone ==
  /\ myPc = "crashed" => overlapped
  /\ myPc = "done" /\ ~overlapped =>
       /\ \A sub \in {"status", "variables"} \ hurt : \A i \in DOMAIN answer[sub] :
            Counted(sub, answer[sub][i], valid) =>
              Times(CellSample(sub, answer[sub][i])) = 1
       /\ "slave" \notin hurt => \A i \in DOMAIN answer["slave"] :
            \A c \in SlaveCounted(answer["slave"][i], valid) :
              Times(slaveSample(answer["slave"][i], answer["slave"][i].cols[c])) = 1

\* The processes by state add up to those the server listed: states that
\* findThreadState maps to one are added, and none is left out.
StatesAddUp ==
  myPc = "done" /\ "byState" \notin hurt =>
    SumFunction([s \in {x \in DOMAIN slist : x.metric = "byState"} |-> s.value * slist[s]])
    = SumFunction([i \in DOMAIN answer["byState"] |-> answer["byState"][i].num])

\* Gather was called and has neither returned nor ended the process.
MyUnderWay == myPc \notin {"out", "done", "crashed"}
===============================================================================
