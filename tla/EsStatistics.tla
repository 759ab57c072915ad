----------------------------- MODULE EsStatistics -----------------------------
(***************************************************************************)
(* What internal/handlers/elasticsearch makes of the index statistics of a  *)
(* server: which indices it samples, and which samples the JSON tree of an  *)
(* index gives.  The goroutines around it are in ElasticsearchGather, the   *)
(* walk over the tree in JsonFlattener.                                     *)
(*                                                                          *)
(* Index names are numbers in the order of sort.Strings, so that the most   *)
(* recent ones are the largest.  A JSON value is [t, v]: t is "map" and v a *)
(* function from keys to values, or t is "num", "string", "bool", "null" or *)
(* "list".  A key is a sequence of words, joined by "_" in the code: "a_b"  *)
(* and "b" inside "a" are the same name.                                    *)
(***************************************************************************)
EXTENDS Integers, Sequences, FiniteSets, Functions, TLC, Conversions

CONSTANTS
  EsConfigs,    \* [include, recent, recentText, level]: patterns, number, its class, level
  Names,        \* the indices a server may have
  Matches,      \* pattern -> the indices it matches
  BadPatterns,  \* patterns that glob.Compile refuses
  Trees,        \* the statistics an index may have: [total, shards]
  Flatten(_, _, _, _),  \* FullFlattenJSON, which is recursive: see JsonFlattener
  MaxEsInits    \* bound: calls of Init

ASSUME EsStatsAssumption ==
  /\ Names \subseteq Nat /\ IsFiniteSet(Names) /\ MaxEsInits \in Nat
  /\ \A c \in EsConfigs : c.recent \in Int

VARIABLES
  esConf,       \* IndicesInclude, NumMostRecentIndices and IndicesLevel
  matchers,     \* the patterns in Instance.indexMatchers
  compiling,    \* Init has assigned the fields and not yet the matchers
  esInits,      \* calls of Init so far
  esPc,         \* "out", "answered", "buckets", "done"
  indices,      \* the statistics received: index -> tree
  buckets,      \* categorizedIndexNames: category -> set of indices
  samples,      \* index, or <<>> for other statistics -> the fields pushed
  stale         \* history: Init ran meanwhile, or failed half way before

esIns == <<esConf, matchers, compiling, esInits>>
esStVars == <<esIns, esPc, indices, buckets, samples, stale>>

(***************************************************************************)
(* Init.                                                                    *)
(***************************************************************************)

\* ParseInt gives 0 for a text that is no number.
EsLoaded(c) == [include |-> ParseSlice(c.include), level |-> c.level,
                recent |-> IF ToInt(c.recentText) THEN c.recent ELSE 0]

EsInitAssigns(c) ==
  /\ ~compiling /\ esInits < MaxEsInits
  /\ esInits' = esInits + 1
  /\ esConf' = EsLoaded(c) /\ compiling' = TRUE
  /\ stale' = (stale \/ esPc # "out")
  /\ UNCHANGED <<matchers, esPc, indices, buckets, samples>>

\* compileIndexMatchers: one matcher per distinct pattern.  When one of them
\* cannot be compiled the matchers of the earlier configuration stay.
EsInitCompiles ==
  /\ compiling
  /\ compiling' = FALSE
  /\ matchers' = IF Range(esConf.include) \cap BadPatterns # {} THEN matchers
                 ELSE Range(esConf.include)
  /\ UNCHANGED <<esConf, esInits, esPc, indices, buckets, samples, stale>>

(***************************************************************************)
(* JSONFlattener.                                                           *)
(***************************************************************************)

\* The Fields maps the assignments may leave: the order is that of a Go map.
FieldMaps(assigned) ==
  LET keys == {p[1] : p \in assigned}
  IN  {f \in [keys -> {p[2] : p \in assigned}] : \A k \in keys : <<k, f[k]>> \in assigned}

\* mapShardStatusToCode
ShardCode(state) ==
  CASE state = "UNASSIGNED" -> 1 [] state = "INITIALIZING" -> 2 [] state = "STARTED" -> 3
    [] state = "RELOCATING" -> 4 [] OTHER -> 0

ROUTING_PRIMARY == <<"routing", "primary">>
ROUTING_STATE == <<"routing", "state">>
Num(n) == [t |-> "num", v |-> n]

\* The fields of a shard that are pushed: its state as a code, and numbers.
ShardFields(f) ==
  LET coded == IF ROUTING_STATE \in DOMAIN f /\ f[ROUTING_STATE].t = "string"
               THEN [f EXCEPT ![ROUTING_STATE] = Num(ShardCode(f[ROUTING_STATE].v))] ELSE f
  IN  [k \in {j \in DOMAIN f \ {ROUTING_PRIMARY} : coded[j].t = "num"} |-> coded[k]]

ShardType(f) == IF ROUTING_PRIMARY \in DOMAIN f /\ f[ROUTING_PRIMARY] = [t |-> "bool", v |-> TRUE]
                THEN "primary" ELSE "replica"

(***************************************************************************)
(* The statistics of a server.                                              *)
(***************************************************************************)

EsStInit ==
  /\ esConf = [include |-> <<>>, level |-> "", recent |-> 0] /\ matchers = {}
  /\ compiling = FALSE /\ esInits = 0 /\ esPc = "out"
  /\ indices = <<>> /\ buckets = <<>> /\ samples = <<>> /\ stale = FALSE

\* Gather is called by the loop of a Monitor whose Init succeeded.
Ready == matchers # {}

\* gatherNodeStats leaves out strings and bools, gatherClusterStats strings.
\* Parts that are missing in the answer are null.
OtherStats(tree, convertBool) ==
  /\ Ready /\ esPc = "out" /\ esPc' = "done"
  /\ \E f \in FieldMaps(Flatten(<<>>, tree, FALSE, convertBool)) :
       samples' = <<>> :> [total |-> f, shards |-> <<>>]
  /\ indices' = <<>> :> [total |-> tree, shards |-> <<>>]
  /\ stale' = TRUE
  /\ UNCHANGED <<esIns, buckets>>

\* gatherJSONData has decoded the statistics of the indices.
IndicesAnswered(stats) ==
  /\ Ready /\ esPc = "out" /\ esPc' = "answered"
  /\ indices' = stats
  /\ stale' = (matchers # Range(esConf.include))
  /\ UNCHANGED <<esIns, buckets, samples>>

\* The categories of index n: that of the first matcher that matches, in the
\* order of a Go map, or its own.
CategoriesOf(n) ==
  LET ps == {p \in matchers : n \in Matches[p]}
  IN  IF esConf.include[1] = "_all" THEN {<<"_all">>}
      ELSE IF ps = {} THEN {<<"", n>>} ELSE {<<p>> : p \in ps}

categorizeIndices ==
  /\ esPc = "answered" /\ esPc' = "buckets"
  /\ \E cat \in [DOMAIN indices -> UNION {CategoriesOf(n) : n \in DOMAIN indices}] :
       /\ \A n \in DOMAIN indices : cat[n] \in CategoriesOf(n)
       /\ buckets' = [c \in {cat[n] : n \in DOMAIN indices} |->
                        {n \in DOMAIN indices : cat[n] = c}]
  /\ UNCHANGED <<esIns, indices, samples, stale>>

\* Mutant: the ascending order is read from its start.
MostRecent_Oldest(names) ==
  IF esConf.recent <= 0 THEN names
  ELSE {n \in names : Cardinality({m \in names : m < n}) < esConf.recent}

\* The names gathered of a category: the last ones of the sorted list, or all.
MostRecent(names) ==
  IF esConf.recent <= 0 THEN names
  ELSE {n \in names : Cardinality({m \in names : m > n}) < esConf.recent}

\* gatherSingleIndexStats: strings and bools are kept, except for shards.
IndexSamples(tree) ==
  {[total |-> f, shards |-> s] :
     f \in FieldMaps(Flatten(<<>>, tree.total, TRUE, TRUE)),
     s \in IF esConf.level # "shards" THEN {<<>>}
           ELSE {[i \in DOMAIN tree.shards |-> <<ShardType(fs[i]), ShardFields(fs[i])>>] :
                   fs \in {g \in [DOMAIN tree.shards ->
                                   UNION {FieldMaps(Flatten(<<>>, tree.shards[i], TRUE, TRUE)) :
                                            i \in DOMAIN tree.shards}] :
                             \A i \in DOMAIN tree.shards :
                               g[i] \in FieldMaps(Flatten(<<>>, tree.shards[i], TRUE, TRUE))}}}

\* gatherIndividualIndicesStats: one category.
GatherBucket(c) ==
  /\ esPc = "buckets" /\ c \in DOMAIN buckets
  /\ \E s \in [MostRecent(buckets[c]) ->
               UNION {IndexSamples(indices[n]) : n \in buckets[c]}] :
       /\ \A n \in DOMAIN s : s[n] \in IndexSamples(indices[n])
       /\ samples' = [n \in DOMAIN samples \cup DOMAIN s |->
                       IF n \in DOMAIN samples THEN samples[n] ELSE s[n]]
  /\ buckets' = [b \in DOMAIN buckets \ {c} |-> buckets[b]]
  /\ UNCHANGED <<esIns, esPc, indices, stale>>

EndIndices ==
  /\ esPc = "buckets" /\ DOMAIN buckets = {}
  /\ esPc' = "done"
  /\ UNCHANGED <<esIns, indices, buckets, samples, stale>>
-------------------------------------------------------------------------------
EsStNext ==
  \/ \E c \in EsConfigs : EsInitAssigns(c)
  \/ EsInitCompiles
  \/ \E t \in Trees, b \in BOOLEAN : OtherStats(t.total, b)
  \/ \E names \in SUBSET Names : \E stats \in [names -> Trees] : IndicesAnswered(stats)
  \/ categorizeIndices \/ EndIndices
  \/ \E c \in DOMAIN buckets : GatherBucket(c)
-------------------------------------------------------------------------------
\* The leaves of a tree of depth two, with the names they are joined to.
LeavesOf(tree) ==
  {<<k, tree.v[k]>> : k \in {j \in DOMAIN tree.v : tree.v[j].t # "map"}}
  \cup UNION {{<<k \o j, tree.v[k].v[j]>> : j \in DOMAIN tree.v[k].v} :
                 k \in {i \in DOMAIN tree.v : tree.v[i].t = "map"}}

\* The patterns an index is configured by; a first "_all" stands for all.
Patterns(n) == IF esConf.include[1] = "_all" THEN {"_all"}
               ELSE {p \in Range(esConf.include) : n \in Matches[p]}

\* The indices sampled are the most recent ones, although an index that several
\* patterns match goes to any of them: one that is left out is older than as
\* many sampled ones of a pattern of its own as are asked for, and no pattern
\* gets more.
MostRecentSampled ==
  esPc = "done" /\ ~stale =>
    /\ DOMAIN samples \subseteq DOMAIN indices
    /\ \A n \in DOMAIN indices \ DOMAIN samples : \E p \in Patterns(n) :
         esConf.recent > 0 /\
         Cardinality({m \in DOMAIN samples : m > n /\ p \in Patterns(m)}) >= esConf.recent
    /\ \A p \in Range(esConf.include) : esConf.recent > 0 =>
         Cardinality({m \in DOMAIN samples : Patterns(m) = {p}}) <= esConf.recent

\* What is sampled of an index, a node or the cluster has every number in the
\* statistics under its joined name, and nothing that is not there, whatever
\* the order in which the keys of a JSON object are visited.
FieldsExact ==
  esPc = "done" =>
    \A n \in DOMAIN samples :
      LET leaves == LeavesOf(indices[n].total)  f == samples[n].total IN
      /\ \A k \in DOMAIN f : <<k, f[k]>> \in leaves
      /\ \A l \in leaves : l[2].t = "num" => l[1] \in DOMAIN f
===============================================================================
