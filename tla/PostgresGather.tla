---------------------------- MODULE PostgresGather ----------------------------
(***************************************************************************)
(* Init and Gather of internal/handlers/postgresql.                         *)
(*                                                                          *)
(* Gather keeps the sql.DB it opens in a field of the Instance that all     *)
(* Monitors of the model share: "ins.db, err = sql.Open", then "defer       *)
(* ins.db.Close()", then ins.db again for every query.  A Gather of another *)
(* Monitor may replace the field between any two of these.  A sql.DB is a   *)
(* pool, limited to one connection, that rows hold until they are closed.   *)
(* sql.Open does not connect and cannot fail: the driver's OpenConnector    *)
(* only keeps the name of the configuration.                                *)
(*                                                                          *)
(* Metrics is never set, so scrapeMetric and parseRow are not reached, and  *)
(* neither is the branch for OutputAddress, Databases or IsPgBouncer.       *)
(***************************************************************************)
EXTENDS Naturals, Sequences, FiniteSets

CONSTANTS
  Addresses,    \* the addresses of the Monitors of this model
  Refused,      \* those that pgx.ParseConfig does not accept
  Unlabelled,   \* those of them that parseURL does not accept either
  Gathers,      \* the calls of Gather
  MaxInits,     \* bound: calls of Init
  MaxRows,      \* bound: rows of a result
  None          \* no address

ASSUME PgAssumption == /\ Unlabelled \subseteq Refused /\ Refused \subseteq Addresses
                       /\ None \notin Addresses /\ IsFiniteSet(Gathers)
                       /\ MaxInits \in Nat /\ MaxRows \in Nat

VARIABLES
  address,      \* Instance.Address
  connConfig,   \* Instance.connConfig
  initing,      \* the Init in progress has set the address
  inits,        \* calls of Init so far
  db,           \* Instance.db: the number of a pool
  pools,        \* the pools opened so far
  pc,           \* Gather -> where it is
  pool,         \* Gather -> the pool its query was sent to
  closes,       \* Gather -> the pool its deferred Close is for, 0 before
  tag,          \* Gather -> the address in its tags
  read,         \* Gather -> rows of the result read so far
  samples,      \* what was pushed
  met           \* history: Gather -> other Gathers that ran while it did

initVars == <<address, connConfig, initing, inits>>
pgVars == <<address, connConfig, initing, inits, db, pools, pc, pool, closes,
            tag, read, samples, met>>

\* A pool has the Gather that opened it (by), its server, whether SetMaxOpenConns
\* was called (limited), whether Close was (closed), and the Gathers whose rows
\* hold a connection of it (busy).  In pc, "ask" and "wait" are the call of Query
\* and what it waits for; 1 is pg_stat_database, 2 is pg_stat_bgwriter.
PgInit ==
  /\ address = None /\ connConfig = None /\ initing = FALSE /\ inits = 0
  /\ db = 0 /\ pools = <<>>
  /\ pc = [g \in Gathers |-> "out"]
  /\ pool = [g \in Gathers |-> 0] /\ closes = [g \in Gathers |-> 0]
  /\ tag = [g \in Gathers |-> None] /\ read = [g \in Gathers |-> 0]
  /\ samples = {} /\ met = [g \in Gathers |-> {}]

Trans(g, from, to) == pc[g] = from /\ pc' = [pc EXCEPT ![g] = to]

(***************************************************************************)
(* Init, called by the one reconcile goroutine while Gathers run.           *)
(***************************************************************************)

\* Init overwrites the address before it looks whether it is usable.
InitAddress(a) ==
  /\ ~initing /\ inits < MaxInits
  /\ inits' = inits + 1 /\ initing' = TRUE
  /\ address' = a
  /\ UNCHANGED <<connConfig, db, pools, pc, pool, closes, tag, read, samples, met>>

\* ParseConfig refuses the address: connConfig keeps the earlier server.
InitRefused ==
  /\ initing /\ address \in Refused
  /\ initing' = FALSE
  /\ UNCHANGED <<address, connConfig, inits, db, pools, pc, pool, closes, tag, read,
                 samples, met>>

\* RegisterConnConfig.
InitRegisters ==
  /\ initing /\ address \notin Refused
  /\ initing' = FALSE
  /\ connConfig' = address
  /\ UNCHANGED <<address, inits, db, pools, pc, pool, closes, tag, read, samples, met>>

(***************************************************************************)
(* Gather.                                                                  *)
(***************************************************************************)

\* SanitizedAddress for the tags of "up".  Its failure is only logged.
Sanitized == IF address \in Unlabelled THEN None ELSE address

Running == {g \in Gathers : pc[g] \notin {"out", "done"}}

\* Gather is called by the loop of a Monitor whose Init succeeded.
BeginGather(g) ==
  /\ connConfig # None
  /\ Trans(g, "out", "open")
  /\ tag' = [tag EXCEPT ![g] = Sanitized]
  /\ met' = [h \in Gathers |-> IF h = g THEN Running
                               ELSE IF h \in Running THEN met[h] \cup {g} ELSE met[h]]
  /\ UNCHANGED <<initVars, db, pools, pool, closes, read, samples>>

\* ins.db, err = sql.Open("pgx", ins.connConfig)
Open(g) ==
  /\ Trans(g, "open", "defer")
  /\ pools' = Append(pools, [by |-> g, server |-> connConfig, limited |-> FALSE,
                             closed |-> FALSE, busy |-> {}])
  /\ db' = Len(pools) + 1
  /\ UNCHANGED <<initVars, pool, closes, tag, read, samples, met>>

\* defer ins.db.Close(): the receiver is the pool that is in the field now.
\* "up" is 1, although nothing was connected yet.
DeferClose(g) ==
  /\ Trans(g, "defer", "limit")
  /\ closes' = [closes EXCEPT ![g] = db]
  /\ samples' = samples \cup {[by |-> g, label |-> tag[g], at |-> pools[db].server]}
  /\ UNCHANGED <<initVars, db, pools, pool, tag, read, met>>

\* SetMaxOpenConns(1) and the other settings of the pool in the field.
SetLimits(g) ==
  /\ Trans(g, "limit", "ask1")
  /\ pools' = [pools EXCEPT ![db].limited = TRUE]
  /\ UNCHANGED <<initVars, db, pool, closes, tag, read, samples, met>>

\* Mutant: each query opens a pool of its own for the current configuration.
Ask_Reopens(g) ==
  /\ Trans(g, "ask1", "wait1") \/ Trans(g, "ask2", "wait2")
  /\ pools' = [pools EXCEPT ![db].server = connConfig]
  /\ pool' = [pool EXCEPT ![g] = db]
  /\ UNCHANGED <<initVars, db, closes, tag, read, samples, met>>

\* ins.db.Query: the call is made on the pool in the field.
Ask(g) ==
  /\ Trans(g, "ask1", "wait1") \/ Trans(g, "ask2", "wait2")
  /\ pool' = [pool EXCEPT ![g] = db]
  /\ UNCHANGED <<initVars, db, pools, closes, tag, read, samples, met>>

\* A connection can be had from pool p now.
Free(p) == ~pools[p].closed /\ (pools[p].limited => pools[p].busy = {})

\* Query has a connection and its result; Columns does not fail on open rows.
Answered(g) ==
  /\ Trans(g, "wait1", "rows1") \/ Trans(g, "wait2", "rows2")
  /\ Free(pool[g])
  /\ pools' = [pools EXCEPT ![pool[g]].busy = @ \cup {g}]
  /\ read' = [read EXCEPT ![g] = 0]
  /\ UNCHANGED <<initVars, db, pool, closes, tag, samples, met>>

\* Mutant: no Close when a query fails.
QueryFails_NoClose(g) ==
  /\ Trans(g, "wait1", "done") \/ Trans(g, "wait2", "done")
  /\ pools[pool[g]].closed \/ Free(pool[g])
  /\ UNCHANGED <<initVars, db, pools, pool, closes, tag, read, samples, met>>

\* The pool is closed, or the server cannot be reached: Gather returns.
QueryFails(g) ==
  /\ Trans(g, "wait1", "close") \/ Trans(g, "wait2", "close")
  /\ pools[pool[g]].closed \/ Free(pool[g])
  /\ UNCHANGED <<initVars, db, pools, pool, closes, tag, read, samples, met>>

\* accRow: the address that labels the row is read again.
AccRow(g) ==
  /\ pc[g] \in {"rows1", "rows2"} /\ read[g] < MaxRows
  /\ address \notin Unlabelled
  /\ read' = [read EXCEPT ![g] = @ + 1]
  /\ samples' = samples \cup {[by |-> g, label |-> Sanitized,
                               at |-> pools[pool[g]].server]}
  /\ UNCHANGED <<initVars, db, pools, pc, pool, closes, tag, met>>

Released(g) == [pools EXCEPT ![pool[g]].busy = @ \ {g}]

\* Scan or SanitizedAddress fails: Gather returns, the deferred rows.Close
\* gives the connection back.
AccRowFails(g) ==
  /\ Trans(g, "rows1", "close") \/ Trans(g, "rows2", "close")
  /\ read[g] < MaxRows
  /\ pools' = Released(g)
  /\ UNCHANGED <<initVars, db, pool, closes, tag, read, samples, met>>

\* Mutant: rows are closed only by the deferred calls.
RowsEnd_KeepsOpen(g) ==
  /\ Trans(g, "rows1", "ask2") \/ Trans(g, "rows2", "close")
  /\ pools' = IF pc[g] = "rows2" THEN Released(g) ELSE pools
  /\ UNCHANGED <<initVars, db, pool, closes, tag, read, samples, met>>

\* rows.Next is false: the rows are closed.  That the connection was lost in
\* the middle looks the same, because rows.Err is not asked.
RowsEnd(g) ==
  /\ Trans(g, "rows1", "ask2") \/ Trans(g, "rows2", "close")
  /\ pools' = Released(g)
  /\ UNCHANGED <<initVars, db, pool, closes, tag, read, samples, met>>

\* The deferred Close of the pool that was in the field at the defer.  Rows
\* that hold a connection of it keep it.
Close(g) ==
  /\ Trans(g, "close", "done")
  /\ pools' = [pools EXCEPT ![closes[g]].closed = TRUE]
  /\ UNCHANGED <<initVars, db, pool, closes, tag, read, samples, met>>
-------------------------------------------------------------------------------
Gather(g) ==
  \/ Open(g) \/ DeferClose(g) \/ SetLimits(g) \/ Ask(g) \/ Answered(g)
  \/ QueryFails(g) \/ AccRow(g) \/ AccRowFails(g) \/ RowsEnd(g) \/ Close(g)

PgNext ==
  \/ \E a \in Addresses : InitAddress(a)
  \/ InitRefused \/ InitRegisters
  \/ \E g \in Gathers : BeginGather(g) \/ Gather(g)
-------------------------------------------------------------------------------
\* A Gather that ran alone leaves no open pool behind, whatever failed in it.
\* (One that met another may: its deferred Close is then for the other's pool.)
NoPoolLeftAlone ==
  \A p \in DOMAIN pools :
    LET g == pools[p].by IN
    pc[g] = "done" /\ met[g] = {} => pools[p].closed /\ pools[p].busy = {}

\* A Gather that ran alone reads everything from one server, though Init may
\* have changed the configuration, and its pool is not closed under it.
OneServerAlone ==
  \A g \in Gathers : met[g] = {} =>
    /\ \A s, t \in samples : s.by = g /\ t.by = g => s.at = t.at
    /\ pc[g] \in {"wait1", "rows1", "wait2", "rows2"} => ~pools[pool[g]].closed

\* A Gather was called and has not returned.
PgUnderWay == \E g \in Gathers : pc[g] \notin {"out", "done"}
===============================================================================
