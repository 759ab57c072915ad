------------------------------ MODULE RedisGather ------------------------------
(***************************************************************************)
(* Gather of internal/handlers/redis.                                       *)
(*                                                                          *)
(* Gather pings, asks INFO ALL and, when that fails or is empty, INFO, and  *)
(* reads the answer line by line.  Which server that is while Init replaces *)
(* the client of the shared Instance is in Collector.                       *)
(*                                                                          *)
(* A line is [kind, name, val]: kind is "section" for a header, "data" for  *)
(* name:value, "other" for a line without a colon or an empty one, and      *)
(* "long" for one that is longer than the buffer of bufio.Scanner, which    *)
(* ends the scan without an error that anybody looks at.  val is a class of *)
(* Conversions, or "pairs" for k=v,k=v, or "hole" for such a list with a    *)
(* part that has no "=".  Commands is never set, so gatherCommandValues     *)
(* does nothing.                                                            *)
(***************************************************************************)
EXTENDS Naturals, Sequences, FiniteSets, Conversions

CONSTANTS
  InfoLines,      \* the lines INFO may have
  MaxLines        \* bound: lines of an answer

ASSUME RdAssumption ==
  /\ \A l \in InfoLines : l.kind \in {"section", "data", "other", "long"}
  /\ MaxLines \in Nat

VARIABLES
  rdPc,       \* "out", "ping", "all", "info", "lines", "done" or "crashed"
  lines,      \* the lines read so far
  ended,      \* the scanner met a line that is too long
  section,    \* the local variable section
  role,       \* tags["replica_role"] is set
  fields,     \* the names in the local map fields
  rdSamples   \* pushed: <<metric, of, role>>, of is a database, command, replica or Blank

rdVars == <<rdPc, lines, ended, section, role, fields, rdSamples>>

\* The empty text: the section before the first header, the label of a sample
\* that is about the whole server.
Blank == ""

RdInit ==
  /\ rdPc = "out" /\ lines = <<>> /\ ended = FALSE /\ section = Blank /\ role = FALSE
  /\ fields = {} /\ rdSamples = {}

Go(from, to) == rdPc = from /\ rdPc' = to
PushAs(metrics, of) == rdSamples' = rdSamples \cup {<<m, of, role>> : m \in metrics}

BeginRedisGather ==
  /\ Go("out", "ping")
  /\ UNCHANGED <<lines, ended, section, role, fields, rdSamples>>

\* The duration of a scrape that fails is pushed by the deferred function.
PingFails ==
  /\ Go("ping", "done")
  /\ PushAs({"ping_use_seconds", "down", "scrape_use_seconds"}, Blank)
  /\ UNCHANGED <<lines, ended, section, role, fields>>

Pinged ==
  /\ Go("ping", "all")
  /\ PushAs({"ping_use_seconds", "up"}, Blank)
  /\ UNCHANGED <<lines, ended, section, role, fields>>

\* INFO ALL is refused or empty, or INFO is answered, maybe with nothing.
InfoAnswer ==
  /\ Go("all", "lines") \/ Go("all", "info") \/ Go("info", "lines")
  /\ UNCHANGED <<lines, ended, section, role, fields, rdSamples>>

InfoFails ==
  /\ Go("info", "done")
  /\ PushAs({"scrape_use_seconds"}, Blank)
  /\ UNCHANGED <<lines, ended, section, role, fields>>

(***************************************************************************)
(* One line of INFO.                                                        *)
(***************************************************************************)

\* Lines that are passed over before their section is looked at.
Skipped(l, sec) ==
  \/ sec = "Server" /\ l.name # "uptime_in_seconds"
  \/ l.name \in {"master_replid", "mem_allocator", "used_memory_human"}

\* Lines with a list of pairs: the metrics and what they are labelled with.
PairLine(l, sec) ==
  \/ sec = "Keyspace" \/ sec = "Commandstats"
  \/ sec = "Replication" /\ l.name = "slave0"

\* The names a list of pairs gives; only the keyspace has no test for "=".
PairMetrics(l, sec) ==
  CASE sec = "Keyspace" -> IF l.val = "pairs" THEN {"keyspace_keys", "keyspace_expires"} ELSE {}
    [] sec = "Commandstats" ->
         IF l.name = "cmdstat_get" /\ l.val \in {"pairs", "hole"}
         THEN {"cmdstat_calls", "cmdstat_usec"} ELSE {}
    [] OTHER -> IF l.val \in {"pairs", "hole"} THEN {"replication_offset", "replication_lag"} ELSE {}

\* A value with a number, with or without "%", or with a word for 0 or 1.
IsField(l) == ToFloat64(l.val)

FieldNames(l) ==
  {l.name} \cup IF l.name = "rdb_last_save_time" /\ l.val = "int"
                THEN {"rdb_last_save_time_elapsed"} ELSE {}

Continue(l) == lines' = Append(lines, l)

Scanning == rdPc = "lines" /\ ~ended /\ Len(lines) < MaxLines

\* A header; one without a name leaves the section as it is.
HeaderLine(l) ==
  /\ Scanning /\ l.kind = "section"
  /\ section' = IF l.name = Blank THEN section ELSE l.name
  /\ Continue(l)
  /\ UNCHANGED <<rdPc, ended, role, fields, rdSamples>>

\* Nothing comes of the line.
NoLine(l) ==
  /\ Scanning
  /\ \/ l.kind = "other"
     \/ l.kind = "data" /\ Skipped(l, section)
     \/ /\ l.kind = "data" /\ ~PairLine(l, section)
        /\ ~IsField(l) /\ l.name # "role"
  /\ Continue(l)
  /\ UNCHANGED <<rdPc, ended, section, role, fields, rdSamples>>

\* Scan returns false for good.
LongLine(l) ==
  /\ Scanning /\ l.kind = "long"
  /\ ended' = TRUE
  /\ Continue(l)
  /\ UNCHANGED <<rdPc, section, role, fields, rdSamples>>

\* Mutant: replica lines are taken for ordinary ones.
ListLine_NoReplicas(l) ==
  /\ Scanning /\ l.kind = "data" /\ ~Skipped(l, section) /\ PairLine(l, section)
  /\ ~(section = "Keyspace" /\ l.val = "hole")
  /\ PushAs(IF section = "Replication" THEN {} ELSE PairMetrics(l, section), l.name)
  /\ Continue(l)
  /\ UNCHANGED <<rdPc, ended, section, role, fields>>

\* gatherKeyspaceLine, gatherCommandstateLine or gatherReplicationLine, with
\* the tags as they are now.
ListLine(l) ==
  /\ Scanning /\ l.kind = "data" /\ ~Skipped(l, section) /\ PairLine(l, section)
  /\ ~(section = "Keyspace" /\ l.val = "hole")
  /\ PushAs(PairMetrics(l, section), l.name)
  /\ Continue(l)
  /\ UNCHANGED <<rdPc, ended, section, role, fields>>

\* kv[1] of a part without "=" in a line that contains "keys=".
KeyspacePanics(l) ==
  /\ Scanning /\ l.kind = "data" /\ ~Skipped(l, section)
  /\ section = "Keyspace" /\ l.val = "hole"
  /\ rdPc' = "crashed"
  /\ Continue(l)
  /\ UNCHANGED <<ended, section, role, fields, rdSamples>>

FieldLine(l) ==
  /\ Scanning /\ l.kind = "data" /\ ~Skipped(l, section) /\ ~PairLine(l, section)
  /\ IsField(l)
  /\ fields' = fields \cup FieldNames(l)
  /\ Continue(l)
  /\ UNCHANGED <<rdPc, ended, section, role, rdSamples>>

\* The tags map is the one of Gather: later samples get the role too.
RoleLine(l) ==
  /\ Scanning /\ l.kind = "data" /\ ~Skipped(l, section) /\ ~PairLine(l, section)
  /\ ~IsField(l) /\ l.name = "role"
  /\ role' = TRUE
  /\ Continue(l)
  /\ UNCHANGED <<rdPc, ended, section, fields, rdSamples>>

\* The end of the answer: the hit rate, the fields and the duration.
EndInfo ==
  /\ Go("lines", "done")
  /\ PushAs(fields \cup {"keyspace_hitrate", "scrape_use_seconds"}, Blank)
  /\ UNCHANGED <<lines, ended, section, role, fields>>
-------------------------------------------------------------------------------
RdNext ==
  /\ rdPc # "crashed"
  /\ \/ BeginRedisGather \/ PingFails \/ Pinged \/ InfoAnswer \/ InfoFails \/ EndInfo
     \/ \E l \in InfoLines : \/ HeaderLine(l) \/ NoLine(l) \/ LongLine(l) \/ ListLine(l)
                             \/ KeyspacePanics(l) \/ FieldLine(l) \/ RoleLine(l)
-------------------------------------------------------------------------------
\* The section line i of the answer belongs to.
SectionOf(i) ==
  LET heads == {j \in 1..i : lines[j].kind = "section" /\ lines[j].name # Blank}
  IN  IF heads = {} THEN Blank ELSE lines[CHOOSE j \in heads : \A k \in heads : k <= j].name

IsRole(i) == /\ lines[i].kind = "data" /\ lines[i].name = "role" /\ ~IsField(lines[i])
             /\ SectionOf(i) \notin {"Server", "Keyspace", "Commandstats"}

RoleBefore(i) == \E j \in 1..(i - 1) : IsRole(j)

\* What is pushed of an INFO answer is determined line by line, by the section
\* of the line and the lines before it only: lists of pairs under their own
\* label, with the role if it came before, numbers under their name, always
\* with the role, "up" never; and only a keyspace list with a hole ends the
\* process.
InfoExact ==
  /\ rdPc = "done" /\ <<"up", Blank, FALSE>> \in rdSamples /\ lines # <<>> =>
       rdSamples =
         {<<m, Blank, FALSE>> : m \in {"ping_use_seconds", "up"}}
         \cup {<<m, Blank, RoleBefore(Len(lines) + 1)>> :
                 m \in {"keyspace_hitrate", "scrape_use_seconds"} \cup
                   UNION {FieldNames(lines[i]) : i \in {j \in DOMAIN lines :
                     /\ lines[j].kind = "data" /\ ~Skipped(lines[j], SectionOf(j))
                     /\ ~PairLine(lines[j], SectionOf(j)) /\ IsField(lines[j])}}}
         \cup UNION {{<<m, lines[i].name, RoleBefore(i)>> : m \in PairMetrics(lines[i], SectionOf(i))} :
                 i \in {j \in DOMAIN lines : /\ lines[j].kind = "data"
                          /\ ~Skipped(lines[j], SectionOf(j)) /\ PairLine(lines[j], SectionOf(j))}}
  /\ rdPc = "crashed" <=> \E i \in DOMAIN lines :
       lines[i].kind = "data" /\ lines[i].val = "hole" /\ SectionOf(i) = "Keyspace"
       /\ ~Skipped(lines[i], "Keyspace")
===============================================================================
