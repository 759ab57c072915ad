---------------------------- MODULE HandlersProofs ----------------------------
(***************************************************************************)
(* What the Gathers of redis and clickhouse and the choice of indices of    *)
(* elasticsearch promise, for every INFO answer, every set of servers and   *)
(* clusters and every set of indices and patterns.                          *)
(***************************************************************************)
EXTENDS Handlers, SequenceTheorems, FiniteSetTheorems, TLAPS

(***************************************************************************)
(* redis.                                                                   *)
(***************************************************************************)

RdTypes ==
  /\ lines \in Seq(InfoLines)
  /\ rdPc \in {"out", "ping", "all", "info", "lines", "done", "crashed"}

\* Line i gives a field, or a list of pairs, or ends the process.
GivesField(i) ==
  /\ lines[i].kind = "data" /\ ~Skipped(lines[i], SectionOf(i))
  /\ ~PairLine(lines[i], SectionOf(i)) /\ IsField(lines[i])
GivesPairs(i) ==
  /\ lines[i].kind = "data" /\ ~Skipped(lines[i], SectionOf(i))
  /\ PairLine(lines[i], SectionOf(i))
Hole(i) ==
  /\ lines[i].kind = "data" /\ lines[i].val = "hole" /\ SectionOf(i) = "Keyspace"
  /\ ~Skipped(lines[i], "Keyspace")

\* The samples of line i when it is a list of pairs, and those of the ping.
PairSamples(i) ==
  {<<m, lines[i].name, RoleBefore(i)>> : m \in PairMetrics(lines[i], SectionOf(i))}
PingSamples == {<<m, Blank, FALSE>> : m \in {"ping_use_seconds", "up"}}

\* Before the answer nothing was read.
NothingRead == rdPc \in {"out", "ping", "all", "info"} => lines = <<>>

\* The local variables are what the lines read so far make of them.
Section == section = SectionOf(Len(lines))
Role == role = RoleBefore(Len(lines) + 1)

\* Among the headers that precede a line there is a last one.
HeadersTo(i) == {j \in 1..i : lines[j].kind = "section" /\ lines[j].name # Blank}
LastHeader ==
  \A i \in 0..Len(lines) :
    HeadersTo(i) = {} \/ \E j \in HeadersTo(i) : \A k \in HeadersTo(i) : k <= j

\* The names in the map fields are those the lines have given.
Fields ==
  \A x : x \in fields <=> \E i \in DOMAIN lines : GivesField(i) /\ x \in FieldNames(lines[i])

\* What was pushed, by the ping and by the lines.
Pushed ==
  /\ rdPc \in {"out", "ping"} => rdSamples = {}
  /\ rdPc \in {"all", "info", "lines"} =>
       \A x : x \in rdSamples <=> x \in PingSamples
                 \/ \E i \in DOMAIN lines : GivesPairs(i) /\ x \in PairSamples(i)

\* What EndInfo adds to it.
Exact ==
  rdPc = "done" /\ lines # <<>> =>
    \A x : x \in rdSamples <=>
      \/ x \in PingSamples
      \/ \E i \in DOMAIN lines : GivesPairs(i) /\ x \in PairSamples(i)
      \/ \E m \in fields \cup {"keyspace_hitrate", "scrape_use_seconds"} :
           x = <<m, Blank, RoleBefore(Len(lines) + 1)>>

Panics == rdPc = "crashed" <=> \E i \in DOMAIN lines : Hole(i)

RdInv ==
  /\ RdTypes /\ NothingRead /\ Section /\ Role /\ LastHeader /\ Fields
  /\ Pushed /\ Exact /\ Panics

LEMMA RdInitInv == RdInit => RdInv
<1> SUFFICES ASSUME RdInit PROVE RdInv
  OBVIOUS
<1>1. lines = <<>> /\ rdPc = "out" /\ section = Blank /\ DOMAIN lines = {} /\ Len(lines) = 0
  <2>1. lines = <<>> /\ rdPc = "out" /\ section = Blank
    BY DEF RdInit
  <2>2. DOMAIN <<>> = {} /\ Len(<<>>) = 0
    OBVIOUS
  <2> QED
    BY <2>1, <2>2
<1>2. RdTypes /\ NothingRead /\ Pushed /\ Exact /\ Panics
  BY <1>1, EmptySeq DEF RdInit, RdTypes, NothingRead, Pushed, Exact, Panics
<1>3. Fields
  BY <1>1 DEF RdInit, Fields
<1>4. Section
  <2>1. SectionOf(0) = Blank
    BY DEF SectionOf
  <2> QED
    BY <1>1, <2>1 DEF Section
<1>5. Role
  <2>1. ~RoleBefore(1) /\ RoleBefore(1) \in BOOLEAN
    BY DEF RoleBefore
  <2>2. role = FALSE
    BY DEF RdInit
  <2>3. RoleBefore(1) = FALSE
    BY <2>1
  <2>4. Len(lines) + 1 = 1
    BY <1>1
  <2> QED
    BY <2>2, <2>3, <2>4 DEF Role
<1>6. LastHeader
  BY <1>1 DEF LastHeader, HeadersTo
<1> QED
  BY <1>2, <1>3, <1>4, <1>5, <1>6 DEF RdInv

\* Steps that read no line and leave the local variables alone keep what is
\* said of them.
LEMMA SameLines ==
  ASSUME RdInv, UNCHANGED <<lines, section, role, fields>>
  PROVE  /\ Section' /\ Role' /\ LastHeader' /\ Fields'
         /\ \A i : (GivesPairs(i) <=> GivesPairs(i)') /\ PairSamples(i)' = PairSamples(i)
                   /\ (Hole(i) <=> Hole(i)')
         /\ RoleBefore(Len(lines) + 1)' = RoleBefore(Len(lines) + 1)
<1>1. \A i : SectionOf(i)' = SectionOf(i) /\ RoleBefore(i)' = RoleBefore(i)
  BY DEF SectionOf, RoleBefore, IsRole
<1>2. \A i : (GivesPairs(i) <=> GivesPairs(i)') /\ (GivesField(i) <=> GivesField(i)')
             /\ (Hole(i) <=> Hole(i)')
  BY <1>1 DEF GivesPairs, GivesField, Hole
<1>3. \A i : PairSamples(i)' = PairSamples(i)
  BY <1>1 DEF PairSamples
<1>4. Section' /\ Fields' 
  BY <1>1, <1>2 DEF RdInv, Section, Fields
<1>5. RoleBefore(Len(lines) + 1)' = RoleBefore(Len(lines) + 1)
  BY DEF RoleBefore, IsRole, SectionOf
<1>6. Role'
  BY <1>5 DEF RdInv, Role
<1>7. LastHeader'
  BY DEF RdInv, LastHeader, HeadersTo
<1> QED
  BY <1>2, <1>3, <1>4, <1>5, <1>6, <1>7

\* Ping, the INFO commands and the end of the answer.
LEMMA RequestStep ==
  ASSUME RdInv,
         BeginRedisGather \/ PingFails \/ Pinged \/ InfoAnswer \/ InfoFails \/ EndInfo
  PROVE  RdInv'
<1>0. /\ RdTypes /\ NothingRead /\ Section /\ Role /\ Fields /\ Pushed /\ Exact /\ Panics
  BY DEF RdInv
<1>1. /\ UNCHANGED <<lines, section, role, fields>>
      /\ rdPc \notin {"done", "crashed"} /\ rdPc' # "crashed"
      /\ RdTypes' /\ NothingRead'
  BY <1>0 DEF BeginRedisGather, PingFails, Pinged, InfoAnswer, InfoFails, EndInfo, Go,
     RdTypes, NothingRead
<1>2. /\ Section' /\ Role' /\ LastHeader' /\ Fields'
      /\ \A i : (GivesPairs(i) <=> GivesPairs(i)') /\ PairSamples(i)' = PairSamples(i)
                /\ (Hole(i) <=> Hole(i)')
      /\ RoleBefore(Len(lines) + 1)' = RoleBefore(Len(lines) + 1)
  BY <1>1, SameLines
<1>3. Panics'
  BY <1>0, <1>1, <1>2 DEF Panics
<1>4. PingSamples' = PingSamples
  BY DEF PingSamples
<1>5. Pushed'
  <2>1. CASE BeginRedisGather
    BY <1>0, <2>1 DEF Pushed, BeginRedisGather, Go
  <2>2. CASE Pinged
    <3>1. lines = <<>> /\ role = FALSE /\ rdPc' = "all" /\ rdSamples = {}
      <4>1. lines = <<>> /\ rdPc' = "all" /\ rdSamples = {}
        BY <1>0, <2>2 DEF Pinged, Go, NothingRead, Pushed
      <4>2. ~RoleBefore(1) /\ RoleBefore(1) \in BOOLEAN
        BY DEF RoleBefore
      <4> QED
        BY <1>0, <4>1, <4>2 DEF Role
    <3>2. rdSamples' = PingSamples
      BY <2>2, <3>1 DEF Pinged, PushAs, PingSamples
    <3> QED
      BY <1>1, <1>4, <3>1, <3>2 DEF Pushed
  <2>3. CASE InfoAnswer
    BY <1>0, <1>1, <1>2, <1>4, <2>3 DEF Pushed, InfoAnswer, Go
  <2>4. CASE PingFails \/ InfoFails \/ EndInfo
    BY <2>4 DEF Pushed, PingFails, InfoFails, EndInfo, Go
  <2> QED
    BY <2>1, <2>2, <2>3, <2>4
<1>6. Exact'
  <2>1. CASE EndInfo
    <3>1. \A x : x \in rdSamples' <=>
            \/ x \in rdSamples
            \/ \E m \in fields \cup {"keyspace_hitrate", "scrape_use_seconds"} :
                 x = <<m, Blank, role>>
      BY <2>1 DEF EndInfo, PushAs
    <3>2. role = RoleBefore(Len(lines) + 1)
      BY <1>0 DEF Role
    <3>3. \A x : x \in rdSamples <=> x \in PingSamples
                 \/ \E i \in DOMAIN lines : GivesPairs(i) /\ x \in PairSamples(i)
      BY <1>0, <2>1 DEF EndInfo, Go, Pushed
    <3> QED
      BY <1>1, <1>2, <1>4, <3>1, <3>2, <3>3 DEF Exact
  <2>2. CASE ~EndInfo
    <3>1. lines' = <<>> \/ rdPc' # "done"
      BY <1>0, <1>1, <2>2 DEF BeginRedisGather, PingFails, Pinged, InfoAnswer, InfoFails,
         Go, NothingRead
    <3> QED
      BY <3>1 DEF Exact
  <2> QED
    BY <2>1, <2>2
<1> QED
  BY <1>1, <1>2, <1>3, <1>5, <1>6 DEF RdInv

\* One more line: what is said of the lines before it stays, and its own part
\* depends on the section and the role before it.
LEMMA LineAdded ==
  ASSUME RdInv, NEW l \in InfoLines, Continue(l), NEW n, n = Len(lines)
  PROVE  /\ lines' \in Seq(InfoLines) /\ n \in Nat /\ Len(lines') = n + 1
         /\ DOMAIN lines = 1..n /\ DOMAIN lines' = 1..n + 1
         /\ lines'[n + 1] = l
         /\ \A i \in 1..n : /\ lines'[i] = lines[i] /\ SectionOf(i)' = SectionOf(i)
                            /\ RoleBefore(i)' = RoleBefore(i)
         /\ SectionOf(n + 1)' = IF l.kind = "section" /\ l.name # Blank THEN l.name ELSE section
         /\ RoleBefore(n + 1)' = role
         /\ LastHeader'
<1>1. /\ lines \in Seq(InfoLines) /\ lines' = Append(lines, l)
      /\ section = SectionOf(n) /\ role = RoleBefore(n + 1)
  BY DEF RdInv, RdTypes, Section, Role, Continue
<1>2. /\ lines' \in Seq(InfoLines) /\ n \in Nat /\ Len(lines') = n + 1
      /\ DOMAIN lines = 1..n /\ DOMAIN lines' = 1..n + 1
      /\ lines'[n + 1] = l /\ \A i \in 1..n : lines'[i] = lines[i]
  BY <1>1, AppendProperties, LenProperties
<1> DEFINE Top(S) == CHOOSE j \in S : \A k \in S : k <= j
<1>3. \A i : /\ SectionOf(i) = IF HeadersTo(i) = {} THEN Blank ELSE lines[Top(HeadersTo(i))].name
             /\ SectionOf(i)' = IF HeadersTo(i)' = {} THEN Blank
                                ELSE lines'[Top(HeadersTo(i)')].name
  BY DEF SectionOf, HeadersTo
<1>4. ASSUME NEW i \in 0..n, HeadersTo(i) # {}
      PROVE  Top(HeadersTo(i)) \in 1..n
  <2>1. \E j \in HeadersTo(i) : \A k \in HeadersTo(i) : k <= j
    BY <1>4 DEF RdInv, LastHeader
  <2>2. Top(HeadersTo(i)) \in HeadersTo(i)
    BY <2>1
  <2>3. HeadersTo(i) \subseteq 1..n
    BY <1>2 DEF HeadersTo
  <2> QED
    BY <2>2, <2>3
<1>5. ASSUME NEW i \in 0..n PROVE HeadersTo(i)' = HeadersTo(i) /\ SectionOf(i)' = SectionOf(i)
  <2>1. HeadersTo(i)' = HeadersTo(i)
    BY <1>2 DEF HeadersTo
  <2> HIDE DEF Top
  <2> QED
    BY <1>2, <1>3, <1>4, <2>1
<1>6. /\ SectionOf(n + 1)' = IF l.kind = "section" /\ l.name # Blank THEN l.name ELSE section
      /\ HeadersTo(n + 1)' = {} \/ \E j \in HeadersTo(n + 1)' : \A k \in HeadersTo(n + 1)' : k <= j
  <2>1. CASE l.kind = "section" /\ l.name # Blank
    <3>1. n + 1 \in HeadersTo(n + 1)' /\ \A k \in HeadersTo(n + 1)' : k <= n + 1 /\ k \in Nat
      BY <1>2, <2>1 DEF HeadersTo
    <3>2. Top(HeadersTo(n + 1)') = n + 1
      BY <1>2, <3>1
    <3> HIDE DEF Top
    <3> QED
      BY <1>2, <1>3, <2>1, <3>1, <3>2
  <2>2. CASE ~(l.kind = "section" /\ l.name # Blank)
    <3>1. HeadersTo(n + 1)' = HeadersTo(n)
      BY <1>2, <2>2 DEF HeadersTo
    <3>2. HeadersTo(n) = {} \/ \E j \in HeadersTo(n) : \A k \in HeadersTo(n) : k <= j
      BY <1>2 DEF RdInv, LastHeader
    <3> HIDE DEF Top
    <3> QED
      BY <1>1, <1>2, <1>3, <1>4, <2>2, <3>1, <3>2
  <2> QED
    BY <2>1, <2>2
<1>7. \A i \in 1..n : IsRole(i)' <=> IsRole(i)
  BY <1>2, <1>5 DEF IsRole, IsField
<1>8. ASSUME NEW i \in 1..n + 1 PROVE RoleBefore(i)' = RoleBefore(i)
  <2>1. \A j \in 1..i - 1 : IsRole(j)' <=> IsRole(j)
    BY <1>2, <1>7
  <2>2. RoleBefore(i)' <=> RoleBefore(i)
    BY <2>1 DEF RoleBefore
  <2>3. RoleBefore(i)' \in BOOLEAN /\ RoleBefore(i) \in BOOLEAN
    BY DEF RoleBefore
  <2> QED
    BY <2>2, <2>3
<1>9. RoleBefore(n + 1)' = role
  <2>1. n + 1 \in 1..n + 1
    BY <1>2
  <2> QED
    BY <1>1, <1>8, <2>1
<1>10. LastHeader'
  <2> SUFFICES ASSUME NEW i \in 0..n + 1
               PROVE  HeadersTo(i)' = {} \/ \E j \in HeadersTo(i)' : \A k \in HeadersTo(i)' : k <= j
    BY <1>2 DEF LastHeader
  <2>1. CASE i = n + 1
    BY <1>6, <2>1
  <2>2. CASE i # n + 1
    <3>1. i \in 0..n
      BY <1>2, <2>2
    <3> QED
      BY <1>5, <3>1 DEF RdInv, LastHeader
  <2> QED
    BY <2>1, <2>2
<1>11. ASSUME NEW i \in 1..n
       PROVE  lines'[i] = lines[i] /\ SectionOf(i)' = SectionOf(i) /\ RoleBefore(i)' = RoleBefore(i)
  <2>1. i \in 0..n /\ i \in 1..n + 1
    BY <1>2
  <2> QED
    BY <1>2, <1>5, <1>8, <2>1
<1> QED
  BY <1>2, <1>6, <1>9, <1>10, <1>11

\* The line is what the guards of its action say.
LEMMA LineRead ==
  ASSUME NEW l \in InfoLines,
         \/ HeaderLine(l) \/ NoLine(l) \/ LongLine(l) \/ ListLine(l)
         \/ KeyspacePanics(l) \/ FieldLine(l) \/ RoleLine(l)
  PROVE  /\ Continue(l) /\ rdPc = "lines"
         /\ section' = IF l.kind = "section" /\ l.name # Blank THEN l.name ELSE section
         /\ rdPc' = IF KeyspacePanics(l) THEN "crashed" ELSE rdPc
         /\ IF FieldLine(l) THEN fields' = fields \cup FieldNames(l) ELSE fields' = fields
         /\ FieldLine(l) <=> /\ l.kind = "data" /\ ~Skipped(l, section)
                             /\ ~PairLine(l, section) /\ IsField(l)
         /\ IF ListLine(l) THEN PushAs(PairMetrics(l, section), l.name)
                           ELSE rdSamples' = rdSamples
         /\ ListLine(l) \/ KeyspacePanics(l) <=>
              l.kind = "data" /\ ~Skipped(l, section) /\ PairLine(l, section)
         /\ KeyspacePanics(l) <=> /\ l.kind = "data" /\ l.val = "hole" /\ section = "Keyspace"
                                  /\ ~Skipped(l, "Keyspace")
         /\ RoleLine(l) => role' = TRUE
         /\ ~RoleLine(l) => role' = role
         /\ RoleLine(l) <=> /\ l.kind = "data" /\ l.name = "role" /\ ~IsField(l)
                            /\ section \notin {"Server", "Keyspace", "Commandstats"}
<1> USE DEF HeaderLine, NoLine, LongLine, ListLine, KeyspacePanics, FieldLine, RoleLine,
            Scanning, Continue, Skipped, PairLine
<1>1. CASE HeaderLine(l)
  BY <1>1
<1>2. CASE NoLine(l)
  BY <1>2
<1>3. CASE LongLine(l)
  BY <1>3
<1>4. CASE ListLine(l)
  BY <1>4
<1>5. CASE KeyspacePanics(l)
  BY <1>5
<1>6. CASE FieldLine(l)
  BY <1>6
<1>7. CASE RoleLine(l)
  BY <1>7
<1> HIDE DEF HeaderLine, NoLine, LongLine, ListLine, KeyspacePanics, FieldLine, RoleLine,
             Scanning, Continue, Skipped, PairLine
<1> QED
  BY <1>1, <1>2, <1>3, <1>4, <1>5, <1>6, <1>7

\* A line of the answer.
LEMMA LineStep ==
  ASSUME RdInv, NEW l \in InfoLines,
         \/ HeaderLine(l) \/ NoLine(l) \/ LongLine(l) \/ ListLine(l)
         \/ KeyspacePanics(l) \/ FieldLine(l) \/ RoleLine(l)
  PROVE  RdInv'
<1>0. RdTypes /\ Section /\ Role /\ Fields /\ Pushed /\ Panics
  BY DEF RdInv
<1>1. PICK n : n = Len(lines)
  OBVIOUS
<1>2. /\ Continue(l) /\ rdPc = "lines"
      /\ section' = IF l.kind = "section" /\ l.name # Blank THEN l.name ELSE section
      /\ rdPc' = IF KeyspacePanics(l) THEN "crashed" ELSE rdPc
  BY LineRead
<1>3. /\ lines' \in Seq(InfoLines) /\ n \in Nat /\ Len(lines') = n + 1
      /\ DOMAIN lines = 1..n /\ DOMAIN lines' = 1..n + 1
      /\ lines'[n + 1] = l
      /\ \A i \in 1..n : /\ lines'[i] = lines[i] /\ SectionOf(i)' = SectionOf(i)
                         /\ RoleBefore(i)' = RoleBefore(i)
      /\ SectionOf(n + 1)' = IF l.kind = "section" /\ l.name # Blank THEN l.name ELSE section
      /\ RoleBefore(n + 1)' = role
      /\ LastHeader'
  BY <1>1, <1>2, LineAdded
\* What is said of the earlier lines, and of the new one.
<1>4. \A i \in 1..n : /\ GivesField(i)' <=> GivesField(i)
                      /\ GivesPairs(i)' <=> GivesPairs(i)
                      /\ Hole(i)' <=> Hole(i)
                      /\ PairSamples(i)' = PairSamples(i)
  <2>1. \A i \in 1..n : /\ GivesField(i)' <=> GivesField(i)
                        /\ GivesPairs(i)' <=> GivesPairs(i)
                        /\ Hole(i)' <=> Hole(i)
    BY <1>3 DEF GivesField, GivesPairs, Hole
  <2>2. \A i \in 1..n : PairSamples(i)' = PairSamples(i)
    BY <1>3 DEF PairSamples
  <2> QED
    BY <2>1, <2>2
<1>5. /\ GivesField(n + 1)' <=> FieldLine(l)
      /\ GivesPairs(n + 1)' <=> ListLine(l) \/ KeyspacePanics(l)
      /\ Hole(n + 1)' <=> KeyspacePanics(l)
      /\ IsRole(n + 1)' <=> RoleLine(l)
  <2>1. l.kind = "data" => SectionOf(n + 1)' = section
    BY <1>3
  <2> QED
    BY <1>3, <2>1, LineRead DEF GivesField, GivesPairs, Hole, IsRole, IsField
<1>6. RdTypes' /\ NothingRead' /\ Section' /\ Exact'
  BY <1>0, <1>2, <1>3 DEF RdTypes, NothingRead, Section, Exact
<1>7. Role'
  <2>1. RoleBefore(n + 2)' \in BOOLEAN /\ RoleBefore(n + 1)' \in BOOLEAN
    BY DEF RoleBefore
  <2>2. RoleBefore(n + 2)' <=> RoleBefore(n + 1)' \/ IsRole(n + 1)'
    BY <1>3 DEF RoleBefore
  <2>3. CASE RoleLine(l)
    <3>1. role' = TRUE /\ RoleBefore(n + 2)' = TRUE
      BY <1>5, <2>1, <2>2, <2>3, LineRead
    <3>2. Len(lines') + 1 = n + 2
      BY <1>3
    <3> QED
      BY <3>1, <3>2 DEF Role
  <2>4. CASE ~RoleLine(l)
    <3>1. role' = role
      BY <2>4, LineRead
    <3>2. RoleBefore(n + 2)' = RoleBefore(n + 1)'
      BY <1>5, <2>1, <2>2, <2>4
    <3>3. Len(lines') + 1 = n + 2
      BY <1>3
    <3> QED
      BY <1>3, <3>1, <3>2, <3>3 DEF Role
  <2> QED
    BY <2>3, <2>4
<1>8. Fields'
  <2> SUFFICES ASSUME NEW x
               PROVE  x \in fields' <=> \E i \in 1..n + 1 :
                                           GivesField(i)' /\ x \in FieldNames(lines'[i])
    BY <1>3 DEF Fields
  <2>1. x \in fields <=> \E i \in 1..n : GivesField(i)' /\ x \in FieldNames(lines'[i])
    BY <1>0, <1>3, <1>4 DEF Fields
  <2>2. x \in fields' <=> x \in fields \/ (GivesField(n + 1)' /\ x \in FieldNames(lines'[n + 1]))
    BY <1>3, <1>5, LineRead
  <2> QED
    BY <1>3, <2>1, <2>2
<1>9. Pushed'
  <2>1. CASE KeyspacePanics(l)
    BY <1>2, <2>1 DEF Pushed
  <2>2. CASE ~KeyspacePanics(l)
    <3> SUFFICES ASSUME NEW x
                 PROVE  x \in rdSamples' <=> x \in PingSamples
                          \/ \E i \in 1..n + 1 : GivesPairs(i)' /\ x \in PairSamples(i)'
      BY <1>2, <1>3, <2>2 DEF Pushed, PingSamples
    <3>1. x \in rdSamples <=> x \in PingSamples
                          \/ \E i \in 1..n : GivesPairs(i)' /\ x \in PairSamples(i)'
      BY <1>0, <1>2, <1>3, <1>4 DEF Pushed
    <3>2. x \in rdSamples' <=> x \in rdSamples \/ (GivesPairs(n + 1)' /\ x \in PairSamples(n + 1)')
      <4>1. CASE ListLine(l)
        <5>1. SectionOf(n + 1)' = section
          BY <1>3, <4>1 DEF ListLine
        <5>2. PairSamples(n + 1)' = {<<m, l.name, role>> : m \in PairMetrics(l, section)}
          BY <1>3, <5>1 DEF PairSamples
        <5>3. rdSamples' = rdSamples \cup {<<m, l.name, role>> : m \in PairMetrics(l, section)}
          BY <4>1, LineRead DEF PushAs
        <5> QED
          BY <1>5, <4>1, <5>2, <5>3
      <4>2. CASE ~ListLine(l)
        BY <1>5, <2>2, <4>2, LineRead
      <4> QED
        BY <4>1, <4>2
    <3> QED
      BY <1>3, <3>1, <3>2
  <2> QED
    BY <2>1, <2>2
<1>10. Panics'
  <2>1. \A i \in 1..n : ~Hole(i)'
    BY <1>0, <1>2, <1>3, <1>4 DEF Panics
  <2>2. rdPc' = "crashed" <=> Hole(n + 1)'
    BY <1>2, <1>5
  <2>3. rdPc' = "crashed" <=> \E i \in 1..n + 1 : Hole(i)'
    BY <1>3, <2>1, <2>2
  <2> QED
    BY <1>3, <2>3 DEF Panics
<1> QED
  BY <1>3, <1>6, <1>7, <1>8, <1>9, <1>10 DEF RdInv

LEMMA RdStep == ASSUME RdInv, [RdNext]_rdVars PROVE RdInv'
<1>1. CASE UNCHANGED rdVars
  <2>1. UNCHANGED <<rdPc, lines, section, role, fields, rdSamples>>
    BY <1>1 DEF rdVars
  <2>2. /\ Section' /\ Role' /\ LastHeader' /\ Fields'
        /\ \A i : (GivesPairs(i) <=> GivesPairs(i)') /\ PairSamples(i)' = PairSamples(i)
                  /\ (Hole(i) <=> Hole(i)')
        /\ RoleBefore(Len(lines) + 1)' = RoleBefore(Len(lines) + 1)
    BY <2>1, SameLines
  <2>3. RdTypes' /\ NothingRead' /\ Panics'
    BY <2>1, <2>2 DEF RdInv, RdTypes, NothingRead, Panics
  <2>4. Pushed' /\ Exact'
    BY <2>1, <2>2 DEF RdInv, Pushed, Exact, PingSamples
  <2> QED
    BY <2>2, <2>3, <2>4 DEF RdInv
<1>2. CASE RdNext
  BY <1>2, RequestStep, LineStep DEF RdNext
<1> QED
  BY <1>1, <1>2

LEMMA RdDone == RdInv => InfoExact
<1> SUFFICES ASSUME RdInv PROVE InfoExact
  OBVIOUS
<1> DEFINE last == RoleBefore(Len(lines) + 1)
           Given == UNION {FieldNames(lines[i]) : i \in {j \in DOMAIN lines : GivesField(j)}}
           Listed == UNION {PairSamples(i) : i \in {j \in DOMAIN lines : GivesPairs(j)}}
           Ends == {<<m, Blank, last>> : m \in {"keyspace_hitrate", "scrape_use_seconds"} \cup Given}
<1>1. ASSUME rdPc = "done", lines # <<>> PROVE rdSamples = PingSamples \cup Ends \cup Listed
  <2>1. fields = Given
    BY DEF RdInv, Fields
  <2>2. \A x : x \in rdSamples <=>
          \/ x \in PingSamples
          \/ \E i \in DOMAIN lines : GivesPairs(i) /\ x \in PairSamples(i)
          \/ \E m \in Given \cup {"keyspace_hitrate", "scrape_use_seconds"} :
               x = <<m, Blank, last>>
    BY <1>1, <2>1 DEF RdInv, Exact
  <2> HIDE DEF last, Given
  <2>3. \A x : x \in Ends <=> \E m \in Given \cup {"keyspace_hitrate", "scrape_use_seconds"} :
                                x = <<m, Blank, last>>
    OBVIOUS
  <2>4. \A x : x \in Listed <=> \E i \in DOMAIN lines : GivesPairs(i) /\ x \in PairSamples(i)
    OBVIOUS
  <2> HIDE DEF Ends, Listed
  <2> QED
    BY <2>2, <2>3, <2>4
<1>2. rdPc = "crashed" <=> \E i \in DOMAIN lines : Hole(i)
  BY DEF RdInv, Panics
<1> QED
  BY <1>1, <1>2 DEF InfoExact, GivesField, GivesPairs, PairSamples, PingSamples, Hole

(***************************************************************************)
(* clickhouse.  The hosts named so far are those in the list and in the     *)
(* rows still to look at, each once in the list.  While the hosts are       *)
(* asked, those that left the list have been asked for everything, the      *)
(* first one for the functions that are no longer in queries, the others    *)
(* for nothing.                                                             *)
(***************************************************************************)
ChRows == (UNION {Clusters[s] : s \in DOMAIN Clusters}) \cup ({""} \X ChServers)

ChTypes ==
  /\ "servers" \in DOMAIN chConf /\ chConf.servers \in Seq(ChServers)
  /\ nextConf # <<>> => \E c \in ChConfigs : nextConf = <<c>>
  /\ todo \in Seq(ChServers)
  /\ found \subseteq ChRows
  /\ connects \in Seq(ChRows)
  /\ queries \in Seq(Range(MetricFuncs))
  /\ asked \in [(DOMAIN UserOf) \X Range(MetricFuncs) -> Nat]

InFound(h) == \E r \in found : r[2] = h

ServersAccounted ==
  /\ listed \subseteq Range(chConf.servers)
  /\ Range(todo) \subseteq Range(chConf.servers)
  /\ \A s \in Range(chConf.servers) :
       s \in listed \/ <<s, "discovery">> \in trouble \/ s \in Range(todo)

HostsDistinct == \A i, j \in DOMAIN connects : connects[i][2] = connects[j][2] => i = j

HostsListed ==
  \A h \in DOMAIN UserOf :
    /\ Exists(h) \/ InFound(h) => Named(h)
    /\ chPc = "servers" /\ Named(h) => Exists(h) \/ InFound(h)

AskedInTurn ==
  \A h \in DOMAIN UserOf, fn \in Range(MetricFuncs) :
    asked[<<h, fn>>] =
      IF chPc # "servers" /\ Named(h)
         /\ (Exists(h) => h = Host /\ fn \notin Range(queries))
      THEN 1 ELSE 0

QueriesDistinct == \A i, j \in DOMAIN queries : queries[i] = queries[j] => i = j

Places ==
  /\ chPc # "servers" => found = {}
  /\ chPc = "hosts" => QueriesDistinct
  /\ chPc \in {"hosts", "done"} => todo = <<>>
  /\ chPc = "done" => connects = <<>>
  /\ chPc = "out" => /\ connects = <<>> /\ listed = {}
                     /\ \A p \in DOMAIN asked : asked[p] = 0
  /\ chPc # "out" /\ ~chOverlap => nextConf = <<>>

ByDiscovery == chPc \in {"servers", "hosts", "done"} /\ chConf.auto /\ ~chOverlap

ChInv ==
  /\ ChTypes
  /\ Places
  /\ ByDiscovery => ServersAccounted /\ HostsDistinct /\ HostsListed /\ AskedInTurn

\* A list is its first element and the rest.
LEMMA FirstAndRest ==
  ASSUME NEW S, NEW s \in Seq(S), s # <<>>
  PROVE  /\ Head(s) \in S /\ Tail(s) \in Seq(S)
         /\ Range(s) = {Head(s)} \cup Range(Tail(s))
         /\ 1 \in DOMAIN s /\ Head(s) = s[1]
         /\ \A i \in DOMAIN Tail(s) : i + 1 \in DOMAIN s /\ Tail(s)[i] = s[i + 1] /\ i + 1 # 1
         /\ \A i \in DOMAIN s : i = 1 \/ (i - 1 \in DOMAIN Tail(s) /\ Tail(s)[i - 1] = s[i])
<1>1. /\ Head(s) \in S /\ Tail(s) \in Seq(S) /\ Head(s) = s[1]
      /\ Len(s) \in Nat /\ Len(s) # 0 /\ Len(Tail(s)) = Len(s) - 1
      /\ \A i \in 1..Len(Tail(s)) : Tail(s)[i] = s[i + 1]
      /\ DOMAIN s = 1..Len(s) /\ DOMAIN Tail(s) = 1..Len(Tail(s))
  OBVIOUS
<1>2. 1 \in DOMAIN s
  BY <1>1
<1>3. \A i \in DOMAIN Tail(s) : i + 1 \in DOMAIN s /\ Tail(s)[i] = s[i + 1] /\ i + 1 # 1
  BY <1>1
<1>4. ASSUME NEW i \in DOMAIN s
      PROVE  i = 1 \/ (i - 1 \in DOMAIN Tail(s) /\ Tail(s)[i - 1] = s[i])
  <2>1. CASE i # 1
    <3>1. i - 1 \in 1..Len(Tail(s)) /\ (i - 1) + 1 = i
      BY <1>1, <2>1
    <3> QED
      BY <1>1, <3>1
  <2> QED
    BY <2>1
<1>5. Range(s) = {Head(s)} \cup Range(Tail(s))
  <2>1. ASSUME NEW x \in Range(s) PROVE x = Head(s) \/ x \in Range(Tail(s))
    <3>1. PICK i \in DOMAIN s : s[i] = x
      BY <2>1 DEF Range
    <3>2. CASE i = 1
      BY <1>1, <3>1, <3>2
    <3>3. CASE i - 1 \in DOMAIN Tail(s) /\ Tail(s)[i - 1] = s[i]
      BY <3>1, <3>3 DEF Range
    <3> QED
      BY <1>4, <3>2, <3>3
  <2>2. Head(s) \in Range(s)
    BY <1>1, <1>2 DEF Range
  <2>3. ASSUME NEW x \in Range(Tail(s)) PROVE x \in Range(s)
    <3>1. PICK i \in DOMAIN Tail(s) : Tail(s)[i] = x
      BY <2>3 DEF Range
    <3>2. i + 1 \in DOMAIN s /\ s[i + 1] = x
      BY <1>3, <3>1
    <3> QED
      BY <3>2 DEF Range
  <2> QED
    BY <2>1, <2>2, <2>3
<1> QED
  BY <1>1, <1>2, <1>3, <1>4, <1>5

\* The twelve functions are different ones.
LEMMA TwelveFunctions ==
  /\ MetricFuncs \in Seq(Range(MetricFuncs))
  /\ \A i, j \in DOMAIN MetricFuncs : MetricFuncs[i] = MetricFuncs[j] => i = j
<1>1. DOMAIN MetricFuncs = 1..12
  BY DEF MetricFuncs
<1>2. MetricFuncs \in Seq(Range(MetricFuncs))
  <2>1. MetricFuncs = [i \in 1..12 |-> MetricFuncs[i]]
    BY DEF MetricFuncs
  <2>2. \A i \in 1..12 : MetricFuncs[i] \in Range(MetricFuncs)
    BY <1>1 DEF Range
  <2> HIDE DEF MetricFuncs
  <2>3. [i \in 1..12 |-> MetricFuncs[i]] \in Seq(Range(MetricFuncs))
    BY <2>2
  <2> QED
    BY <2>1, <2>3
<1>3. \A i, j \in 1..12 : MetricFuncs[i] = MetricFuncs[j] => i = j
  BY DEF MetricFuncs
<1> QED
  BY <1>1, <1>2, <1>3

\* What Init leaves in the Instance.
LEMMA LoadedType ==
  ASSUME NEW c \in ChConfigs
  PROVE  /\ ParseSlice(c.servers) \in Seq(ChServers)
         /\ "servers" \in DOMAIN Loaded(c) /\ Loaded(c).servers \in Seq(ChServers)
  BY ChAssumption DEF Loaded

LEMMA ChInitInv == ChInit => ChInv
<1> SUFFICES ASSUME ChInit PROVE ChInv
  OBVIOUS
<1>1. ChTypes
  <2>1. "servers" \in DOMAIN chConf /\ chConf.servers \in Seq(ChServers)
    <3>1. chConf = [servers |-> <<>>, auto |-> FALSE, include |-> <<>>, exclude |-> <<>>,
                    user |-> ""]
      BY DEF ChInit
    <3>2. DOMAIN chConf = {"servers", "auto", "include", "exclude", "user"}
      BY <3>1
    <3>3. chConf.servers = <<>>
      BY <3>1
    <3> QED
      BY <3>2, <3>3
  <2>2. /\ nextConf = <<>> /\ todo = <<>> /\ found = {} /\ connects = <<>> /\ queries = <<>>
        /\ asked = [p \in (DOMAIN UserOf) \X Range(MetricFuncs) |-> 0]
    BY DEF ChInit
  <2>3. asked \in [(DOMAIN UserOf) \X Range(MetricFuncs) -> Nat]
    BY <2>2
  <2> QED
    BY <2>1, <2>2, <2>3 DEF ChTypes
<1>2. Places
  BY DEF ChInit, Places
<1> QED
  BY <1>1, <1>2 DEF ChInit, ChInv, ByDiscovery

\* The Init of another Monitor, before this Gather or overlapping it.
LEMMA ChConfStep ==
  ASSUME ChInv, ChInitEnds \/ \E c \in ChConfigs : ChInitBegins(c)
  PROVE  ChInv'
<1>1. UNCHANGED <<chPc, todo, found, connects, queries, asked, listed, trouble>>
  BY DEF ChInitEnds, ChInitBegins
<1>2. CASE ChInitEnds
  <2>1. PICK c \in ChConfigs : nextConf = <<c>>
    BY <1>2 DEF ChInitEnds, ChInv, ChTypes
  <2>2. chConf' = Loaded(c) /\ nextConf' = <<>> /\ chOverlap' = chOverlap /\ nextConf # <<>>
    BY <1>2, <2>1 DEF ChInitEnds
  <2>3. ChTypes'
    BY <1>1, <2>2, LoadedType DEF ChInv, ChTypes
  <2>4. Places' /\ ~ByDiscovery'
    BY <1>1, <2>2 DEF ChInv, Places, ByDiscovery, QueriesDistinct
  <2> QED
    BY <2>3, <2>4 DEF ChInv
<1>3. ASSUME NEW c \in ChConfigs, ChInitBegins(c) PROVE ChInv'
  <2>1. /\ chConf' = [chConf EXCEPT !.servers = ParseSlice(c.servers)]
        /\ nextConf' = <<c>> /\ chOverlap' = (chOverlap \/ chPc # "out")
    BY <1>3 DEF ChInitBegins
  <2>2. ChTypes'
    BY <1>1, <2>1, LoadedType DEF ChInv, ChTypes
  <2>3. Places' /\ ~ByDiscovery'
    BY <1>1, <2>1 DEF ChInv, Places, ByDiscovery, QueriesDistinct
  <2> QED
    BY <2>2, <2>3 DEF ChInv
<1> QED
  BY <1>2, <1>3

\* Gather starts with the servers of the configuration and no host.
LEMMA ChBeginStep == ASSUME ChInv, BeginChGather PROVE ChInv'
<1>1. /\ chPc = "out" /\ chPc' = "servers" /\ todo' = chConf.servers
      /\ chOverlap' = (nextConf # <<>>)
      /\ UNCHANGED <<chConf, nextConf, found, connects, queries, asked, listed, trouble>>
  BY DEF BeginChGather, chIns
<1>2. ChTypes'
  BY <1>1 DEF ChInv, ChTypes
<1>3. Places'
  BY <1>1 DEF ChInv, Places
<1>4. /\ connects = <<>> /\ found = {} /\ listed = {} /\ \A p \in DOMAIN asked : asked[p] = 0
  BY <1>1 DEF ChInv, Places
<1>5. ServersAccounted'
  BY <1>1, <1>4 DEF ServersAccounted
<1>6. HostsDistinct' /\ HostsListed'
  BY <1>1, <1>4 DEF HostsDistinct, HostsListed, Exists, InFound, Named
<1>7. AskedInTurn'
  BY <1>1, <1>4 DEF AskedInTurn, ChInv, ChTypes
<1> QED
  BY <1>2, <1>3, <1>5, <1>6, <1>7 DEF ChInv

\* The next server is asked for its clusters.
LEMMA DiscoverStep == ASSUME ChInv, Discover \/ DiscoverFails PROVE ChInv'
<1> DEFINE s == Head(todo)
<1>1. /\ chPc = "servers" /\ found = {} /\ todo # <<>> /\ s \notin BadUrls
      /\ todo' = Tail(todo) /\ chConf.auto
      /\ UNCHANGED <<chConf, nextConf, chPc, connects, queries, asked, chOverlap>>
  BY DEF Discover, DiscoverFails, Discovering, chIns
<1>2. s \in ChServers /\ Tail(todo) \in Seq(ChServers) /\ Range(todo) = {s} \cup Range(Tail(todo))
  BY <1>1, FirstAndRest DEF ChInv, ChTypes
<1> HIDE DEF s
<1>3. CASE Discover
  <2>1. /\ found' = {r \in Clusters[s] : clusterIncludeExcludeFilter(r[1])}
        /\ listed' = listed \cup {s} /\ trouble' = trouble
    BY <1>3 DEF Discover, s
  <2>2. found' \subseteq ChRows
    BY <1>1, <1>2, <2>1 DEF ChRows, ChServers
  <2>3. ChTypes'
    BY <1>1, <1>2, <2>2 DEF ChInv, ChTypes
  <2>4. Places'
    BY <1>1 DEF ChInv, Places
  <2>5. ASSUME ByDiscovery
        PROVE  ServersAccounted' /\ HostsDistinct' /\ HostsListed' /\ AskedInTurn'
    <3>1. ServersAccounted /\ HostsDistinct /\ HostsListed /\ AskedInTurn
      BY <2>5 DEF ChInv
    <3>2. ServersAccounted'
      BY <1>1, <1>2, <2>1, <3>1 DEF ServersAccounted
    <3>3. \A h : Named(h)' <=> Named(h) \/ InFound(h)'
      BY <1>1, <2>1 DEF Named, InFound, clusterIncludeExcludeFilter
    <3>4. \A h : Exists(h)' <=> Exists(h)
      BY <1>1 DEF Exists
    <3>5. \A h : ~InFound(h)
      BY <1>1 DEF InFound
    <3>6. HostsListed'
      BY <1>1, <3>1, <3>3, <3>4, <3>5 DEF HostsListed
    <3>7. AskedInTurn'
      BY <1>1, <3>1 DEF AskedInTurn
    <3>8. HostsDistinct'
      BY <1>1, <3>1 DEF HostsDistinct
    <3> QED
      BY <3>2, <3>6, <3>7, <3>8
  <2> QED
    BY <1>1, <2>3, <2>4, <2>5 DEF ChInv, ByDiscovery
<1>4. CASE DiscoverFails
  <2>1. found' = found /\ listed' = listed /\ trouble' = trouble \cup {<<s, "discovery">>}
    BY <1>4 DEF DiscoverFails, s
  <2>2. ChTypes'
    BY <1>1, <1>2, <2>1 DEF ChInv, ChTypes
  <2>3. Places'
    BY <1>1, <2>1 DEF ChInv, Places
  <2>4. ASSUME ByDiscovery
        PROVE  ServersAccounted' /\ HostsDistinct' /\ HostsListed' /\ AskedInTurn'
    <3>1. ServersAccounted /\ HostsDistinct /\ HostsListed /\ AskedInTurn
      BY <2>4 DEF ChInv
    <3>2. ServersAccounted'
      BY <1>1, <1>2, <2>1, <3>1 DEF ServersAccounted
    <3>3. HostsListed'
      BY <1>1, <2>1, <3>1 DEF HostsListed, Exists, InFound, Named
    <3>4. AskedInTurn'
      BY <1>1, <3>1 DEF AskedInTurn
    <3>5. HostsDistinct'
      BY <1>1, <3>1 DEF HostsDistinct
    <3> QED
      BY <3>2, <3>3, <3>4, <3>5
  <2> QED
    BY <1>1, <2>2, <2>3, <2>4 DEF ChInv, ByDiscovery
<1> QED
  BY <1>3, <1>4

\* A row is appended unless its host is in the list.
LEMMA AddHostStep == ASSUME ChInv, NEW r \in found, AddHost(r) PROVE ChInv'
<1>1. /\ chPc = "servers" /\ found' = found \ {r}
      /\ UNCHANGED <<chConf, nextConf, chPc, todo, queries, asked, listed, trouble, chOverlap>>
      /\ connects' = IF Exists(r[2]) THEN connects ELSE Append(connects, r)
  BY DEF AddHost, chIns
<1>2. r \in ChRows /\ connects \in Seq(ChRows)
  BY DEF ChInv, ChTypes
<1>3. connects' \in Seq(ChRows)
  BY <1>1, <1>2
<1>4. ChTypes'
  BY <1>1, <1>3 DEF ChInv, ChTypes
<1>5. Places'
  BY <1>1 DEF ChInv, Places
<1>6. ASSUME ByDiscovery
      PROVE  ServersAccounted' /\ HostsDistinct' /\ HostsListed' /\ AskedInTurn'
  <2>1. ServersAccounted /\ HostsDistinct /\ HostsListed /\ AskedInTurn
    BY <1>6 DEF ChInv
  <2>2. ServersAccounted'
    BY <1>1, <2>1 DEF ServersAccounted
  <2>3. AskedInTurn'
    BY <1>1, <2>1 DEF AskedInTurn
  <2>4. \A h : Named(h)' <=> Named(h)
    BY <1>1 DEF Named
  <2>5. \A h : InFound(h) <=> InFound(h)' \/ r[2] = h
    BY <1>1 DEF InFound
  <2>6. CASE Exists(r[2])
    <3>1. connects' = connects
      BY <1>1, <2>6
    <3>2. \A h : Exists(h)' <=> Exists(h)
      BY <3>1 DEF Exists
    <3>3. HostsListed'
      BY <1>1, <2>1, <2>4, <2>5, <2>6, <3>2 DEF HostsListed
    <3>4. HostsDistinct'
      BY <2>1, <3>1 DEF HostsDistinct
    <3> QED
      BY <2>2, <2>3, <3>3, <3>4
  <2>7. CASE ~Exists(r[2])
    <3> DEFINE n == Len(connects) + 1
    <3>1. /\ connects' = Append(connects, r) /\ n \notin DOMAIN connects
          /\ DOMAIN connects' = (DOMAIN connects) \cup {n} /\ connects'[n] = r
          /\ \A i \in DOMAIN connects : connects'[i] = connects[i]
      BY <1>1, <1>2, <2>7
    <3> HIDE DEF n
    <3>2. \A h : Exists(h)' <=> Exists(h) \/ r[2] = h
      BY <3>1 DEF Exists
    <3>3. HostsListed'
      BY <1>1, <2>1, <2>4, <2>5, <3>2 DEF HostsListed
    <3>4. HostsDistinct'
      BY <2>1, <2>7, <3>1 DEF HostsDistinct, Exists
    <3> QED
      BY <2>2, <2>3, <3>3, <3>4
  <2> QED
    BY <2>6, <2>7
<1> QED
  BY <1>1, <1>4, <1>5, <1>6 DEF ChInv, ByDiscovery

\* The configured servers are taken as they are, or one of them ends Gather.
LEMMA ServerStep == ASSUME ChInv, AddServer \/ BadServer PROVE ChInv'
<1>1. /\ chPc = "servers" /\ found = {} /\ todo # <<>>
      /\ UNCHANGED <<chConf, nextConf, found, queries, asked, listed, trouble, chOverlap>>
  BY DEF AddServer, BadServer, chIns
<1>2. Head(todo) \in ChServers /\ Tail(todo) \in Seq(ChServers)
  BY <1>1, FirstAndRest DEF ChInv, ChTypes
<1>3. CASE AddServer
  <2>1. /\ ~chConf.auto /\ connects' = Append(connects, <<"", Head(todo)>>)
        /\ todo' = Tail(todo) /\ chPc' = chPc
    BY <1>3 DEF AddServer
  <2>2. <<"", Head(todo)>> \in ChRows
    <3>1. <<"", Head(todo)>> \in {""} \X ChServers
      BY <1>2
    <3> QED
      BY <3>1 DEF ChRows
  <2>3. Append(connects, <<"", Head(todo)>>) \in Seq(ChRows)
    <3> DEFINE row == <<"", Head(todo)>>
    <3>1. row \in ChRows /\ connects \in Seq(ChRows)
      BY <2>2 DEF ChInv, ChTypes
    <3> HIDE DEF row
    <3>2. Append(connects, row) \in Seq(ChRows)
      BY <3>1
    <3> QED
      BY <3>2 DEF row
  <2>5. ChTypes'
    BY <1>1, <1>2, <2>1, <2>3 DEF ChInv, ChTypes
  <2>6. Places' /\ ~ByDiscovery'
    BY <1>1, <2>1 DEF ChInv, Places, ByDiscovery
  <2> QED
    BY <2>5, <2>6 DEF ChInv
<1>4. CASE BadServer
  <2>1. chPc' = "error" /\ UNCHANGED <<todo, connects>>
    BY <1>4 DEF BadServer
  <2>2. ChTypes' /\ Places' /\ ~ByDiscovery'
    BY <1>1, <2>1 DEF ChInv, ChTypes, Places, ByDiscovery
  <2> QED
    BY <2>2 DEF ChInv
<1> QED
  BY <1>3, <1>4

\* The list is complete: the first host is next, and nothing was asked yet.
LEMMA ListDoneStep == ASSUME ChInv, ListDone PROVE ChInv'
<1>1. /\ chPc = "servers" /\ found = {} /\ todo = <<>> /\ chPc' = "hosts"
      /\ queries' = MetricFuncs
      /\ UNCHANGED <<chConf, nextConf, todo, found, connects, asked, listed, trouble, chOverlap>>
  BY DEF ListDone, chIns
<1>2. ChTypes'
  BY <1>1, TwelveFunctions DEF ChInv, ChTypes
<1>3. Places'
  BY <1>1, TwelveFunctions DEF ChInv, Places, QueriesDistinct
<1>4. ASSUME ByDiscovery
      PROVE  ServersAccounted' /\ HostsDistinct' /\ HostsListed' /\ AskedInTurn'
  <2>1. ServersAccounted /\ HostsDistinct /\ HostsListed /\ AskedInTurn
    BY <1>4 DEF ChInv
  <2>2. ServersAccounted' /\ HostsDistinct'
    BY <1>1, <2>1 DEF ServersAccounted, HostsDistinct
  <2>3. \A h : /\ Named(h)' <=> Named(h)
               /\ Exists(h)' <=> Exists(h)
               /\ ~InFound(h) /\ ~InFound(h)'
    BY <1>1 DEF Named, Exists, InFound
  <2>4. HostsListed'
    BY <1>1, <2>1, <2>3 DEF HostsListed
  <2>5. AskedInTurn'
    <3> SUFFICES ASSUME NEW h \in DOMAIN UserOf, NEW fn \in Range(MetricFuncs)
                 PROVE  asked[<<h, fn>>] =
                          IF Named(h)' /\ (Exists(h)' => h = Host' /\ fn \notin Range(queries'))
                          THEN 1 ELSE 0
      BY <1>1 DEF AskedInTurn
    <3>1. asked[<<h, fn>>] = 0
      BY <1>1, <2>1 DEF AskedInTurn
    <3>2. Named(h)' => Exists(h)'
      BY <1>1, <2>1, <2>3 DEF HostsListed
    <3>3. fn \in Range(queries')
      BY <1>1
    <3> QED
      BY <3>1, <3>2, <3>3
  <2> QED
    BY <2>2, <2>4, <2>5
<1> QED
  BY <1>1, <1>2, <1>3, <1>4 DEF ChInv, ByDiscovery

\* A function returns, with or without an error, and the next one is called.
LEMMA NextFnStep ==
  ASSUME ChInv, Asking, NEW failed, NextFn(failed),
         UNCHANGED <<chIns, chPc, todo, found, connects, listed, chOverlap>>,
         trouble \subseteq trouble'
  PROVE  ChInv'
<1>1. /\ chPc = "hosts" /\ connects # <<>> /\ queries # <<>>
      /\ queries' = Tail(queries) /\ asked' = [asked EXCEPT ![<<Host, Fn>>] = @ + 1]
      /\ UNCHANGED <<chConf, nextConf, chPc, todo, found, connects, listed, chOverlap>>
  BY DEF Asking, NextFn, chIns
<1>2. /\ Fn \in Range(MetricFuncs) /\ Tail(queries) \in Seq(Range(MetricFuncs))
      /\ Range(queries) = {Fn} \cup Range(Tail(queries))
      /\ 1 \in DOMAIN queries /\ Fn = queries[1]
      /\ \A i \in DOMAIN Tail(queries) :
           i + 1 \in DOMAIN queries /\ Tail(queries)[i] = queries[i + 1] /\ i + 1 # 1
  BY <1>1, FirstAndRest DEF ChInv, ChTypes, Fn
<1>3. /\ asked \in [(DOMAIN UserOf) \X Range(MetricFuncs) -> Nat]
      /\ asked' \in [(DOMAIN UserOf) \X Range(MetricFuncs) -> Nat]
      /\ \A h \in DOMAIN UserOf, fn \in Range(MetricFuncs) :
           asked'[<<h, fn>>] = IF h = Host /\ fn = Fn THEN asked[<<h, fn>>] + 1
                               ELSE asked[<<h, fn>>]
  <2>1. asked \in [(DOMAIN UserOf) \X Range(MetricFuncs) -> Nat]
    BY DEF ChInv, ChTypes
  <2> DEFINE x == Host
             y == Fn
  <2>2. y \in Range(MetricFuncs) /\ asked' = [asked EXCEPT ![<<x, y>>] = @ + 1]
    BY <1>1, <1>2
  <2> HIDE DEF x, y
  <2>3. asked' \in [(DOMAIN UserOf) \X Range(MetricFuncs) -> Nat]
    <3> DEFINE D == (DOMAIN UserOf) \X Range(MetricFuncs)
               k == <<x, y>>
    <3> HIDE DEF D, k
    <3>1. asked \in [D -> Nat] /\ asked' = [asked EXCEPT ![k] = @ + 1]
      BY <2>1, <2>2 DEF D, k
    <3>2. asked' = [d \in D |-> IF d = k THEN asked[k] + 1 ELSE asked[d]]
      BY <3>1
    <3>3. \A d \in D : (IF d = k THEN asked[k] + 1 ELSE asked[d]) \in Nat
      BY <3>1
    <3>4. asked' \in [D -> Nat]
      BY <3>2, <3>3
    <3> QED
      BY <3>4 DEF D
  <2>4. ASSUME NEW h \in DOMAIN UserOf, NEW fn \in Range(MetricFuncs)
        PROVE  asked'[<<h, fn>>] = IF h = x /\ fn = y THEN asked[<<h, fn>>] + 1
                                   ELSE asked[<<h, fn>>]
    <3>1. <<h, fn>> \in (DOMAIN UserOf) \X Range(MetricFuncs)
      OBVIOUS
    <3>2. <<h, fn>> = <<x, y>> <=> h = x /\ fn = y
      OBVIOUS
    <3> QED
      BY <2>1, <2>2, <3>1, <3>2
  <2> QED
    BY <2>1, <2>3, <2>4 DEF x, y
<1>4. ChTypes'
  BY <1>1, <1>2, <1>3 DEF ChInv, ChTypes
<1>5. QueriesDistinct
  BY <1>1 DEF ChInv, Places
<1>6. Fn \notin Range(Tail(queries))
  BY <1>2, <1>5 DEF QueriesDistinct, Range
<1>7. QueriesDistinct'
  <2> SUFFICES ASSUME NEW i \in DOMAIN Tail(queries), NEW j \in DOMAIN Tail(queries),
                      Tail(queries)[i] = Tail(queries)[j]
               PROVE  i = j
    BY <1>1 DEF QueriesDistinct
  <2>1. i + 1 = j + 1
    BY <1>2, <1>5 DEF QueriesDistinct
  <2>2. i \in Nat /\ j \in Nat
    BY <1>2
  <2> QED
    BY <2>1, <2>2
<1>8. Places'
  BY <1>1, <1>7 DEF ChInv, Places
<1>9. ASSUME ByDiscovery
      PROVE  ServersAccounted' /\ HostsDistinct' /\ HostsListed' /\ AskedInTurn'
  <2>1. ServersAccounted /\ HostsDistinct /\ HostsListed /\ AskedInTurn
    BY <1>9 DEF ChInv
  <2>2. ServersAccounted' /\ HostsDistinct'
    BY <1>1, <2>1 DEF ServersAccounted, HostsDistinct
  <2>3. Host' = Host /\ \A h : /\ Named(h)' <=> Named(h)
                               /\ Exists(h)' <=> Exists(h)
                               /\ InFound(h)' <=> InFound(h)
    BY <1>1 DEF Named, Exists, InFound, Host
  <2>4. HostsListed'
    BY <1>1, <2>1, <2>3 DEF HostsListed
  <2>5. Exists(Host)
    <3>1. 1 \in DOMAIN connects /\ Head(connects) = connects[1]
      BY <1>1, FirstAndRest DEF ChInv, ChTypes
    <3> QED
      BY <3>1 DEF Exists, Host
  <2>6. AskedInTurn'
    <3> SUFFICES ASSUME NEW h \in DOMAIN UserOf, NEW fn \in Range(MetricFuncs)
                 PROVE  asked'[<<h, fn>>] =
                          IF Named(h) /\ (Exists(h) => h = Host /\ fn \notin Range(Tail(queries)))
                          THEN 1 ELSE 0
      BY <1>1, <2>3 DEF AskedInTurn
    <3>1. asked[<<h, fn>>] = IF Named(h) /\ (Exists(h) => h = Host /\ fn \notin Range(queries))
                             THEN 1 ELSE 0
      BY <1>1, <2>1 DEF AskedInTurn
    <3>2. CASE h = Host /\ fn = Fn
      <4>1. Named(h)
        BY <2>1, <2>5, <3>2 DEF HostsListed
      <4>2. asked[<<h, fn>>] = 0
        BY <1>2, <2>5, <3>1, <3>2
      <4> QED
        BY <1>3, <1>6, <3>2, <4>1, <4>2
    <3>3. CASE ~(h = Host /\ fn = Fn)
      <4>1. h = Host => (fn \in Range(queries) <=> fn \in Range(Tail(queries)))
        BY <1>2, <3>3
      <4>2. asked'[<<h, fn>>] = asked[<<h, fn>>]
        BY <1>3, <3>3
      <4> QED
        BY <3>1, <4>1, <4>2
    <3> QED
      BY <3>2, <3>3
  <2> QED
    BY <2>2, <2>4, <2>6
<1> QED
  BY <1>1, <1>4, <1>8, <1>9 DEF ChInv, ByDiscovery

\* The last function of a host has returned.
LEMMA NextHostStep == ASSUME ChInv, NextHost PROVE ChInv'
<1>1. /\ chPc = "hosts" /\ connects # <<>> /\ queries = <<>>
      /\ connects' = Tail(connects) /\ queries' = MetricFuncs
      /\ UNCHANGED <<chConf, nextConf, chPc, todo, found, asked, listed, trouble, chOverlap>>
  BY DEF NextHost, chIns
<1>2. /\ Tail(connects) \in Seq(ChRows) /\ 1 \in DOMAIN connects /\ Host = connects[1][2]
      /\ \A i \in DOMAIN Tail(connects) :
           i + 1 \in DOMAIN connects /\ Tail(connects)[i] = connects[i + 1] /\ i + 1 # 1
      /\ \A i \in DOMAIN connects :
           i = 1 \/ (i - 1 \in DOMAIN Tail(connects) /\ Tail(connects)[i - 1] = connects[i])
  BY <1>1, FirstAndRest DEF ChInv, ChTypes, Host
<1>3. ChTypes'
  BY <1>1, <1>2, TwelveFunctions DEF ChInv, ChTypes
<1>4. Places'
  BY <1>1, TwelveFunctions DEF ChInv, Places, QueriesDistinct
<1>5. ASSUME ByDiscovery
      PROVE  ServersAccounted' /\ HostsDistinct' /\ HostsListed' /\ AskedInTurn'
  <2>1. ServersAccounted /\ HostsDistinct /\ HostsListed /\ AskedInTurn
    BY <1>5 DEF ChInv
  <2>2. ServersAccounted'
    BY <1>1, <2>1 DEF ServersAccounted
  <2>3. HostsDistinct'
    <3> SUFFICES ASSUME NEW i \in DOMAIN Tail(connects), NEW j \in DOMAIN Tail(connects),
                        Tail(connects)[i][2] = Tail(connects)[j][2]
                 PROVE  i = j
      BY <1>1 DEF HostsDistinct
    <3>1. i + 1 = j + 1
      BY <1>2, <2>1 DEF HostsDistinct
    <3>2. i \in Nat /\ j \in Nat
      BY <1>2
    <3> QED
      BY <3>1, <3>2
  <2>4. \A h : (Named(h)' <=> Named(h)) /\ (InFound(h)' <=> InFound(h))
    BY <1>1 DEF Named, InFound
  <2>5. ASSUME NEW h PROVE Exists(h) <=> Exists(h)' \/ h = Host
    <3>1. ASSUME NEW i \in DOMAIN connects, connects[i][2] = h, h # Host PROVE Exists(h)'
      <4>1. i - 1 \in DOMAIN Tail(connects) /\ Tail(connects)[i - 1][2] = h
        BY <1>2, <3>1
      <4> QED
        BY <1>1, <4>1 DEF Exists
    <3>2. ASSUME NEW i \in DOMAIN Tail(connects), Tail(connects)[i][2] = h PROVE Exists(h)
      <4>1. i + 1 \in DOMAIN connects /\ connects[i + 1][2] = h
        BY <1>2, <3>2
      <4> QED
        BY <4>1 DEF Exists
    <3>3. Exists(h)' => \E i \in DOMAIN Tail(connects) : Tail(connects)[i][2] = h
      BY <1>1 DEF Exists
    <3>4. h = Host => Exists(h)
      BY <1>2 DEF Exists
    <3>5. Exists(h) /\ h # Host => Exists(h)'
      BY <3>1 DEF Exists
    <3> QED
      BY <3>2, <3>3, <3>4, <3>5
  <2>6. ASSUME NEW h, h = Host PROVE ~Exists(h)'
    <3> SUFFICES ASSUME NEW i \in DOMAIN Tail(connects), Tail(connects)[i][2] = Host
                 PROVE  FALSE
      BY <1>1, <2>6 DEF Exists
    <3>1. i + 1 = 1
      BY <1>2, <2>1 DEF HostsDistinct
    <3> QED
      BY <1>2, <3>1
  <2>7. HostsListed'
    BY <1>1, <2>1, <2>4, <2>5 DEF HostsListed
  <2>8. AskedInTurn'
    <3> SUFFICES ASSUME NEW h \in DOMAIN UserOf, NEW fn \in Range(MetricFuncs)
                 PROVE  asked[<<h, fn>>] =
                          IF Named(h)' /\ (Exists(h)' => h = Host' /\ fn \notin Range(queries'))
                          THEN 1 ELSE 0
      BY <1>1 DEF AskedInTurn
    <3>1. asked[<<h, fn>>] = IF Named(h) /\ (Exists(h) => h = Host) THEN 1 ELSE 0
      BY <1>1, <2>1 DEF AskedInTurn, Range
    <3>2. fn \in Range(queries')
      BY <1>1
    <3> QED
      BY <2>4, <2>5, <2>6, <3>1, <3>2
  <2> QED
    BY <2>2, <2>3, <2>7, <2>8
<1> QED
  BY <1>1, <1>3, <1>4, <1>5 DEF ChInv, ByDiscovery

\* The end of the list, or of the process.
LEMMA ChEndStep ==
  ASSUME ChInv, EndChGather \/ \E rows : FirstRowPanics(rows)
  PROVE  ChInv'
<1>1. /\ chPc = "hosts" /\ chPc' \in {"done", "crashed"}
      /\ UNCHANGED <<chConf, nextConf, todo, found, connects, queries, asked, listed, trouble,
                     chOverlap>>
  BY DEF EndChGather, FirstRowPanics, Asking, chIns
<1>2. chPc' = "done" => connects = <<>>
  BY DEF EndChGather, FirstRowPanics
<1>3. ChTypes' /\ Places'
  BY <1>1, <1>2 DEF ChInv, ChTypes, Places
<1>4. ASSUME ByDiscovery, chPc' = "done"
      PROVE  ServersAccounted' /\ HostsDistinct' /\ HostsListed' /\ AskedInTurn'
  <2>1. ServersAccounted /\ HostsDistinct /\ HostsListed /\ AskedInTurn
    BY <1>4 DEF ChInv
  <2>2. ServersAccounted' /\ HostsDistinct'
    BY <1>1, <2>1 DEF ServersAccounted, HostsDistinct
  <2>3. \A h : /\ Named(h)' <=> Named(h)
               /\ ~Exists(h) /\ ~Exists(h)'
               /\ InFound(h)' <=> InFound(h)
    BY <1>1, <1>2, <1>4 DEF Named, Exists, InFound
  <2>4. HostsListed'
    BY <1>1, <1>4, <2>1, <2>3 DEF HostsListed
  <2>5. AskedInTurn'
    BY <1>1, <1>4, <2>1, <2>3 DEF AskedInTurn
  <2> QED
    BY <2>2, <2>4, <2>5
<1> QED
  BY <1>1, <1>3, <1>4 DEF ChInv, ByDiscovery

\* A step that touches none of the variables of the invariant.
LEMMA ChIdleStep ==
  ASSUME ChInv,
         UNCHANGED <<chConf, nextConf, chPc, todo, found, connects, queries, asked, listed, trouble,
                     chOverlap>>
  PROVE  ChInv'
<1>1. ChTypes' /\ Places' /\ (ByDiscovery' <=> ByDiscovery)
  BY DEF ChInv, ChTypes, Places, ByDiscovery, QueriesDistinct
<1>2. /\ ServersAccounted' <=> ServersAccounted
      /\ HostsDistinct' <=> HostsDistinct
      /\ HostsListed' <=> HostsListed
  BY DEF ServersAccounted, HostsDistinct, HostsListed, Exists, InFound, Named
<1>3. AskedInTurn' <=> AskedInTurn
  BY DEF AskedInTurn, Named, Exists, Host
<1> QED
  BY <1>1, <1>2, <1>3 DEF ChInv

LEMMA ChStep == ASSUME ChInv, [ChNext]_chVars PROVE ChInv'
<1>1. CASE ChInitEnds \/ \E c \in ChConfigs : ChInitBegins(c)
  BY <1>1, ChConfStep
<1>2. CASE BeginChGather
  BY <1>2, ChBeginStep
<1>3. CASE BadServer \/ AddServer
  BY <1>3, ServerStep
<1>4. CASE Discover \/ DiscoverFails
  BY <1>4, DiscoverStep
<1>5. CASE \E r \in found : AddHost(r)
  BY <1>5, AddHostStep
<1>6. CASE ListDone
  BY <1>6, ListDoneStep
<1>7. CASE ExistsYes
  BY <1>7, ChIdleStep DEF ExistsYes, chIns
<1>8. CASE ExistsNo
  BY <1>8, NextFnStep DEF ExistsNo
<1>9. CASE ExecQueryFails
  BY <1>9, NextFnStep DEF ExecQueryFails
<1>10. CASE NextHost
  BY <1>10, NextHostStep
<1>11. CASE \E rows \in RowsOf[Fn] : Data(rows)
  BY <1>11, NextFnStep DEF Data
<1>12. CASE EndChGather \/ \E rows \in RowsOf[Fn] : FirstRowPanics(rows)
  BY <1>12, ChEndStep
<1>13. CASE UNCHANGED chVars
  BY <1>13, ChIdleStep DEF chVars, chIns
<1> QED
  BY <1>1, <1>2, <1>3, <1>4, <1>5, <1>6, <1>7, <1>8, <1>9, <1>10, <1>11, <1>12, <1>13 DEF ChNext

LEMMA ChDone == ChInv => HostsAskedOnce
<1> SUFFICES ASSUME ChInv, chPc = "done", chConf.auto, ~chOverlap
             PROVE  /\ listed \subseteq Range(chConf.servers)
                    /\ \A s \in Range(chConf.servers) : s \in listed \/ <<s, "discovery">> \in trouble
                    /\ \A h \in DOMAIN UserOf, fn \in Range(MetricFuncs) :
                         asked[<<h, fn>>] = IF Named(h) THEN 1 ELSE 0
  BY DEF HostsAskedOnce
<1>1. ServersAccounted /\ AskedInTurn /\ todo = <<>> /\ connects = <<>>
  BY DEF ChInv, ByDiscovery, Places
<1>2. Range(todo) = {} /\ \A h : ~Exists(h)
  BY <1>1 DEF Range, Exists
<1>3. \A h \in DOMAIN UserOf, fn \in Range(MetricFuncs) :
        asked[<<h, fn>>] = IF Named(h) THEN 1 ELSE 0
  BY <1>1, <1>2 DEF AskedInTurn
<1> QED
  BY <1>1, <1>2, <1>3 DEF ServersAccounted

(***************************************************************************)
(* elasticsearch: the choice of the indices.  Every index has one category, *)
(* chosen by categorizeIndices; of the categories that are done exactly the *)
(* most recent indices are sampled.                                         *)
(***************************************************************************)
OfCategory(cat, c) == {n \in DOMAIN indices : cat[n] = c}

\* cat is the choice categorizeIndices made.
SampledBy(cat) ==
  /\ \A n \in DOMAIN indices : cat[n] \in CategoriesOf(n)
  /\ \A c \in DOMAIN buckets : buckets[c] = OfCategory(cat, c)
  /\ DOMAIN samples = {n \in DOMAIN indices : /\ cat[n] \notin DOMAIN buckets
                                             /\ n \in MostRecent(OfCategory(cat, cat[n]))}

EsStInv ==
  /\ esConf.recent \in Int
  /\ esPc \in {"out", "answered", "buckets", "done"}
  /\ esPc \in {"out", "answered"} => DOMAIN samples = {}
  /\ esPc # "out" /\ ~stale => matchers = Range(esConf.include) /\ DOMAIN indices \subseteq Names
  /\ esPc \in {"buckets", "done"} /\ ~stale =>
       \E cat \in [DOMAIN indices -> UNION {CategoriesOf(n) : n \in DOMAIN indices}] :
         SampledBy(cat)
  /\ esPc = "done" /\ ~stale => DOMAIN buckets = {}

\* A set of naturals that is not empty has a least element.
LEMMA LeastNat ==
  ASSUME NEW T, T \subseteq Nat, T # {}
  PROVE  \E t \in T : \A u \in T : t <= u
<1>1. PICK t \in T : \A u \in T : ~(<<u, t>> \in OpToRel(<, Nat))
  BY NatLessThanWellFounded, WFMin, Zenon
<1>2. \A u \in T : ~(u < t)
  BY <1>1, Zenon DEF OpToRel
<1> QED
  BY <1>2

\* The members of S above n.
Above(S, n) == {m \in S : m > n}

\* The r largest members of S, or all of them.
Largest(S, r) == {n \in S : Cardinality(Above(S, n)) < r}

LEMMA AboveFinite ==
  ASSUME NEW S, S \subseteq Nat, IsFiniteSet(S), NEW n
  PROVE  IsFiniteSet(Above(S, n)) /\ Cardinality(Above(S, n)) \in Nat
<1>1. Above(S, n) \in SUBSET S
  BY DEF Above
<1>2. IsFiniteSet(Above(S, n))
  BY <1>1, FS_Subset
<1> QED
  BY <1>2, FS_CardinalityType

\* They are at most r: all but the least of them are above the least.
LEMMA LargestAtMost ==
  ASSUME NEW S, S \subseteq Nat, IsFiniteSet(S), NEW r \in Nat
  PROVE  Cardinality(Largest(S, r)) <= r
<1> DEFINE T == Largest(S, r)
<1>1. T \in SUBSET S /\ T \subseteq Nat
  BY DEF Largest
<1>2. IsFiniteSet(T) /\ Cardinality(T) \in Nat
  BY <1>1, FS_Subset, FS_CardinalityType
<1> HIDE DEF T
<1>3. CASE T = {}
  BY <1>3, FS_EmptySet DEF T
<1>4. CASE T # {}
  <2>1. PICK t \in T : \A u \in T : t <= u
    BY <1>1, <1>4, LeastNat
  <2>2. Cardinality(Above(S, t)) < r
    BY <2>1 DEF T, Largest
  <2>3. T \ {t} \in SUBSET Above(S, t)
    BY <1>1, <2>1 DEF Above
  <2>4. Cardinality(T \ {t}) = Cardinality(T) - 1
    BY <1>2, <2>1, FS_RemoveElement
  <2>5. IsFiniteSet(Above(S, t)) /\ Cardinality(Above(S, t)) \in Nat
    BY AboveFinite
  <2>6. Cardinality(T \ {t}) <= Cardinality(Above(S, t))
    BY <2>3, <2>5, FS_Subset
  <2> QED
    BY <1>2, <2>2, <2>4, <2>5, <2>6 DEF T
<1> QED
  BY <1>3, <1>4

\* A member with r or more above it has r of the largest above it.
LEMMA LargestAbove ==
  ASSUME NEW S, S \subseteq Nat, IsFiniteSet(S), NEW r \in Nat, NEW n \in S,
         Cardinality(Above(S, n)) >= r
  PROVE  \E V \in SUBSET Above(S, n) : V \subseteq Largest(S, r) /\ Cardinality(V) >= r
<1> DEFINE U == Above(S, n)
           Out == {u \in U : u \notin Largest(S, r)}
           Counts == {Cardinality(Above(S, u)) : u \in Out}
<1>1. CASE Out = {}
  <2>1. U \subseteq Largest(S, r)
    BY <1>1
  <2> QED
    BY <2>1
<1>2. CASE Out # {}
  <2>1. Counts \subseteq Nat /\ Counts # {}
    BY <1>2, AboveFinite
  <2>2. PICK c \in Counts : \A d \in Counts : c <= d
    BY <2>1, LeastNat
  <2>3. PICK u \in Out : c = Cardinality(Above(S, u))
    BY <2>2
  <2> DEFINE V == Above(S, u)
  <2>4. u \in S /\ u > n /\ u \in Nat /\ n \in Nat /\ u \notin Largest(S, r)
    BY <2>3 DEF Above
  <2>5. V \in SUBSET U
    <3> SUFFICES ASSUME NEW k \in V PROVE k \in U
      OBVIOUS
    <3>1. k \in S /\ k \in Nat /\ k > u
      BY DEF Above
    <3> QED
      BY <2>4, <3>1 DEF Above
  <2>6. IsFiniteSet(V) /\ Cardinality(V) \in Nat /\ Cardinality(V) >= r
    <3>1. IsFiniteSet(V) /\ Cardinality(V) \in Nat
      BY AboveFinite
    <3>2. ~(Cardinality(V) < r)
      BY <2>4 DEF Largest
    <3> HIDE DEF V
    <3> QED
      BY <3>1, <3>2
  <2>7. ASSUME NEW k \in V, k \notin Largest(S, r) PROVE FALSE
    <3>1. k \in S /\ k > u /\ k \in Nat
      BY <2>7 DEF Above
    <3>2. Cardinality(Above(S, k)) \in Counts
      <4>1. k \in Out
        BY <2>5, <2>7
      <4> QED
        BY <4>1
    <3>3. Cardinality(V) <= Cardinality(Above(S, k))
      BY <2>2, <2>3, <3>2
    <3>4. Above(S, k) \in SUBSET V /\ Above(S, k) # V
      <4>1. ASSUME NEW l \in Above(S, k) PROVE l \in V
        <5>1. l \in S /\ l \in Nat /\ l > k
          BY <4>1 DEF Above
        <5>2. l > u
          BY <2>4, <3>1, <5>1
        <5> QED
          BY <5>1, <5>2 DEF Above
      <4>2. k \notin Above(S, k)
        BY <3>1 DEF Above
      <4> QED
        BY <2>7, <4>1, <4>2
    <3> HIDE DEF V
    <3>5. Cardinality(Above(S, k)) <= Cardinality(V)
          /\ (Cardinality(V) = Cardinality(Above(S, k)) => V = Above(S, k))
      BY <2>6, <3>4, FS_Subset
    <3>6. Cardinality(Above(S, k)) \in Nat
      BY AboveFinite
    <3> QED
      BY <2>6, <3>3, <3>4, <3>5, <3>6
  <2>8. V \subseteq Largest(S, r)
    BY <2>7
  <2> QED
    BY <2>5, <2>6, <2>8
<1> QED
  BY <1>1, <1>2

\* The names gatherIndividualIndicesStats takes of a category.
LEMMA MostRecentIs ==
  ASSUME NEW S
  PROVE  MostRecent(S) = IF esConf.recent <= 0 THEN S ELSE Largest(S, esConf.recent)
  BY DEF MostRecent, Largest, Above

LEMMA EsStInitInv == EsStInit => EsStInv
<1> SUFFICES ASSUME EsStInit PROVE EsStInv
  OBVIOUS
<1>1. esConf.recent = 0
  BY DEF EsStInit
<1>2. esPc = "out" /\ samples = <<>>
  BY DEF EsStInit
<1>3. DOMAIN samples = {}
  <2>1. samples \in Seq({}) /\ Len(samples) = 0
    BY <1>2
  <2>2. DOMAIN samples = 1..Len(samples)
    BY <2>1, LenProperties
  <2> QED
    BY <2>1, <2>2
<1> QED
  BY <1>1, <1>2, <1>3 DEF EsStInv

\* Init of another Monitor: the choice of this Gather is kept unless its fields
\* changed, which stale remembers.
LEMMA EsInitStep ==
  ASSUME EsStInv, EsInitCompiles \/ \E c \in EsConfigs : EsInitAssigns(c)
  PROVE  EsStInv'
<1>1. UNCHANGED <<esPc, indices, buckets, samples>>
  BY DEF EsInitCompiles, EsInitAssigns
<1>2. ASSUME NEW c \in EsConfigs, EsInitAssigns(c) PROVE EsStInv'
  <2>1. esConf' = EsLoaded(c) /\ stale' = (stale \/ esPc # "out")
    BY <1>2 DEF EsInitAssigns
  <2>2. esConf'.recent \in Int
    BY <2>1, EsStatsAssumption DEF EsLoaded
  <2> QED
    BY <1>1, <2>1, <2>2 DEF EsStInv
<1>3. CASE EsInitCompiles
  <2>1. /\ esConf' = esConf /\ stale' = stale
        /\ matchers' = matchers \/ matchers' = Range(esConf.include)
    BY <1>3 DEF EsInitCompiles
  <2>2. CASE esPc # "out" /\ ~stale
    <3>1. matchers' = matchers
      BY <2>1, <2>2 DEF EsStInv
    <3>2. \A cat : SampledBy(cat)' <=> SampledBy(cat)
      BY <1>1, <2>1, <3>1 DEF SampledBy, OfCategory, CategoriesOf, MostRecent
    <3>3. \A n : CategoriesOf(n)' = CategoriesOf(n)
      BY <2>1, <3>1 DEF CategoriesOf
    <3> QED
      BY <1>1, <2>1, <3>1, <3>2, <3>3 DEF EsStInv
  <2>3. CASE ~(esPc # "out" /\ ~stale)
    BY <1>1, <2>1, <2>3 DEF EsStInv
  <2> QED
    BY <2>2, <2>3
<1> QED
  BY <1>2, <1>3

\* An answer arrives: the statistics of the indices, or others.
LEMMA AnswerStep ==
  ASSUME EsStInv,
         \/ \E t \in Trees, b \in BOOLEAN : OtherStats(t.total, b)
         \/ \E names \in SUBSET Names : \E stats \in [names -> Trees] : IndicesAnswered(stats)
  PROVE  EsStInv'
<1>1. CASE \E t \in Trees, b \in BOOLEAN : OtherStats(t.total, b)
  <2>1. esPc' = "done" /\ stale' = TRUE /\ UNCHANGED <<esConf, matchers>>
    BY <1>1 DEF OtherStats, esIns
  <2> QED
    BY <2>1 DEF EsStInv
<1>2. CASE \E names \in SUBSET Names : \E stats \in [names -> Trees] : IndicesAnswered(stats)
  <2>1. PICK names \in SUBSET Names : \E stats \in [names -> Trees] : IndicesAnswered(stats)
    BY <1>2
  <2>2. PICK stats \in [names -> Trees] : IndicesAnswered(stats)
    BY <2>1
  <2>3. /\ esPc = "out" /\ esPc' = "answered" /\ indices' = stats /\ DOMAIN stats = names
        /\ stale' = (matchers # Range(esConf.include))
        /\ UNCHANGED <<esConf, matchers, samples>>
    BY <2>2 DEF IndicesAnswered, esIns
  <2> QED
    BY <2>3 DEF EsStInv
<1> QED
  BY <1>1, <1>2

\* Every index gets a category, and none is sampled yet.
LEMMA CategorizeStep == ASSUME EsStInv, categorizeIndices PROVE EsStInv'
<1>1. /\ esPc = "answered" /\ esPc' = "buckets"
      /\ UNCHANGED <<esConf, matchers, indices, samples, stale>>
  BY DEF categorizeIndices, esIns
<1>2. PICK cat \in [DOMAIN indices -> UNION {CategoriesOf(n) : n \in DOMAIN indices}] :
        /\ \A n \in DOMAIN indices : cat[n] \in CategoriesOf(n)
        /\ buckets' = [c \in {cat[n] : n \in DOMAIN indices} |->
                         {n \in DOMAIN indices : cat[n] = c}]
  BY DEF categorizeIndices
<1>3. DOMAIN samples = {}
  BY <1>1 DEF EsStInv
<1>4. /\ DOMAIN buckets' = {cat[n] : n \in DOMAIN indices}
      /\ \A c \in DOMAIN buckets' : buckets'[c] = {n \in DOMAIN indices : cat[n] = c}
  BY <1>2
<1>5. \A n \in DOMAIN indices : cat[n] \in DOMAIN buckets'
  BY <1>4
<1>6. \A n : CategoriesOf(n)' = CategoriesOf(n)
  BY <1>1 DEF CategoriesOf
<1>7. SampledBy(cat)'
  BY <1>1, <1>2, <1>3, <1>4, <1>5, <1>6 DEF SampledBy, OfCategory
<1>8. cat \in [DOMAIN indices' -> UNION {CategoriesOf(n)' : n \in DOMAIN indices'}]
  BY <1>1, <1>2, <1>6
<1> QED
  BY <1>1, <1>7, <1>8 DEF EsStInv

\* One category: its most recent indices are sampled and it is done.
LEMMA GatherBucketStep ==
  ASSUME EsStInv, NEW c \in DOMAIN buckets, GatherBucket(c)
  PROVE  EsStInv'
<1>1. /\ esPc = "buckets" /\ UNCHANGED <<esConf, matchers, esPc, indices, stale>>
      /\ buckets' = [b \in DOMAIN buckets \ {c} |-> buckets[b]]
  BY DEF GatherBucket, esIns
<1>2. PICK s \in [MostRecent(buckets[c]) -> UNION {IndexSamples(indices[n]) : n \in buckets[c]}] :
        DOMAIN samples' = DOMAIN samples \cup DOMAIN s
  BY DEF GatherBucket
<1>3. DOMAIN samples' = DOMAIN samples \cup MostRecent(buckets[c])
  BY <1>2
<1>4. \A n : CategoriesOf(n)' = CategoriesOf(n)
  BY <1>1 DEF CategoriesOf
<1>5. ASSUME ~stale
      PROVE  \E cat \in [DOMAIN indices' -> UNION {CategoriesOf(n)' : n \in DOMAIN indices'}] :
               SampledBy(cat)'
  <2>1. PICK cat \in [DOMAIN indices -> UNION {CategoriesOf(n) : n \in DOMAIN indices}] :
          SampledBy(cat)
    BY <1>1, <1>5 DEF EsStInv
  <2>2. /\ DOMAIN buckets' = DOMAIN buckets \ {c}
        /\ \A b \in DOMAIN buckets' : buckets'[b] = buckets[b]
    BY <1>1
  <2>3. \A b : OfCategory(cat, b)' = OfCategory(cat, b)
    BY <1>1 DEF OfCategory
  <2>4. buckets[c] = OfCategory(cat, c)
    BY <2>1 DEF SampledBy
  <2>5. \A S : MostRecent(S)' = MostRecent(S)
    BY <1>1 DEF MostRecent
  <2>6. \A S : MostRecent(S) \subseteq S
    BY DEF MostRecent
  <2>7. DOMAIN samples' = {n \in DOMAIN indices : /\ cat[n] \notin DOMAIN buckets'
                                                 /\ n \in MostRecent(OfCategory(cat, cat[n]))}
    <3>1. DOMAIN samples = {n \in DOMAIN indices : /\ cat[n] \notin DOMAIN buckets
                                                  /\ n \in MostRecent(OfCategory(cat, cat[n]))}
      BY <2>1 DEF SampledBy
    <3>2. \A n \in MostRecent(OfCategory(cat, c)) : n \in DOMAIN indices /\ cat[n] = c
      BY <2>6 DEF OfCategory
    <3> QED
      BY <1>3, <2>2, <2>4, <3>1, <3>2
  <2>8. SampledBy(cat)'
    BY <1>1, <1>4, <2>1, <2>2, <2>3, <2>5, <2>7 DEF SampledBy
  <2>9. cat \in [DOMAIN indices' -> UNION {CategoriesOf(n)' : n \in DOMAIN indices'}]
    BY <1>1, <1>4, <2>1
  <2> QED
    BY <2>8, <2>9
<1> QED
  BY <1>1, <1>5 DEF EsStInv

\* The last category is done.
LEMMA EndIndicesStep == ASSUME EsStInv, EndIndices PROVE EsStInv'
<1>1. /\ esPc = "buckets" /\ esPc' = "done" /\ DOMAIN buckets = {}
      /\ UNCHANGED <<esConf, matchers, indices, buckets, samples, stale>>
  BY DEF EndIndices, esIns
<1>2. \A n : CategoriesOf(n)' = CategoriesOf(n)
  BY <1>1 DEF CategoriesOf
<1>3. \A cat : SampledBy(cat)' <=> SampledBy(cat)
  BY <1>1 DEF SampledBy, OfCategory, CategoriesOf, MostRecent
<1> QED
  BY <1>1, <1>2, <1>3 DEF EsStInv

LEMMA EsStIdleStep == ASSUME EsStInv, UNCHANGED esStVars PROVE EsStInv'
<1>1. UNCHANGED <<esConf, matchers, esPc, indices, buckets, samples, stale>>
  BY DEF esStVars, esIns
<1>2. \A n : CategoriesOf(n)' = CategoriesOf(n)
  BY <1>1 DEF CategoriesOf
<1>3. \A cat : SampledBy(cat)' <=> SampledBy(cat)
  BY <1>1 DEF SampledBy, OfCategory, CategoriesOf, MostRecent
<1> QED
  BY <1>1, <1>2, <1>3 DEF EsStInv

LEMMA EsStStep == ASSUME EsStInv, [EsStNext]_esStVars PROVE EsStInv'
BY EsInitStep, AnswerStep, CategorizeStep, GatherBucketStep, EndIndicesStep, EsStIdleStep
   DEF EsStNext

LEMMA EsStDone == EsStInv => MostRecentSampled
<1> SUFFICES ASSUME EsStInv, esPc = "done", ~stale
             PROVE  /\ DOMAIN samples \subseteq DOMAIN indices
                    /\ \A n \in DOMAIN indices \ DOMAIN samples : \E p \in Patterns(n) :
                         esConf.recent > 0 /\
                         Cardinality({m \in DOMAIN samples : m > n /\ p \in Patterns(m)})
                           >= esConf.recent
                    /\ \A p \in Range(esConf.include) : esConf.recent > 0 =>
                         Cardinality({m \in DOMAIN samples : Patterns(m) = {p}}) <= esConf.recent
  BY DEF MostRecentSampled
<1> DEFINE r == esConf.recent
<1>1. PICK cat \in [DOMAIN indices -> UNION {CategoriesOf(n) : n \in DOMAIN indices}] :
        SampledBy(cat)
  BY DEF EsStInv
<1>2. /\ matchers = Range(esConf.include) /\ DOMAIN indices \subseteq Names
      /\ DOMAIN buckets = {} /\ r \in Int
  BY DEF EsStInv
<1>3. \A n \in DOMAIN indices : cat[n] \in CategoriesOf(n)
  BY <1>1 DEF SampledBy
<1>4. DOMAIN samples = {n \in DOMAIN indices : n \in MostRecent(OfCategory(cat, cat[n]))}
  BY <1>1, <1>2 DEF SampledBy
<1>5. \A n \in DOMAIN indices :
        \/ Patterns(n) = {} /\ cat[n] = <<"", n>>
        \/ \E p \in Patterns(n) : cat[n] = <<p>>
  BY <1>2, <1>3 DEF CategoriesOf, Patterns
<1>6. ASSUME NEW c
      PROVE  /\ OfCategory(cat, c) \subseteq Nat /\ IsFiniteSet(OfCategory(cat, c))
  <2>1. OfCategory(cat, c) \in SUBSET Names
    BY <1>2 DEF OfCategory
  <2>2. IsFiniteSet(OfCategory(cat, c))
    BY <2>1, EsStatsAssumption, FS_Subset
  <2> QED
    BY <2>1, <2>2, EsStatsAssumption
<1>7. IsFiniteSet(DOMAIN samples)
  <2>1. DOMAIN samples \in SUBSET Names
    BY <1>2, <1>4
  <2> QED
    BY <2>1, EsStatsAssumption, FS_Subset
<1>8. DOMAIN samples \subseteq DOMAIN indices
  BY <1>4
<1>9. ASSUME NEW n \in DOMAIN indices \ DOMAIN samples
      PROVE  \E p \in Patterns(n) :
               r > 0 /\ Cardinality({m \in DOMAIN samples : m > n /\ p \in Patterns(m)}) >= r
  <2> DEFINE S == OfCategory(cat, cat[n])
  <2>1. n \in S /\ S \subseteq Nat /\ IsFiniteSet(S)
    BY <1>6 DEF OfCategory
  <2>2. n \notin MostRecent(S)
    BY <1>4
  <2>3. r > 0 /\ r \in Nat /\ n \notin Largest(S, r)
    BY <1>2, <2>1, <2>2, MostRecentIs
  <2>4. Cardinality(Above(S, n)) >= r
    BY <2>1, <2>3, AboveFinite DEF Largest
  <2>5. PICK V \in SUBSET Above(S, n) : V \subseteq Largest(S, r) /\ Cardinality(V) >= r
    BY <2>1, <2>3, <2>4, LargestAbove
  <2>6. PICK p \in Patterns(n) : cat[n] = <<p>>
    <3>1. ASSUME cat[n] = <<"", n>>, Patterns(n) = {} PROVE FALSE
      <4>1. PICK m \in Above(S, n) : TRUE
        <5>1. Above(S, n) # {}
          <6>1. SUFFICES ASSUME Above(S, n) = {} PROVE FALSE
            OBVIOUS
          <6>2. Cardinality(Above(S, n)) = 0
            BY <6>1, FS_EmptySet
          <6> QED
            BY <2>3, <2>4, <6>2
        <5> QED
          BY <5>1
      <4>2. m \in DOMAIN indices /\ cat[m] = <<"", n>>
        BY <2>1, <3>1, <4>1 DEF Above, OfCategory
      <4>3. m > n /\ m \in Nat /\ n \in Nat
        BY <2>1, <4>1 DEF Above
      <4>4. cat[m] = <<"", m>> \/ \E q \in Patterns(m) : cat[m] = <<q>>
        BY <1>5, <4>2
      <4>5. \A q : <<q>> # <<"", n>>
        OBVIOUS
      <4>6. <<"", m>> = <<"", n>>
        BY <4>2, <4>4, <4>5
      <4>7. m = n
        BY <4>6
      <4> QED
        BY <4>7, <4>3
    <3> QED
      BY <1>5, <3>1
  <2> DEFINE W == {m \in DOMAIN samples : m > n /\ p \in Patterns(m)}
  <2>7. V \in SUBSET W
    <3> SUFFICES ASSUME NEW m \in V PROVE m \in W
      OBVIOUS
    <3>1. m \in DOMAIN indices /\ m > n /\ cat[m] = cat[n] /\ m \in Largest(S, r)
      BY <2>5 DEF Above, OfCategory
    <3>2. m \in DOMAIN samples
      BY <1>2, <1>4, <2>3, <3>1, MostRecentIs
    <3>3. p \in Patterns(m)
      <4>1. cat[m] = <<p>>
        BY <2>6, <3>1
      <4>2. <<"", m>> # <<p>> /\ \A q : <<q>> = <<p>> => q = p
        OBVIOUS
      <4> QED
        BY <1>5, <3>1, <4>1, <4>2
    <3> QED
      BY <3>1, <3>2, <3>3
  <2>8. IsFiniteSet(W) /\ Cardinality(W) \in Nat
    <3>1. W \in SUBSET DOMAIN samples
      OBVIOUS
    <3> QED
      BY <1>7, <3>1, FS_Subset, FS_CardinalityType
  <2>9. Cardinality(V) <= Cardinality(W) /\ IsFiniteSet(V)
    BY <2>7, <2>8, FS_Subset
  <2>10. Cardinality(V) \in Nat
    BY <2>9, FS_CardinalityType
  <2>11. Cardinality(W) >= r
    BY <2>3, <2>5, <2>8, <2>9, <2>10
  <2> QED
    BY <2>3, <2>6, <2>11
<1>10. ASSUME NEW p \in Range(esConf.include), r > 0
       PROVE  Cardinality({m \in DOMAIN samples : Patterns(m) = {p}}) <= r
  <2> DEFINE W == {m \in DOMAIN samples : Patterns(m) = {p}}
             S == OfCategory(cat, <<p>>)
             T == Largest(S, r)
  <2>1. r \in Nat /\ S \subseteq Nat /\ IsFiniteSet(S)
    BY <1>2, <1>6, <1>10
  <2>2. W \in SUBSET T
    <3> SUFFICES ASSUME NEW m \in DOMAIN samples, Patterns(m) = {p} PROVE m \in T
      OBVIOUS
    <3>1. m \in DOMAIN indices /\ cat[m] = <<p>>
      BY <1>5, <1>8
    <3>2. m \in MostRecent(S)
      BY <1>4, <3>1
    <3> QED
      BY <1>2, <1>10, <3>2, MostRecentIs
  <2>3. T \in SUBSET S /\ IsFiniteSet(T) /\ Cardinality(T) \in Nat
    <3>1. T \in SUBSET S
      BY DEF Largest
    <3> QED
      BY <2>1, <3>1, FS_Subset, FS_CardinalityType
  <2>4. Cardinality(T) <= r
    BY <2>1, LargestAtMost
  <2> HIDE DEF T
  <2>5. Cardinality(W) <= Cardinality(T) /\ IsFiniteSet(W)
    BY <2>2, <2>3, FS_Subset
  <2>6. Cardinality(W) \in Nat
    BY <2>5, FS_CardinalityType
  <2> QED
    BY <2>1, <2>3, <2>4, <2>5, <2>6
<1> QED
  BY <1>8, <1>9, <1>10

(***************************************************************************)
(* The three together.                                                      *)
(***************************************************************************)

LEMMA OneModelMoves ==
  ASSUME [HandlersNext]_handlersVars
  PROVE  [RdNext]_rdVars /\ [ChNext]_chVars /\ [EsStNext]_esStVars
BY DEF HandlersNext, GatherOf, supportModel, handlersVars

\* What a redis Gather pushes of an INFO answer is what the answer says line by
\* line, for every answer: the sections, the role and the fields that the loop
\* carries along add up to it, and only a hole in a keyspace list panics.
THEOREM InfoReadExactly == HandlersSpec => []InfoExact
<1>1. HandlersInit => RdInv
  BY RdInitInv DEF HandlersInit
<1>2. RdInv /\ [HandlersNext]_handlersVars => RdInv'
  BY RdStep, OneModelMoves
<1> QED
  BY <1>1, <1>2, RdDone, PTL DEF HandlersSpec

\* A clickhouse Gather with AutoDiscovery accounts for every configured server,
\* in the list or with an error, and asks every host that discovery named, by
\* whatever servers and clusters, exactly once for each of the twelve metrics.
THEOREM HostsAsked == HandlersSpec => []HostsAskedOnce
<1>1. HandlersInit => ChInv
  BY ChInitInv DEF HandlersInit
<1>2. ChInv /\ [HandlersNext]_handlersVars => ChInv'
  BY ChStep, OneModelMoves
<1> QED
  BY <1>1, <1>2, ChDone, PTL DEF HandlersSpec

\* elasticsearch samples the most recent indices: one that is left out is older
\* than as many sampled ones of a pattern of its own as are asked for, and none
\* but these, for every set of indices and patterns and every order in which
\* the matchers are tried.
THEOREM RecentIndicesSampled == HandlersSpec => []MostRecentSampled
<1>1. HandlersInit => EsStInv
  BY EsStInitInv DEF HandlersInit
<1>2. EsStInv /\ [HandlersNext]_handlersVars => EsStInv'
  BY EsStStep, OneModelMoves
<1> QED
  BY <1>1, <1>2, EsStDone, PTL DEF HandlersSpec
===============================================================================
