------------------------- MODULE TraceArchiveProofs -------------------------
(***************************************************************************)
(* Theorems about TraceArchive for every number of runs, commands, days    *)
(* and failures.                                                           *)
(***************************************************************************)
EXTENDS TraceArchive, TLAPS, FiniteSetTheorems, WellFoundedInduction

-----------------------------------------------------------------------------
(* A set of natural numbers that has an upper bound has a greatest element.  *)

LEMMA LeastOf ==
    ASSUME NEW T \in SUBSET Nat, NEW R,
           \A x, y \in Nat : y < x => <<y, x>> \in R,
           \E x \in T : \A y \in T : ~ (<<y, x>> \in R)
    PROVE  \E n \in T : \A m \in T : n <= m
<1>1. PICK x \in T : \A y \in T : ~ (<<y, x>> \in R)
  OBVIOUS
<1>2. ASSUME NEW y \in T
      PROVE  x <= y
  <2>1. x \in Nat /\ y \in Nat
    OBVIOUS
  <2>2. ~(y < x)
    BY <1>1, <2>1
  <2>3. QED
    BY <2>1, <2>2
<1>3. QED
  BY <1>2

LEMMA Least ==
    ASSUME NEW T \in SUBSET Nat, T # {}
    PROVE  \E n \in T : \A m \in T : n <= m
<1>1. \E x \in T : \A y \in T : ~ (<<y, x>> \in OpToRel(<, Nat))
  BY NatLessThanWellFounded, WFMin
<1>2. \A x, y \in Nat : y < x => <<y, x>> \in OpToRel(<, Nat)
  BY DEF OpToRel
<1>3. QED
  BY <1>1, <1>2, LeastOf, Zenon

\* find_investigation has a last row to choose.
LEMMA NewestIs ==
    ASSUME NEW S, S # {}, NEW bound \in Nat, \A row \in S : row.started \in 0..bound
    PROVE  Newest(S) \in S /\ \A other \in S : other.started <= Newest(S).started
<1> DEFINE T == {bound - row.started : row \in S}
<1>1. T \in SUBSET Nat /\ T # {}
  OBVIOUS
<1>2. PICK n \in T : \A m \in T : n <= m
  BY <1>1, Least
<1>3. PICK row \in S : n = bound - row.started
  BY <1>2
<1>4. ASSUME NEW other \in S
      PROVE  other.started <= row.started
  <2>1. bound - other.started \in T
    OBVIOUS
  <2>2. n <= bound - other.started
    BY <1>2, <2>1
  <2>3. other.started \in 0..bound /\ row.started \in 0..bound
    OBVIOUS
  <2>4. QED
    BY <1>3, <2>2, <2>3
<1>5. QED
  BY <1>4 DEF Newest

-----------------------------------------------------------------------------
(* Types, and the order of the steps.                                        *)

\* The rows of the table, whether the index shows them yet or not.
Entries == rows \cup arriving
Entered(i) == \E row \in Entries : row.inv = i

Types ==
    /\ step \in [Runs -> Writing \cup {"idle", "done", "dead"}]
    /\ DOMAIN invOf = Runs /\ DOMAIN started = Runs
    /\ DOMAIN html = Investigations /\ DOMAIN cmd = Commands
    /\ DOMAIN ref = Commands /\ DOMAIN found = Commands
    /\ \A w \in Runs : started[w].rank \in 0..Cardinality(Runs)
    /\ \A row \in Entries : row.started \in 0..Cardinality(Runs)

LEMMA WritingIs == Writing = {"manifest", "index", "results", "charts", "page"}
<1>1. DOMAIN Steps = 1..5
  BY DEF Steps
<1>2. Writing = {Steps[1], Steps[2], Steps[3], Steps[4], Steps[5]}
  BY <1>1 DEF Writing
<1>3. QED
  BY <1>2 DEF Steps

LEMMA AfterIs ==
    /\ After("manifest") = "index" /\ After("index") = "results"
    /\ After("results") = "charts" /\ After("charts") = "page" /\ After("page") = "done"
<1>1. DOMAIN Steps = 1..5 /\ Len(Steps) = 5
      /\ Steps[1] = "manifest" /\ Steps[2] = "index" /\ Steps[3] = "results"
      /\ Steps[4] = "charts" /\ Steps[5] = "page"
  BY DEF Steps
<1>2. \A i, j \in 1..5 : Steps[i] = Steps[j] => i = j
  BY <1>1
<1>3. ASSUME NEW i \in 1..5
      PROVE  After(Steps[i]) = IF i = 5 THEN "done" ELSE Steps[i + 1]
  <2>1. (CHOOSE n \in DOMAIN Steps : Steps[n] = Steps[i]) = i
    BY <1>1, <1>2
  <2>2. QED
    BY <1>1, <2>1 DEF After
<1>4. QED
  BY <1>1, <1>3

PastManifest == {"index", "results", "charts", "page", "done"}
PastIndex == PastManifest \ {"index"}
PastResults == PastIndex \ {"results"}
PastCharts == PastResults \ {"charts"}

-----------------------------------------------------------------------------
(* The bucket keeps a key that it has.                                       *)

FiledOn(os, kind, inv, day) == \E o \in os : o.kind = kind /\ o.inv = inv /\ o.day = day

Keeps ==
    /\ failed \subseteq failed'
    /\ \A o \in objects : \E p \in objects' : p.kind = o.kind /\ p.inv = o.inv /\ p.day = o.day

LEMMA FaultKeeps == \A what : Fault(what) => failed' = failed \cup {what}
BY DEF Fault

LEMMA MissingIs == \A answer : Missing(answer) =>
    (failed' = failed /\ answer = {}) \/ failed' = failed \cup {"read"}
BY DEF Missing, Fault

LEMMA PutIs ==
    ASSUME NEW o, objects' = Put(o)
    PROVE  /\ o \in objects' /\ \A p \in objects' : p \in objects \/ p = o
           /\ failed \subseteq failed' => Keeps
BY DEF Put, Keeps

LEMMA FiledStays ==
    ASSUME Keeps, NEW kind, NEW inv, NEW day, FiledOn(objects, kind, inv, day)
    PROVE  FiledOn(objects', kind, inv, day)
BY DEF Keeps, FiledOn

LEMMA WriteIs ==
    ASSUME Types, NEW w \in Runs, Write(w)
    PROVE  /\ step[w] \in Writing /\ step'[w] = After(step[w])
           /\ \A v \in Runs \ {w} : step'[v] = step[v]
           /\ UNCHANGED <<invOf, started, renders, html, cmd, ref, found, review>>
           /\ \/ Stored(w, step[w]) /\ UNCHANGED failed
              \/ failed' = failed \cup {step[w]} /\ UNCHANGED <<objects, index, triggers>>
           /\ failed \subseteq failed' /\ Keeps
<1>1. /\ step[w] \in Writing /\ step' = [step EXCEPT ![w] = After(step[w])]
      /\ UNCHANGED <<invOf, started, renders, html, cmd, ref, found, review>>
  BY DEF Write, commands
<1>2. \/ Stored(w, step[w]) /\ UNCHANGED failed
      \/ failed' = failed \cup {step[w]} /\ UNCHANGED <<objects, index, triggers>>
  BY FaultKeeps DEF Write, archive
<1>3. failed \subseteq failed'
  BY <1>2
<1>4. \/ UNCHANGED objects
      \/ \E o : objects' = Put(o)
  BY <1>2 DEF Stored, Filed
<1>5. Keeps
  BY <1>3, <1>4, PutIs DEF Keeps
<1>6. QED
  BY <1>1, <1>2, <1>3, <1>5 DEF Types

\* What writing a row does to the table, and what its arrival and its end do.
LEMMA IndexedIs ==
    ASSUME NEW w, Indexed(w)
    PROVE  /\ Entries' \subseteq Entries \cup {Row(w)} /\ Row(w) \in Entries'
           /\ Row(w).inv = invOf[w] /\ Row(w).started = started[w].rank
           /\ Row(w).day = started[w].day
           /\ \A i : Entered(i) => Entered(i)'
           /\ aged' \subseteq aged
<1>1. /\ Row(w).inv = invOf[w] /\ Row(w).started = started[w].rank
      /\ Row(w).day = started[w].day
  BY DEF Row, Partition
<1>2. /\ arriving' = {other \in arriving : other.inv # invOf[w]} \cup {Row(w)}
      /\ UNCHANGED rows /\ aged' \subseteq aged
  BY <1>1 DEF Indexed, Replaced
<1>3. Entries' \subseteq Entries \cup {Row(w)} /\ Row(w) \in Entries'
  BY <1>2 DEF Entries
<1>4. ASSUME NEW i, NEW row \in Entries, row.inv = i
      PROVE  Entered(i)'
  <2>1. CASE i = invOf[w]
    BY <1>1, <1>3, <2>1 DEF Entered
  <2>2. CASE i # invOf[w]
    BY <1>2, <1>4, <2>2 DEF Entries, Entered
  <2>3. QED
    BY <2>1, <2>2
<1>5. QED
  BY <1>1, <1>2, <1>3, <1>4 DEF Entered

IndexSteps == (\E row \in arriving : Arrive(row)) \/ (\E row \in rows : Expire(row))

LEMMA IndexStepsIs ==
    ASSUME IndexSteps
    PROVE  /\ UNCHANGED <<runs, objects, pages, commands, failed>>
           /\ Entries' \subseteq Entries /\ aged \subseteq aged'
           /\ \A i : Entered(i) => Entered(i)' \/ i \in aged'
<1>1. ASSUME NEW row \in arriving, Arrive(row)
      PROVE  /\ UNCHANGED <<runs, objects, pages, commands, failed>>
             /\ Entries' \subseteq Entries /\ aged \subseteq aged'
             /\ \A i : Entered(i) => Entered(i)'
  <2>1. /\ UNCHANGED <<runs, objects, aged, pages, commands, failed>>
        /\ arriving' = arriving \ {row}
        /\ rows' = {other \in rows : other.inv # row.inv} \cup {row}
    BY <1>1 DEF Arrive, Replaced
  <2>2. ASSUME NEW i, NEW e \in Entries, e.inv = i
        PROVE  \E f \in Entries' : f.inv = i
    <3>1. CASE i = row.inv
      BY <2>1, <3>1 DEF Entries
    <3>2. CASE i # row.inv
      BY <2>1, <2>2, <3>2 DEF Entries
    <3>3. QED
      BY <3>1, <3>2
  <2>3. QED
    BY <2>1, <2>2 DEF Entries, Entered
<1>2. ASSUME NEW row \in rows, Expire(row)
      PROVE  /\ UNCHANGED <<runs, objects, pages, commands, failed>>
             /\ Entries' \subseteq Entries /\ aged \subseteq aged'
             /\ \A i : Entered(i) => Entered(i)' \/ i \in aged'
  <2>1. /\ UNCHANGED <<runs, objects, arriving, pages, commands, failed>>
        /\ rows' = rows \ {row} /\ aged' = aged \cup {row.inv}
    BY <1>2 DEF Expire
  <2>2. QED
    BY <2>1 DEF Entries, Entered
<1>3. QED
  BY <1>1, <1>2 DEF IndexSteps

LEMMA InitTypes == Init => Types
<1> SUFFICES ASSUME Init
             PROVE  Types
  OBVIOUS
<1>1. Cardinality(Runs) \in Nat /\ 0 \in 0..Cardinality(Runs)
  BY ArchiveAssumption, FS_CardinalityType
<1>2. QED
  BY <1>1 DEF Init, Types, Entries

LEMMA TypesStep == Types /\ [Next]_vars => Types'
<1> SUFFICES ASSUME Types, [Next]_vars
             PROVE  Types'
  OBVIOUS
<1>1. ASSUME NEW w \in Runs, NEW i \in Investigations, Begin(w, i)
      PROVE  Types'
  <2>1. Cardinality({v \in Runs : step[v] # "idle"}) \in 0..Cardinality(Runs)
    <3>1. {v \in Runs : step[v] # "idle"} \in SUBSET Runs
      OBVIOUS
    <3>2. QED
      BY <3>1, ArchiveAssumption, FS_Subset, FS_CardinalityType
  <2>2. /\ step' = [step EXCEPT ![w] = "manifest"] /\ invOf' = [invOf EXCEPT ![w] = i]
        /\ started' = [started EXCEPT ![w] =
             [day |-> today, rank |-> Cardinality({v \in Runs : step[v] # "idle"})]]
        /\ UNCHANGED <<index, html, cmd, ref, found>>
    BY <1>1 DEF Begin, archive, pages, commands
  <2>3. \A v \in Runs : started'[v].rank \in 0..Cardinality(Runs)
    BY <2>1, <2>2 DEF Types
  <2>4. QED
    BY <2>2, <2>3, WritingIs DEF Types, Entries, index
<1>2. ASSUME NEW w \in Runs, Write(w)
      PROVE  Types'
  <2>1. step' = [step EXCEPT ![w] = After(step[w])] /\ step[w] \in Writing
        /\ UNCHANGED <<invOf, started, html, cmd, ref, found>>
    BY <1>2 DEF Write, commands
  <2>2. After(step[w]) \in Writing \cup {"idle", "done", "dead"}
    BY <2>1, WritingIs, AfterIs
  <2>3. UNCHANGED index \/ Indexed(w)
    BY <1>2 DEF Write, Stored, archive
  <2>4. \A row \in Entries' : row.started \in 0..Cardinality(Runs)
    <3>1. CASE UNCHANGED index
      BY <3>1 DEF index, Entries, Types
    <3>2. CASE Indexed(w)
      BY <3>2, IndexedIs DEF Types
    <3>3. QED
      BY <2>3, <3>1, <3>2
  <2>5. QED
    BY <2>1, <2>2, <2>4 DEF Types
<1>3. ASSUME NEW w \in Runs, Crash(w)
      PROVE  Types'
  BY <1>3 DEF Crash, archive, index, pages, commands, Types, Entries
<1>4. CASE UNCHANGED <<step, invOf, started, index>> /\ DOMAIN html' = DOMAIN html
           /\ DOMAIN cmd' = DOMAIN cmd /\ DOMAIN ref' = DOMAIN ref /\ DOMAIN found' = DOMAIN found
  BY <1>4 DEF Types, Entries, index
<1>5. ASSUME NEW t \in triggers, RenderReads(t)
      PROVE  Types'
  BY <1>4, <1>5 DEF RenderReads, runs, archive, commands
<1>6. ASSUME NEW r \in renders, RenderWrites(r)
      PROVE  Types'
  BY <1>4, <1>6 DEF RenderWrites, runs, archive, commands
<1>7. ASSUME NEW c \in Commands,
             \/ Find(c) \/ Recover(c, "manifest", "results") \/ Recover(c, "results", "posting")
             \/ Post(c) \/ Close(c) \/ Closed(c)
      PROVE  Types'
  BY <1>4, <1>7 DEF Find, Recover, Post, Close, Closed, Go, runs, archive, pages
<1>8. CASE Midnight \/ UNCHANGED vars
  BY <1>4, <1>8 DEF Midnight, vars, runs, archive, pages, commands
<1>9. CASE IndexSteps
  BY <1>9, IndexStepsIs DEF runs, pages, commands, Types
<1>10. QED
  BY <1>1, <1>2, <1>3, <1>5, <1>6, <1>7, <1>8, <1>9 DEF Next, IndexSteps

-----------------------------------------------------------------------------
(* Charts are filed before the page that shows them.                         *)

Drawable(os, fs, i) == "charts" \in fs \/ \E o \in os : o.kind = "charts" /\ o.inv = i
Excused(os, fs, i) ==
    \/ fs \cap {"charts", "chart"} # {}
    \/ \E o, p \in os : /\ o.kind = "charts" /\ p.kind = "page"
                        /\ o.inv = i /\ p.inv = i /\ o.day # p.day

\* From the writing of the charts to the page that is served.
RunsChart == \A w \in Runs : step[w] \in PastCharts => Drawable(objects, failed, invOf[w])
PagesChart == \A p \in objects : p.kind = "page" => Drawable(objects, failed, p.inv)
Notified == \A t \in triggers : FiledOn(objects, "page", t.inv, t.day)
Closing ==
    \A c \in Commands : cmd[c] = "closing" => FiledOn(objects, "page", ref[c].inv, ref[c].day)
Drawing == \A r \in renders : ~r.drawn => Excused(objects, failed, r.inv)
Served ==
    \A i \in Investigations : html[i].served /\ ~html[i].drawn => Excused(objects, failed, i)
Charted == RunsChart /\ PagesChart /\ Notified /\ Closing /\ Drawing /\ Served

LEMMA ServedIs == Served => ChartsBeforePage
BY DEF Served, ChartsBeforePage, Excused

LEMMA DrawableStays ==
    ASSUME Keeps, NEW i, Drawable(objects, failed, i)
    PROVE  Drawable(objects', failed', i)
BY DEF Keeps, Drawable

LEMMA ExcusedStays ==
    ASSUME Keeps, NEW i, Excused(objects, failed, i)
    PROVE  Excused(objects', failed', i)
<1>1. CASE failed \cap {"charts", "chart"} # {}
  BY <1>1 DEF Keeps, Excused
<1>2. CASE failed \cap {"charts", "chart"} = {}
  <2>1. PICK o, p \in objects : /\ o.kind = "charts" /\ p.kind = "page"
                                /\ o.inv = i /\ p.inv = i /\ o.day # p.day
    BY <1>2 DEF Excused
  <2>2. PICK q \in objects' : q.kind = "charts" /\ q.inv = i /\ q.day = o.day
    BY <2>1 DEF Keeps
  <2>3. PICK r \in objects' : r.kind = "page" /\ r.inv = i /\ r.day = p.day
    BY <2>1 DEF Keeps
  <2>4. QED
    BY <2>1, <2>2, <2>3 DEF Excused
<1>3. QED
  BY <1>1, <1>2

LEMMA InitCharted == Init => Charted
BY DEF Init, Charted, RunsChart, PagesChart, Notified, Closing, Drawing, Served, NoPage,
       PastCharts, PastResults, PastIndex, PastManifest

\* What stands while the bucket keeps its keys: each part of Charted, of a run, a
\* page, a notification, a command, a render and a page served that stay as they are.
LEMMA ChartedStays ==
    ASSUME Charted, Keeps
    PROVE  /\ \A w \in Runs : step[w] \in PastCharts => Drawable(objects', failed', invOf[w])
           /\ \A p \in objects : p.kind = "page" => Drawable(objects', failed', p.inv)
           /\ \A t \in triggers : FiledOn(objects', "page", t.inv, t.day)
           /\ \A c \in Commands :
                cmd[c] = "closing" => FiledOn(objects', "page", ref[c].inv, ref[c].day)
           /\ \A r \in renders : ~r.drawn => Excused(objects', failed', r.inv)
           /\ \A i \in Investigations :
                html[i].served /\ ~html[i].drawn => Excused(objects', failed', i)
<1>1. ASSUME NEW w \in Runs, step[w] \in PastCharts
      PROVE  Drawable(objects', failed', invOf[w])
  BY <1>1, DrawableStays DEF Charted, RunsChart
<1>2. ASSUME NEW p \in objects, p.kind = "page"
      PROVE  Drawable(objects', failed', p.inv)
  BY <1>2, DrawableStays DEF Charted, PagesChart
<1>3. ASSUME NEW t \in triggers
      PROVE  FiledOn(objects', "page", t.inv, t.day)
  BY <1>3, FiledStays DEF Charted, Notified
<1>4. ASSUME NEW c \in Commands, cmd[c] = "closing"
      PROVE  FiledOn(objects', "page", ref[c].inv, ref[c].day)
  BY <1>4, FiledStays DEF Charted, Closing
<1>5. ASSUME NEW r \in renders, ~r.drawn
      PROVE  Excused(objects', failed', r.inv)
  BY <1>5, ExcusedStays DEF Charted, Drawing
<1>6. ASSUME NEW i \in Investigations, html[i].served, ~html[i].drawn
      PROVE  Excused(objects', failed', i)
  BY <1>6, ExcusedStays DEF Charted, Served
<1>7. QED
  BY <1>1, <1>2, <1>3, <1>4, <1>5, <1>6

\* A file of a kind that has been put, with the notification that a page brings.
LEMMA FileCharted ==
    ASSUME Charted, NEW o, objects' = Put(o), failed \subseteq failed',
           o.kind = "page" => Drawable(objects, failed, o.inv)
    PROVE  PagesChart' /\ Keeps /\ o \in objects'
<1>1. o \in objects' /\ (\A p \in objects' : p \in objects \/ p = o) /\ Keeps
  BY PutIs
<1>2. ASSUME NEW p \in objects', p.kind = "page"
      PROVE  Drawable(objects', failed', p.inv)
  <2>1. CASE p = o
    BY <1>1, <1>2, <2>1, DrawableStays
  <2>2. CASE p \in objects
    BY <1>1, <1>2, <2>2, ChartedStays
  <2>3. QED
    BY <1>1, <2>1, <2>2
<1>3. QED
  BY <1>1, <1>2 DEF PagesChart

LEMMA WriteCharted ==
    ASSUME Types, Charted, NEW w \in Runs, Write(w)
    PROVE  Charted'
<1>1. /\ step[w] \in Writing /\ step'[w] = After(step[w])
      /\ \A v \in Runs \ {w} : step'[v] = step[v]
      /\ UNCHANGED <<invOf, started, renders, html, cmd, ref>>
      /\ \/ Stored(w, step[w]) /\ UNCHANGED failed
         \/ failed' = failed \cup {step[w]} /\ UNCHANGED <<objects, triggers>>
      /\ failed \subseteq failed' /\ Keeps
  BY WriteIs
<1>2. /\ Closing' /\ Drawing' /\ Served'
  BY <1>1, ChartedStays DEF Closing, Drawing, Served
<1>3. step[w] = "page" => Drawable(objects, failed, invOf[w])
  BY DEF Charted, RunsChart, PastCharts, PastResults, PastIndex, PastManifest
<1>4. \/ UNCHANGED <<objects, triggers>>
      \/ \E day : /\ objects' = Put(Record(w, step[w], day))
                  /\ triggers' = triggers \cup
                       IF step[w] = "page" THEN {[inv |-> invOf[w], day |-> day, by |-> w]} ELSE {}
  BY <1>1 DEF Stored, Filed
<1>5. ASSUME UNCHANGED <<objects, triggers>>
      PROVE  PagesChart' /\ Notified'
  BY <1>1, <1>5, ChartedStays DEF PagesChart, Notified
<1>6. ASSUME NEW day, objects' = Put(Record(w, step[w], day)),
             triggers' = triggers \cup
                 IF step[w] = "page" THEN {[inv |-> invOf[w], day |-> day, by |-> w]} ELSE {}
      PROVE  PagesChart' /\ Notified'
  <2>1. /\ Record(w, step[w], day).kind = step[w]
        /\ Record(w, step[w], day).inv = invOf[w] /\ Record(w, step[w], day).day = day
    BY DEF Record
  <2>2. PagesChart' /\ Record(w, step[w], day) \in objects'
    BY <1>1, <1>3, <1>6, <2>1, FileCharted
  <2>3. step[w] = "page" => FiledOn(objects', "page", invOf[w], day)
    BY <2>1, <2>2 DEF FiledOn
  <2>4. ASSUME NEW t \in triggers'
        PROVE  FiledOn(objects', "page", t.inv, t.day)
    <3>1. CASE t \in triggers
      BY <1>1, <3>1, ChartedStays
    <3>2. CASE t \notin triggers
      BY <1>6, <2>3, <3>2
    <3>3. QED
      BY <3>1, <3>2
  <2>5. QED
    BY <2>2, <2>4 DEF Notified
<1>7. PagesChart' /\ Notified'
  BY <1>4, <1>5, <1>6
<1>8. step[w] = "charts" => Drawable(objects', failed', invOf[w])
  <2> SUFFICES ASSUME step[w] = "charts"
               PROVE  Drawable(objects', failed', invOf[w])
    OBVIOUS
  <2>1. CASE failed' = failed \cup {"charts"}
    BY <2>1 DEF Drawable
  <2>2. CASE Stored(w, "charts")
    <3>1. PICK day : objects' = Put(Record(w, "charts", day))
      BY <2>2 DEF Stored, Filed
    <3>2. Record(w, "charts", day) \in objects'
      BY <3>1, PutIs
    <3>3. Record(w, "charts", day).kind = "charts" /\ Record(w, "charts", day).inv = invOf[w]
      BY DEF Record
    <3>4. QED
      BY <3>2, <3>3 DEF Drawable
  <2>3. QED
    BY <1>1, <2>1, <2>2
<1>9. step'[w] \in PastCharts => step[w] \in {"charts", "page"}
  BY <1>1, WritingIs, AfterIs DEF PastCharts, PastResults, PastIndex, PastManifest
<1>10. ASSUME NEW v \in Runs, step'[v] \in PastCharts
       PROVE  Drawable(objects', failed', invOf'[v])
  <2>1. CASE v = w
    BY <1>1, <1>3, <1>8, <1>9, <1>10, <2>1, DrawableStays
  <2>2. CASE v # w
    BY <1>1, <1>10, <2>2, ChartedStays
  <2>3. QED
    BY <2>1, <2>2
<1>11. QED
  BY <1>2, <1>7, <1>10 DEF Charted, RunsChart

\* A render sees the page it was notified of; without its charts, they are filed
\* under another day or could not be read.
LEMMA RenderCharted ==
    ASSUME Charted, NEW t \in triggers, RenderReads(t)
    PROVE  Charted'
<1>1. /\ UNCHANGED <<step, invOf, objects, html, cmd, ref>> /\ triggers' \subseteq triggers
      /\ \/ UNCHANGED renders
         \/ \E page \in Get("page", t), drawn \in BOOLEAN :
              /\ ChartsRead(t, drawn)
              /\ renders' = renders \cup
                   {[inv |-> t.inv, by |-> t.by, resolved |-> page.resolved, drawn |-> drawn]}
      /\ failed \subseteq failed'
  BY FaultKeeps DEF RenderReads, ChartsRead, runs, archive, commands
<1>2. Keeps
  BY <1>1 DEF Keeps
<1>3. ASSUME Get("charts", t) = {}
      PROVE  Excused(objects, failed, t.inv)
  <2>1. PICK page \in objects : page.kind = "page" /\ page.inv = t.inv /\ page.day = t.day
    BY DEF Charted, Notified, FiledOn
  <2>2. Drawable(objects, failed, t.inv)
    BY <2>1 DEF Charted, PagesChart
  <2>3. CASE "charts" \in failed
    BY <2>3 DEF Excused
  <2>4. CASE "charts" \notin failed
    <3>1. PICK o \in objects : o.kind = "charts" /\ o.inv = t.inv
      BY <2>2, <2>4 DEF Drawable
    <3>2. o.day # t.day
      BY <1>3, <3>1 DEF Get
    <3>3. QED
      BY <2>1, <3>1, <3>2 DEF Excused
  <2>5. QED
    BY <2>3, <2>4
<1>4. ASSUME NEW r \in renders', ~r.drawn
      PROVE  Excused(objects', failed', r.inv)
  <2>1. CASE r \in renders
    BY <1>2, <1>4, <2>1, ChartedStays
  <2>2. CASE r \notin renders
    <3>1. r.inv = t.inv /\ ChartsRead(t, r.drawn)
      BY <1>1, <2>2
    <3>2. CASE Get("charts", t) = {}
      BY <1>2, <1>3, <3>1, <3>2, ExcusedStays
    <3>3. CASE Get("charts", t) # {}
      <4>1. Fault("chart")
        BY <1>4, <3>1, <3>3 DEF ChartsRead
      <4>2. QED
        BY <4>1, FaultKeeps DEF Excused
    <3>4. QED
      BY <3>2, <3>3
  <2>3. QED
    BY <2>1, <2>2
<1>5. RunsChart' /\ PagesChart' /\ Notified' /\ Closing' /\ Served'
  BY <1>1, <1>2, ChartedStays DEF RunsChart, PagesChart, Notified, Closing, Served
<1>6. QED
  BY <1>4, <1>5 DEF Charted, Drawing

LEMMA ServeCharted ==
    ASSUME Types, Charted, NEW r \in renders, RenderWrites(r)
    PROVE  Charted'
<1>1. /\ UNCHANGED <<step, invOf, objects, triggers, cmd, ref, failed>> /\ renders' \subseteq renders
      /\ html' = [html EXCEPT ![r.inv] = Rendered(r)]
  BY DEF RenderWrites, runs, archive, commands
<1>2. Keeps
  BY <1>1 DEF Keeps
<1>3. ASSUME NEW i \in Investigations, html'[i].served, ~html'[i].drawn
      PROVE  Excused(objects', failed', i)
  <2>1. CASE i = r.inv
    <3>1. html'[i].drawn = r.drawn
      BY <1>1, <2>1 DEF Types, Rendered
    <3>2. QED
      BY <1>2, <1>3, <2>1, <3>1, ChartedStays
  <2>2. CASE i # r.inv
    <3>1. html'[i] = html[i]
      BY <1>1, <2>2 DEF Types
    <3>2. QED
      BY <1>2, <1>3, <3>1, ChartedStays
  <2>3. QED
    BY <2>1, <2>2
<1>4. RunsChart' /\ PagesChart' /\ Notified' /\ Closing' /\ Drawing'
  BY <1>1, <1>2, ChartedStays DEF RunsChart, PagesChart, Notified, Closing, Drawing
<1>5. QED
  BY <1>3, <1>4 DEF Charted, Served, Investigations

LEMMA BeginCharted ==
    ASSUME Types, Charted, NEW w \in Runs, NEW i \in Investigations, Begin(w, i)
    PROVE  Charted'
<1>1. /\ step' = [step EXCEPT ![w] = "manifest"] /\ invOf' = [invOf EXCEPT ![w] = i]
      /\ UNCHANGED <<objects, triggers, renders, html, cmd, ref, failed>>
  BY DEF Begin, archive, pages, commands
<1>2. Keeps
  BY <1>1 DEF Keeps
<1>3. ASSUME NEW v \in Runs, step'[v] \in PastCharts
      PROVE  Drawable(objects', failed', invOf'[v])
  <2>1. v # w
    BY <1>1, <1>3 DEF Types, PastCharts, PastResults, PastIndex, PastManifest
  <2>2. step'[v] = step[v] /\ invOf'[v] = invOf[v]
    BY <1>1, <2>1 DEF Types
  <2>3. QED
    BY <1>2, <1>3, <2>2, ChartedStays
<1>4. PagesChart' /\ Notified' /\ Closing' /\ Drawing' /\ Served'
  BY <1>1, <1>2, ChartedStays DEF PagesChart, Notified, Closing, Drawing, Served
<1>5. QED
  BY <1>3, <1>4 DEF Charted, RunsChart

\* A command files nothing before it closes the page, and only one that is there.
LEMMA CommandCharted ==
    ASSUME Types, Charted, NEW c \in Commands,
           \/ Find(c) \/ Recover(c, "manifest", "results") \/ Recover(c, "results", "posting")
           \/ Post(c) \/ Close(c)
    PROVE  Charted'
<1>1. /\ UNCHANGED <<step, invOf, objects, triggers, renders, html>>
      /\ failed \subseteq failed'
  BY FaultKeeps DEF Missing, Find, Recover, Post, Close, runs, archive, pages
<1>2. Keeps
  BY <1>1 DEF Keeps
<1>3. /\ \E s : cmd' = [cmd EXCEPT ![c] = s]
      /\ \A d \in Commands \ {c} : ref'[d] = ref[d]
      /\ cmd'[c] = "closing" => ref'[c] = ref[c] /\ PageOf(ref[c]) # {}
  BY DEF Types, Find, Recover, Post, Close, Go
<1>4. ASSUME NEW d \in Commands, cmd'[d] = "closing"
      PROVE  FiledOn(objects', "page", ref'[d].inv, ref'[d].day)
  <2>1. CASE d = c
    BY <1>1, <1>3, <1>4, <2>1 DEF PageOf, Get, FiledOn
  <2>2. CASE d # c
    <3>1. cmd[d] = "closing" /\ ref'[d] = ref[d]
      BY <1>3, <1>4, <2>2 DEF Types
    <3>2. QED
      BY <1>2, <3>1, ChartedStays
  <2>3. QED
    BY <2>1, <2>2
<1>5. RunsChart' /\ PagesChart' /\ Notified' /\ Drawing' /\ Served'
  BY <1>1, <1>2, ChartedStays DEF RunsChart, PagesChart, Notified, Drawing, Served
<1>6. QED
  BY <1>4, <1>5 DEF Charted, Closing

LEMMA ClosedCharted ==
    ASSUME Types, Charted, NEW c \in Commands, Closed(c)
    PROVE  Charted'
<1> DEFINE o == [kind |-> "page", inv |-> ref[c].inv, day |-> ref[c].day,
                 of |-> review[c][1], resolved |-> TRUE]
           n == [inv |-> ref[c].inv, day |-> ref[c].day, by |-> c]
<1>1. /\ UNCHANGED <<step, invOf, renders, html, ref, failed>>
      /\ cmd[c] = "closing" /\ cmd' = [cmd EXCEPT ![c] = "over"]
      /\ objects' = Put(o) /\ triggers' = triggers \cup {n}
  BY DEF Closed, Go, runs
<1>2. Drawable(objects, failed, ref[c].inv)
  <2>1. PICK p \in objects : p.kind = "page" /\ p.inv = ref[c].inv
    BY <1>1 DEF Charted, Closing, FiledOn
  <2>2. QED
    BY <2>1 DEF Charted, PagesChart
<1>3. o.kind = "page" /\ o.inv = ref[c].inv /\ o.day = ref[c].day
      /\ n.inv = ref[c].inv /\ n.day = ref[c].day
  OBVIOUS
<1> HIDE DEF o, n
<1>4. PagesChart' /\ Keeps /\ o \in objects'
  BY <1>1, <1>2, <1>3, FileCharted
<1>5. ASSUME NEW t \in triggers'
      PROVE  FiledOn(objects', "page", t.inv, t.day)
  <2>1. CASE t = n
    BY <1>3, <1>4, <2>1 DEF FiledOn
  <2>2. CASE t \in triggers
    BY <1>4, <2>2, ChartedStays
  <2>3. QED
    BY <1>1, <2>1, <2>2
<1>6. RunsChart' /\ Drawing' /\ Served'
  BY <1>1, <1>4, ChartedStays DEF RunsChart, Drawing, Served
<1>7. ASSUME NEW d \in Commands, cmd'[d] = "closing"
      PROVE  FiledOn(objects', "page", ref'[d].inv, ref'[d].day)
  <2>1. cmd[d] = "closing"
    BY <1>1, <1>7 DEF Types
  <2>2. QED
    BY <1>1, <1>4, <2>1, ChartedStays
<1>8. QED
  BY <1>4, <1>5, <1>6, <1>7 DEF Charted, Notified, Closing

LEMMA ChartedStep == Types /\ Charted /\ [Next]_vars => Charted'
<1> SUFFICES ASSUME Types, Charted, [Next]_vars
             PROVE  Charted'
  OBVIOUS
<1>1. ASSUME NEW w \in Runs, Crash(w)
      PROVE  Charted'
  <2>1. /\ UNCHANGED <<invOf, objects, triggers, renders, html, cmd, ref>>
        /\ step' = [step EXCEPT ![w] = "dead"] /\ failed \subseteq failed'
    BY <1>1, FaultKeeps DEF Crash, archive, pages, commands
  <2>2. Keeps
    BY <2>1 DEF Keeps
  <2>3. \A v \in Runs : step'[v] \in PastCharts => step[v] \in PastCharts
    BY <2>1 DEF Types, PastCharts, PastResults, PastIndex, PastManifest
  <2>4. QED
    BY <2>1, <2>2, <2>3, ChartedStays DEF Charted, RunsChart, PagesChart, Notified, Closing,
       Drawing, Served
<1>2. CASE Midnight \/ UNCHANGED vars
  <2>1. UNCHANGED <<step, invOf, objects, triggers, renders, html, cmd, ref, failed>>
    BY <1>2 DEF Midnight, vars, runs, archive, pages, commands
  <2>2. QED
    BY <2>1 DEF Charted, RunsChart, PagesChart, Notified, Closing, Drawing, Served
<1>3. CASE IndexSteps
  <2>1. UNCHANGED <<step, invOf, objects, triggers, renders, html, cmd, ref, failed>>
    BY <1>3, IndexStepsIs DEF runs, pages, commands
  <2>2. QED
    BY <2>1 DEF Charted, RunsChart, PagesChart, Notified, Closing, Drawing, Served
<1>4. QED
  BY <1>1, <1>2, <1>3, BeginCharted, WriteCharted, RenderCharted, ServeCharted, CommandCharted,
     ClosedCharted DEF Next, IndexSteps

\* put_page_model: a page served without its charts is one whose charts could not be
\* written or read, or were filed under another day than the page, whatever fails or
\* renders in between.
THEOREM ChartsComeFirst == Spec => []ChartsBeforePage
<1>1. Init => Types /\ Charted
  BY InitTypes, InitCharted
<1>2. Types /\ Charted /\ [Next]_vars => Types' /\ Charted'
  BY TypesStep, ChartedStep
<1>3. Charted => ChartsBeforePage
  BY ServedIs DEF Charted
<1>4. QED
  BY <1>1, <1>2, <1>3, PTL DEF Spec

-----------------------------------------------------------------------------
(* What a run has written is found under the day it began.                   *)

Clean == failed \subseteq PageFailures
Manifested == \A w \in Runs : step[w] \in PastManifest =>
                 FiledOn(objects, "manifest", invOf[w], started[w].day)
Resulted == \A w \in Runs : step[w] \in PastResults =>
               FiledOn(objects, "results", invOf[w], started[w].day)
Listed ==
    \A w \in Runs : step[w] \in PastIndex => Entered(invOf[w]) \/ invOf[w] \in aged
\* A row is that of a run that has got past writing it.
Written(row) ==
    \E w \in Runs : step[w] \in PastIndex /\ row.inv = invOf[w] /\ row.day = started[w].day
Sourced == \A row \in Entries : Written(row)
Alive == \A w \in Runs : step[w] # "dead"
Reviewable(c) == /\ FiledOn(objects, "manifest", ref[c].inv, ref[c].day)
                 /\ FiledOn(objects, "results", ref[c].inv, ref[c].day)
Looking == \A c \in Commands :
              cmd[c] \in {"manifest", "results"} /\ Calm(c) => Reviewable(c)
Kept == Manifested /\ Resulted /\ Listed /\ Sourced /\ Alive
Recorded == Clean => Kept /\ Looking /\ RecordIsFound

LEMMA PageFailuresAre == PageFailures = {"charts", "page", "chart", "render"}
BY DEF PageFailures

\* The parts that speak of runs stand while the bucket keeps its keys.
LEMMA KeptStays ==
    ASSUME Kept, Keeps, UNCHANGED <<step, invOf, started, index>>
    PROVE  Kept'
<1>1. Manifested' /\ Resulted'
  BY FiledStays DEF Kept, Manifested, Resulted
<1>2. Listed' /\ Sourced' /\ Alive'
  BY DEF Kept, Listed, Sourced, Alive, Written, Entered, Entries, index
<1>3. QED
  BY <1>1, <1>2 DEF Kept

LEMMA LookingStays ==
    ASSUME Looking, Keeps, UNCHANGED <<cmd, ref, found>>
    PROVE  Looking'
BY FiledStays DEF Looking, Reviewable, Calm, Done

LEMMA BeginRecorded ==
    ASSUME Types, Recorded, NEW w \in Runs, NEW i \in Investigations, Begin(w, i)
    PROVE  Recorded'
<1> SUFFICES ASSUME Clean'
             PROVE  (Kept /\ Looking /\ RecordIsFound)'
  BY DEF Recorded
<1>1. /\ step[w] = "idle" /\ step' = [step EXCEPT ![w] = "manifest"]
      /\ \A v \in Runs \ {w} : invOf'[v] = invOf[v] /\ started'[v] = started[v]
      /\ UNCHANGED <<objects, index, cmd, ref, found, failed>>
  BY DEF Begin, archive, pages, commands, Types
<1>2. Kept /\ Looking /\ RecordIsFound /\ Keeps
  BY <1>1 DEF Recorded, Clean, Keeps
<1>3. \A v \in Runs : step'[v] \in PastManifest => v # w /\ step'[v] = step[v]
  BY <1>1 DEF Types, PastManifest
<1>4. PastIndex \subseteq PastManifest /\ PastResults \subseteq PastManifest
      /\ "idle" \notin PastIndex
  BY DEF PastIndex, PastResults, PastManifest
<1>5. Manifested' /\ Resulted' /\ Listed'
  BY <1>1, <1>2, <1>3, <1>4 DEF Kept, Manifested, Resulted, Listed, Entered, Entries, index
<1>6. Sourced'
  <2> SUFFICES ASSUME NEW row \in Entries
               PROVE  Written(row)'
    BY <1>1 DEF Sourced, Entries, index
  <2>1. PICK v \in Runs : step[v] \in PastIndex /\ row.inv = invOf[v] /\ row.day = started[v].day
    BY <1>2 DEF Kept, Sourced, Written
  <2>2. v # w
    BY <1>1, <1>4, <2>1
  <2>3. step'[v] = step[v] /\ invOf'[v] = invOf[v] /\ started'[v] = started[v]
    BY <1>1, <2>2 DEF Types
  <2>4. QED
    BY <2>1, <2>3 DEF Written
<1>7. Alive'
  BY <1>1, <1>2 DEF Types, Kept, Alive
<1>8. Looking' /\ RecordIsFound'
  BY <1>1, <1>2, LookingStays DEF RecordIsFound, Calm, Done
<1>9. QED
  BY <1>5, <1>6, <1>7, <1>8 DEF Kept

LEMMA WriteRecorded ==
    ASSUME Types, Recorded, NEW w \in Runs, Write(w)
    PROVE  Recorded'
<1> SUFFICES ASSUME Clean'
             PROVE  (Kept /\ Looking /\ RecordIsFound)'
  BY DEF Recorded
<1>1. /\ step[w] \in Writing /\ step'[w] = After(step[w])
      /\ \A v \in Runs \ {w} : step'[v] = step[v]
      /\ UNCHANGED <<invOf, started, cmd, ref, found>>
      /\ \/ Stored(w, step[w]) /\ UNCHANGED failed
         \/ failed' = failed \cup {step[w]} /\ UNCHANGED <<objects, index, triggers>>
      /\ failed \subseteq failed' /\ Keeps
  BY WriteIs
<1>2. Kept /\ Looking /\ RecordIsFound
  BY <1>1 DEF Recorded, Clean
<1>3. step[w] \in {"manifest", "index", "results"} => Stored(w, step[w])
  BY <1>1, PageFailuresAre DEF Clean
<1>4. /\ step'[w] \in PastManifest => step[w] \in PastManifest \/ step[w] = "manifest"
      /\ step'[w] \in PastIndex => step[w] \in PastIndex \/ step[w] = "index"
      /\ step'[w] \in PastResults => step[w] \in PastResults \/ step[w] = "results"
      /\ step[w] \in PastIndex => step'[w] \in PastIndex
      /\ step[w] = "index" => step'[w] \in PastIndex
      /\ step'[w] # "dead"
  BY <1>1, WritingIs, AfterIs DEF PastManifest, PastIndex, PastResults
<1>5. ASSUME NEW kind \in {"manifest", "results"}, step[w] = kind
      PROVE  FiledOn(objects', kind, invOf[w], started[w].day)
  <2>1. objects' = Put(Record(w, kind, started[w].day))
    BY <1>3, <1>5 DEF Stored, Filed, Partition
  <2>2. Record(w, kind, started[w].day) \in objects'
    BY <2>1, PutIs
  <2>3. QED
    BY <2>2 DEF Record, FiledOn
<1>6. Manifested'
  <2> SUFFICES ASSUME NEW v \in Runs, step'[v] \in PastManifest
               PROVE  FiledOn(objects', "manifest", invOf[v], started[v].day)
    BY <1>1 DEF Manifested
  <2>1. CASE step[v] \in PastManifest
    BY <1>1, <1>2, <2>1, FiledStays DEF Kept, Manifested
  <2>2. CASE step[v] \notin PastManifest
    BY <1>1, <1>4, <1>5, <2>2
  <2>3. QED
    BY <2>1, <2>2
<1>7. Resulted'
  <2> SUFFICES ASSUME NEW v \in Runs, step'[v] \in PastResults
               PROVE  FiledOn(objects', "results", invOf[v], started[v].day)
    BY <1>1 DEF Resulted
  <2>1. CASE step[v] \in PastResults
    BY <1>1, <1>2, <2>1, FiledStays DEF Kept, Resulted
  <2>2. CASE step[v] \notin PastResults
    BY <1>1, <1>4, <1>5, <2>2
  <2>3. QED
    BY <2>1, <2>2
<1>8. UNCHANGED index \/ (step[w] = "index" /\ Indexed(w))
  BY <1>1 DEF Stored
<1>9. Listed'
  <2> SUFFICES ASSUME NEW v \in Runs, step'[v] \in PastIndex, NEW i, i = invOf[v]
               PROVE  Entered(i)' \/ i \in aged'
    <3>1. ASSUME NEW v \in Runs, step'[v] \in PastIndex
          PROVE  Entered(invOf[v])' \/ invOf'[v] \in aged'
      <4>1. PICK i : i = invOf[v]
        OBVIOUS
      <4>2. Entered(i)' \/ i \in aged'
        BY <3>1, <4>1
      <4>3. QED
        BY <1>1, <4>1, <4>2 DEF Entered
    <3>2. QED
      BY <3>1 DEF Listed
  <2>1. CASE step[v] \in PastIndex
    <3>1. Entered(i) \/ i \in aged
      BY <1>2, <2>1 DEF Kept, Listed
    <3>2. CASE UNCHANGED index
      BY <3>1, <3>2 DEF Entered, Entries, index
    <3>3. CASE Indexed(w)
      <4>1. Row(w) \in Entries' /\ Row(w).inv = invOf[w] /\ (Entered(i) => Entered(i)')
        BY <3>3, IndexedIs
      <4>2. i = invOf[w] => Entered(i)'
        BY <4>1 DEF Entered
      <4>3. aged' = aged \ {invOf[w]}
        BY <3>3 DEF Indexed
      <4>4. QED
        BY <3>1, <4>1, <4>2, <4>3
    <3>4. QED
      BY <1>8, <3>2, <3>3
  <2>2. CASE step[v] \notin PastIndex
    <3>1. v = w /\ step[w] = "index"
      BY <1>1, <1>4, <2>2
    <3>2. Indexed(w)
      BY <1>3, <3>1 DEF Stored
    <3>3. Row(w) \in Entries' /\ Row(w).inv = i
      BY <3>1, <3>2, IndexedIs
    <3>4. QED
      BY <3>3 DEF Entered
  <2>3. QED
    BY <2>1, <2>2
<1>10. ASSUME NEW row \in Entries
       PROVE  Written(row)'
  <2>1. PICK v \in Runs : step[v] \in PastIndex /\ row.inv = invOf[v] /\ row.day = started[v].day
    BY <1>2 DEF Kept, Sourced, Written
  <2>2. step'[v] \in PastIndex
    BY <1>1, <1>4, <2>1
  <2>3. QED
    BY <1>1, <2>1, <2>2 DEF Written
<1>11. ASSUME NEW row \in Entries', row \notin Entries
       PROVE  Written(row)'
  <2>1. step[w] = "index" /\ row.inv = invOf[w] /\ row.day = started[w].day
    BY <1>8, <1>11, IndexedIs DEF Entries, index
  <2>2. QED
    BY <1>1, <1>4, <2>1 DEF Written
<1>12. Sourced'
  BY <1>10, <1>11 DEF Sourced
<1>13. Alive'
  BY <1>1, <1>2, <1>4 DEF Kept, Alive
<1>14. Looking' /\ RecordIsFound'
  BY <1>1, <1>2, LookingStays DEF RecordIsFound, Calm, Done, Clean
<1>15. QED
  BY <1>6, <1>7, <1>9, <1>12, <1>13, <1>14 DEF Kept

\* The row found while none is midway is that of a run that has written everything.
LEMMA FindRecorded ==
    ASSUME Types, Recorded, NEW c \in Commands, Find(c)
    PROVE  Recorded'
<1> SUFFICES ASSUME Clean'
             PROVE  (Kept /\ Looking /\ RecordIsFound)'
  BY DEF Recorded
<1>1. /\ UNCHANGED <<step, invOf, started, objects, index>>
      /\ found' = [found EXCEPT ![c] =
            [done |-> {w \in Runs : step[w] = "done" /\ invOf[w] \notin aged},
             calm |-> arriving = {} /\ \A w \in Runs : ~Midway(w)]]
      /\ failed \subseteq failed'
      /\ \/ /\ rows # {} /\ cmd' = [cmd EXCEPT ![c] = "manifest"]
            /\ ref' = [ref EXCEPT ![c] = Newest(rows)]
         \/ /\ rows = {} \/ failed' = failed \cup {"read"}
            /\ cmd' = [cmd EXCEPT ![c] = "noticed"] /\ UNCHANGED ref
  BY MissingIs DEF Find, Go, runs, archive
<1>2. Kept /\ Looking /\ RecordIsFound
  BY <1>1 DEF Recorded, Clean
<1>3. Keeps
  BY <1>1 DEF Keeps
<1>4. "read" \notin failed'
  BY PageFailuresAre DEF Clean
<1>5. Kept'
  BY <1>1, <1>2, <1>3, KeptStays
<1>6. ASSUME NEW d \in Commands, d # c
      PROVE  cmd'[d] = cmd[d] /\ ref'[d] = ref[d] /\ found'[d] = found[d]
  BY <1>1, <1>6 DEF Types
<1>7. Calm(c)' => /\ arriving = {} /\ \A w \in Runs : ~Midway(w)
                  /\ \E w \in Runs : step[w] = "done" /\ invOf[w] \notin aged
  BY <1>1 DEF Calm, Done, Types
<1>8. ASSUME Calm(c)'
      PROVE  cmd'[c] = "manifest" /\ Reviewable(c)'
  <2>1. rows # {}
    BY <1>2, <1>7, <1>8 DEF Kept, Listed, Entered, Entries, PastIndex, PastManifest
  <2>2. cmd'[c] = "manifest" /\ ref'[c] = Newest(rows)
    BY <1>1, <1>4, <2>1 DEF Types
  <2>3. Newest(rows) \in rows
    <3>1. Cardinality(Runs) \in Nat
      BY ArchiveAssumption, FS_CardinalityType
    <3>2. QED
      BY <2>1, <3>1, NewestIs DEF Types, Entries
  <2>4. PICK w \in Runs : /\ step[w] \in PastIndex
                          /\ ref'[c].inv = invOf[w] /\ ref'[c].day = started[w].day
    BY <1>2, <2>2, <2>3 DEF Kept, Sourced, Written, Entries
  <2>5. step[w] = "done"
    BY <1>7, <1>8, <2>4, WritingIs DEF Midway, PastIndex, PastManifest
  <2>6. QED
    BY <1>1, <1>2, <2>2, <2>4, <2>5 DEF Reviewable, Kept, Manifested, Resulted, PastManifest,
       PastIndex, PastResults
<1>9. Looking'
  BY <1>1, <1>2, <1>6, <1>8 DEF Looking, Reviewable, Calm, Done
<1>10. RecordIsFound'
  <2> SUFFICES ASSUME NEW d \in Commands, cmd'[d] = "noticed"
               PROVE  ~Calm(d)'
    BY DEF RecordIsFound
  <2>1. CASE d = c
    BY <1>8, <2>1
  <2>2. CASE d # c
    BY <1>1, <1>2, <1>6, <2>2 DEF RecordIsFound, Calm, Done, Clean
  <2>3. QED
    BY <2>1, <2>2
<1>11. QED
  BY <1>5, <1>9, <1>10

LEMMA RecoverRecorded ==
    ASSUME Types, Recorded, NEW c \in Commands, NEW kind, NEW next,
           <<kind, next>> \in {<<"manifest", "results">>, <<"results", "posting">>},
           Recover(c, kind, next)
    PROVE  Recorded'
<1> SUFFICES ASSUME Clean'
             PROVE  (Kept /\ Looking /\ RecordIsFound)'
  BY DEF Recorded
<1>1. /\ cmd[c] = kind /\ UNCHANGED <<step, invOf, started, objects, index, ref, found>>
      /\ \/ cmd' = [cmd EXCEPT ![c] = next] /\ UNCHANGED failed
         \/ /\ cmd' = [cmd EXCEPT ![c] = "noticed"]
            /\ \/ UNCHANGED failed /\ Get(kind, ref[c]) = {}
               \/ failed' = failed \cup {"read"}
  BY MissingIs DEF Recover, Go, runs, archive
<1>2. kind \in {"manifest", "results"} /\ next \in {"results", "posting"}
  OBVIOUS
<1>3. Kept /\ Looking /\ RecordIsFound /\ Keeps
  BY <1>1 DEF Recorded, Clean, Keeps
<1>4. Kept'
  BY <1>1, <1>3, KeptStays
<1>5. \A d \in Commands : cmd'[d] \in {"manifest", "results"} => cmd[d] \in {"manifest", "results"}
  BY <1>1, <1>2 DEF Types
<1>6. Looking'
  BY <1>1, <1>3, <1>5 DEF Looking, Reviewable, Calm, Done
<1>7. cmd'[c] = "noticed" => ~Calm(c)
  <2> SUFFICES ASSUME cmd'[c] = "noticed", Calm(c)
               PROVE  FALSE
    OBVIOUS
  <2>1. Get(kind, ref[c]) = {}
    BY <1>1, <1>2, PageFailuresAre DEF Clean, Types
  <2>2. FiledOn(objects, kind, ref[c].inv, ref[c].day)
    BY <1>1, <1>2, <1>3 DEF Looking, Reviewable
  <2>3. QED
    BY <2>1, <2>2 DEF Get, FiledOn
<1>8. RecordIsFound'
  BY <1>1, <1>3, <1>7 DEF RecordIsFound, Calm, Done, Clean, Types
<1>9. QED
  BY <1>4, <1>6, <1>8

LEMMA RecordedStep == Types /\ Recorded /\ [Next]_vars => Recorded'
<1> SUFFICES ASSUME Types, Recorded, [Next]_vars
             PROVE  Recorded'
  OBVIOUS
<1>1. ASSUME NEW w \in Runs, Crash(w)
      PROVE  Recorded'
  <2>1. "crash" \in failed'
    BY <1>1, FaultKeeps DEF Crash
  <2>2. QED
    BY <2>1, PageFailuresAre DEF Recorded, Clean
<1>2. ASSUME UNCHANGED <<step, invOf, started, index>>, Keeps,
             UNCHANGED <<ref, found>>,
             \A d \in Commands : cmd'[d] \in {"manifest", "results", "noticed"} => cmd'[d] = cmd[d]
      PROVE  Recorded'
  <2> SUFFICES ASSUME Clean'
               PROVE  (Kept /\ Looking /\ RecordIsFound)'
    BY DEF Recorded
  <2>1. Kept /\ Looking /\ RecordIsFound
    BY <1>2 DEF Recorded, Clean, Keeps
  <2>2. Kept'
    BY <1>2, <2>1, KeptStays
  <2>3. Looking'
    BY <1>2, <2>1, FiledStays DEF Looking, Reviewable, Calm, Done
  <2>4. RecordIsFound'
    BY <1>2, <2>1 DEF RecordIsFound, Calm, Done, Clean, Keeps
  <2>5. QED
    BY <2>2, <2>3, <2>4
<1>3. ASSUME NEW t \in triggers, RenderReads(t)
      PROVE  Recorded'
  BY <1>2, <1>3, FaultKeeps DEF RenderReads, ChartsRead, runs, archive, commands, Keeps
<1>4. ASSUME NEW r \in renders, RenderWrites(r)
      PROVE  Recorded'
  BY <1>2, <1>4 DEF RenderWrites, runs, archive, commands, Keeps
<1>5. ASSUME NEW c \in Commands, Post(c)
      PROVE  Recorded'
  <2>1. CASE "post" \in failed'
    BY <2>1, PageFailuresAre DEF Recorded, Clean
  <2>2. CASE "post" \notin failed'
    <3>1. cmd' = [cmd EXCEPT ![c] = "close"] /\ UNCHANGED failed
      BY <1>5, <2>2, FaultKeeps DEF Post, Go
    <3>2. UNCHANGED <<step, invOf, started, index, objects, ref, found>>
      BY <1>5 DEF Post, runs, archive
    <3>3. QED
      BY <1>2, <3>1, <3>2 DEF Keeps, Types
  <2>3. QED
    BY <2>1, <2>2
<1>6. ASSUME NEW c \in Commands, Close(c)
      PROVE  Recorded'
  <2>1. /\ UNCHANGED <<step, invOf, started, index, objects, ref, found>> /\ failed \subseteq failed'
        /\ \E s \in {"closing", "over"} : cmd' = [cmd EXCEPT ![c] = s]
    BY <1>6, MissingIs DEF Close, Go, runs, archive
  <2>2. QED
    BY <1>2, <2>1 DEF Keeps, Types
<1>7. ASSUME NEW c \in Commands, Closed(c)
      PROVE  Recorded'
  <2>1. /\ UNCHANGED <<step, invOf, started, index, ref, found, failed>>
        /\ cmd' = [cmd EXCEPT ![c] = "over"]
        /\ \E o : objects' = Put(o)
    BY <1>7 DEF Closed, Go, runs
  <2>2. Keeps
    BY <2>1, PutIs
  <2>3. QED
    BY <1>2, <2>1, <2>2 DEF Types
<1>8. CASE Midnight \/ UNCHANGED vars
  BY <1>2, <1>8 DEF Midnight, vars, runs, archive, pages, commands, Keeps
<1>9. CASE IndexSteps
  <2> SUFFICES ASSUME Clean'
               PROVE  (Kept /\ Looking /\ RecordIsFound)'
    BY DEF Recorded
  <2>1. /\ UNCHANGED <<step, invOf, started, objects, cmd, ref, found, failed>>
        /\ Entries' \subseteq Entries /\ aged \subseteq aged'
        /\ \A i : Entered(i) => Entered(i)' \/ i \in aged'
    BY <1>9, IndexStepsIs DEF runs, commands
  <2>2. Kept /\ Looking /\ RecordIsFound /\ Keeps
    BY <2>1 DEF Recorded, Clean, Keeps
  <2>3. Manifested' /\ Resulted' /\ Alive'
    BY <2>1, <2>2 DEF Kept, Manifested, Resulted, Alive
  <2>4. Listed'
    <3> SUFFICES ASSUME NEW w \in Runs, step[w] \in PastIndex
                 PROVE  Entered(invOf[w])' \/ invOf[w] \in aged'
      BY <2>1 DEF Listed, Entered
    <3>1. Entered(invOf[w]) \/ invOf[w] \in aged
      BY <2>2 DEF Kept, Listed
    <3>2. QED
      BY <2>1, <3>1
  <2>5. Sourced'
    BY <2>1, <2>2 DEF Kept, Sourced, Written
  <2>6. Looking' /\ RecordIsFound'
    BY <2>1, <2>2, LookingStays DEF RecordIsFound, Calm, Done, Clean
  <2>7. QED
    BY <2>3, <2>4, <2>5, <2>6 DEF Kept
<1>10. QED
  BY <1>1, <1>3, <1>4, <1>5, <1>6, <1>7, <1>8, <1>9, BeginRecorded, WriteRecorded, FindRecorded,
     RecoverRecorded DEF Next, IndexSteps

LEMMA InitRecorded == Init => Recorded
BY DEF Init, Recorded, Kept, Manifested, Resulted, Listed, Sourced, Alive, Looking, RecordIsFound,
       Calm, Done, Entries, PastManifest, PastIndex, PastResults

\* _run_postmortem: an investigation that has been recorded and whose row has not aged
\* out, in a thread where none was just being written or on its way into the index, is
\* never reported as not to be located or incomplete, whatever the days, and whatever
\* its charts, its page and its renders came to.
THEOREM RecordsAreFound == Spec => []RecordIsFound
<1>1. Init => Types /\ Recorded
  BY InitTypes, InitRecorded
<1>2. Types /\ Recorded /\ [Next]_vars => Types' /\ Recorded'
  BY TypesStep, RecordedStep
<1>3. Recorded => RecordIsFound
  BY DEF Recorded, RecordIsFound, Clean
<1>4. QED
  BY <1>1, <1>2, <1>3, PTL DEF Spec

-----------------------------------------------------------------------------
(* What a command has found out, and the runs it was about.                  *)

Following == {"manifest", "results", "posting", "close", "closing", "over"}

Followed ==
    /\ invOf \in [Runs -> Investigations] /\ DOMAIN review = Commands
    /\ \A c \in Commands :
         /\ cmd[c] \in Following \cup {"idle", "noticed"}
         /\ cmd[c] \in {"idle", "manifest"} => review[c] = <<>>
         /\ cmd[c] = "results" => \E x : review[c] = <<x>>
         /\ \A w \in Done(c) : w \in Runs /\ step[w] = "done"
         /\ cmd[c] \in Following => Of(ref[c].inv) # {}
    /\ \A row \in Entries : \E w \in Of(row.inv) : row.started = started[w].rank

\* Runs are moved by their own steps alone, and a command by its own.
LEMMA RunMoves ==
    ASSUME [Next]_vars
    PROVE  \/ \E w \in Runs, i \in Investigations : Begin(w, i)
           \/ \E w \in Runs : Write(w)
           \/ \E w \in Runs : Crash(w)
           \/ UNCHANGED <<step, invOf, started>> /\ Entries' \subseteq Entries
<1>0. UNCHANGED index => Entries' \subseteq Entries
  BY DEF index, Entries
<1>1. CASE \E t \in triggers : RenderReads(t)
  BY <1>0, <1>1 DEF RenderReads, runs, archive
<1>2. CASE \E r \in renders : RenderWrites(r)
  BY <1>0, <1>2 DEF RenderWrites, runs, archive
<1>3. CASE \E c \in Commands :
             \/ Find(c) \/ Recover(c, "manifest", "results") \/ Recover(c, "results", "posting")
             \/ Post(c) \/ Close(c) \/ Closed(c)
  BY <1>0, <1>3 DEF Find, Recover, Post, Close, Closed, runs, archive
<1>4. CASE Midnight \/ UNCHANGED vars
  BY <1>0, <1>4 DEF Midnight, vars, runs, archive
<1>5. CASE IndexSteps
  BY <1>5, IndexStepsIs DEF runs
<1>6. QED
  BY <1>1, <1>2, <1>3, <1>4, <1>5 DEF Next, IndexSteps

CommandSteps(c) ==
    \/ Find(c) \/ Recover(c, "manifest", "results") \/ Recover(c, "results", "posting")
    \/ Post(c) \/ Close(c) \/ Closed(c)

LEMMA CommandMoves ==
    ASSUME Types, DOMAIN review = Commands, [Next]_vars, NEW c \in Commands, ~CommandSteps(c)
    PROVE  /\ cmd'[c] = cmd[c] /\ ref'[c] = ref[c]
           /\ found'[c] = found[c] /\ review'[c] = review[c]
<1>1. ASSUME NEW d \in Commands, CommandSteps(d)
      PROVE  /\ cmd'[c] = cmd[c] /\ ref'[c] = ref[c]
             /\ found'[c] = found[c] /\ review'[c] = review[c]
  <2>1. d # c
    BY <1>1
  <2>2. \E s : cmd' = [cmd EXCEPT ![d] = s]
    BY <1>1 DEF CommandSteps, Find, Recover, Post, Close, Closed, Go
  <2>3. UNCHANGED ref \/ \E row : ref' = [ref EXCEPT ![d] = row]
    BY <1>1 DEF CommandSteps, Find, Recover, Post, Close, Closed
  <2>4. UNCHANGED found \/ \E f : found' = [found EXCEPT ![d] = f]
    BY <1>1 DEF CommandSteps, Find, Recover, Post, Close, Closed
  <2>5. UNCHANGED review \/ \E q : review' = [review EXCEPT ![d] = q]
    BY <1>1 DEF CommandSteps, Find, Recover, Post, Close, Closed
  <2>6. QED
    BY <2>1, <2>2, <2>3, <2>4, <2>5 DEF Types
<1>2. CASE UNCHANGED commands
  BY <1>2 DEF commands
<1>3. CASE \E w \in Runs : (\E i \in Investigations : Begin(w, i)) \/ Write(w) \/ Crash(w)
  BY <1>2, <1>3 DEF Begin, Write, Crash
<1>4. CASE (\E t \in triggers : RenderReads(t)) \/ (\E r \in renders : RenderWrites(r))
  BY <1>2, <1>4 DEF RenderReads, RenderWrites
<1>5. CASE Midnight \/ UNCHANGED vars
  BY <1>2, <1>5 DEF Midnight, vars
<1>6. CASE IndexSteps
  BY <1>2, <1>6, IndexStepsIs
<1>7. QED
  BY <1>1, <1>3, <1>4, <1>5, <1>6 DEF Next, CommandSteps, IndexSteps

LEMMA KeepsStep == Types /\ [Next]_vars => Keeps
<1> SUFFICES ASSUME Types, [Next]_vars
             PROVE  Keeps
  OBVIOUS
<1>1. CASE UNCHANGED objects /\ failed \subseteq failed'
  BY <1>1 DEF Keeps
<1>2. CASE \E w \in Runs : (\E i \in Investigations : Begin(w, i)) \/ Write(w) \/ Crash(w)
  BY <1>1, <1>2, WriteIs, FaultKeeps DEF Begin, Crash, archive
<1>3. CASE (\E t \in triggers : RenderReads(t)) \/ (\E r \in renders : RenderWrites(r))
  BY <1>1, <1>3, FaultKeeps DEF RenderReads, ChartsRead, RenderWrites, archive
<1>4. ASSUME NEW c \in Commands, CommandSteps(c)
      PROVE  Keeps
  <2>1. CASE Closed(c)
    <3>1. (\E o : objects' = Put(o)) /\ UNCHANGED failed
      BY <2>1 DEF Closed
    <3>2. QED
      BY <3>1, PutIs
  <2>2. CASE ~Closed(c)
    BY <1>1, <1>4, <2>2, FaultKeeps, MissingIs DEF CommandSteps, Find, Recover, Post, Close, archive
  <2>3. QED
    BY <2>1, <2>2
<1>5. CASE Midnight \/ UNCHANGED vars
  BY <1>1, <1>5 DEF Midnight, vars, archive
<1>6. CASE IndexSteps
  BY <1>1, <1>6, IndexStepsIs
<1>7. QED
  BY <1>2, <1>3, <1>4, <1>5, <1>6 DEF Next, CommandSteps, IndexSteps

\* The runs of an investigation: only one that begins joins them, and what is done
\* stays done.
LEMMA RunsStay ==
    ASSUME Types, DOMAIN invOf = Runs, [Next]_vars, NEW w \in Runs
    PROVE  /\ step[w] # "idle" => /\ step'[w] # "idle" /\ invOf'[w] = invOf[w]
                                  /\ started'[w] = started[w]
           /\ step[w] = "done" => step'[w] = "done"
<1>1. ASSUME NEW v \in Runs, NEW i \in Investigations, Begin(v, i)
      PROVE  /\ step[w] # "idle" => /\ step'[w] = step[w] /\ invOf'[w] = invOf[w]
                                    /\ started'[w] = started[w]
  BY <1>1 DEF Begin, Types
<1>2. ASSUME NEW v \in Runs, Write(v)
      PROVE  /\ step[w] # "idle" => step'[w] # "idle"
             /\ step[w] = "done" => step'[w] = "done"
             /\ invOf'[w] = invOf[w] /\ started'[w] = started[w]
  <2>1. /\ step[v] \in Writing /\ step'[v] = After(step[v]) /\ UNCHANGED <<invOf, started>>
        /\ \A u \in Runs \ {v} : step'[u] = step[u]
    BY <1>2, WriteIs
  <2>2. After(step[v]) # "idle" /\ step[v] # "done"
    BY <2>1, WritingIs, AfterIs
  <2>3. QED
    BY <2>1, <2>2
<1>3. ASSUME NEW v \in Runs, Crash(v)
      PROVE  /\ step[w] # "idle" => step'[w] # "idle"
             /\ step[w] = "done" => step'[w] = "done"
             /\ invOf'[w] = invOf[w] /\ started'[w] = started[w]
  BY <1>3, WritingIs DEF Crash, Types
<1>4. QED
  BY <1>1, <1>2, <1>3, RunMoves

LEMMA OfGrows ==
    ASSUME Types, [Next]_vars, NEW i
    PROVE  Of(i) \subseteq Of(i)' /\ \A w \in Of(i) : started'[w] = started[w]
BY RunsStay DEF Of, Types

LEMMA InitFollowed == Init => Followed
<1> SUFFICES ASSUME Init
             PROVE  Followed
  OBVIOUS
<1>1. invOf \in [Runs -> Investigations]
  <2>1. ASSUME NEW w \in Runs
        PROVE  1 \in Investigations
    <3>1. Cardinality(Runs) \in Nat /\ Cardinality(Runs) # 0
      BY ArchiveAssumption, FS_CardinalityType, FS_EmptySet
    <3>2. QED
      BY <3>1 DEF Investigations
  <2>2. QED
    BY <2>1 DEF Init
<1>2. QED
  BY <1>1 DEF Init, Followed, Following, Done, Entries

LEMMA FollowedStep == Types /\ Followed /\ [Next]_vars => Followed'
<1> SUFFICES ASSUME Types, Followed, [Next]_vars
             PROVE  Followed'
  OBVIOUS
<1>1. invOf' \in [Runs -> Investigations]
  <2>1. UNCHANGED invOf \/ \E w \in Runs, i \in Investigations : invOf' = [invOf EXCEPT ![w] = i]
    BY RunMoves DEF Begin, Write, Crash
  <2>2. QED
    BY <2>1 DEF Followed
<1>2. DOMAIN review' = Commands
  <2>1. UNCHANGED review \/ \E c \in Commands : \E q : review' = [review EXCEPT ![c] = q]
    BY DEF Next, Begin, Write, Crash, RenderReads, RenderWrites, Find, Recover, Post, Close, Closed,
           Midnight, Arrive, Expire, vars, commands
  <2>2. QED
    BY <2>1 DEF Followed
<1>3. ASSUME NEW row \in Entries'
      PROVE  \E w \in Of(row.inv)' : row.started = started'[w].rank
  <2>1. CASE row \in Entries
    <3>1. PICK w \in Of(row.inv) : row.started = started[w].rank
      BY <2>1 DEF Followed
    <3>2. QED
      BY <3>1, OfGrows
  <2>2. CASE row \notin Entries
    <3>1. PICK w \in Runs : Write(w)
      BY <1>3, <2>2, RunMoves DEF Begin, Crash, archive, index, Entries
    <3>2. row.inv = invOf[w] /\ row.started = started[w].rank /\ step[w] # "idle"
      <4>1. step[w] \in Writing /\ (UNCHANGED index \/ Indexed(w))
        BY <3>1, WriteIs DEF Stored
      <4>2. Indexed(w)
        BY <1>3, <2>2, <4>1 DEF index, Entries
      <4>3. QED
        BY <1>3, <2>2, <4>1, <4>2, IndexedIs, WritingIs
    <3>3. w \in Of(row.inv)
      BY <3>2 DEF Of
    <3>4. QED
      BY <3>2, <3>3, OfGrows
  <2>3. QED
    BY <2>1, <2>2
<1>4. ASSUME NEW c \in Commands
      PROVE  /\ cmd'[c] \in Following \cup {"idle", "noticed"}
             /\ cmd'[c] \in {"idle", "manifest"} => review'[c] = <<>>
             /\ cmd'[c] = "results" => \E x : review'[c] = <<x>>
  <2>1. CASE ~CommandSteps(c)
    BY <2>1, CommandMoves DEF Followed
  <2>2. CASE Find(c)
    BY <2>2 DEF Find, Go, Followed, Following, Types
  <2>3. CASE Recover(c, "manifest", "results")
    <3>1. review[c] = <<>>
      BY <2>3 DEF Recover, Followed
    <3>2. \A x : Append(<<>>, x) = <<x>>
      OBVIOUS
    <3>3. QED
      BY <2>3, <3>1, <3>2 DEF Recover, Go, Followed, Following, Types
  <2>4. CASE Recover(c, "results", "posting")
    BY <2>4 DEF Recover, Go, Followed, Following, Types
  <2>5. CASE Post(c) \/ Close(c) \/ Closed(c)
    BY <2>5 DEF Post, Close, Closed, Go, Followed, Following, Types
  <2>6. QED
    BY <2>1, <2>2, <2>3, <2>4, <2>5 DEF CommandSteps
<1>5. ASSUME NEW c \in Commands, NEW w \in Done(c)'
      PROVE  w \in Runs /\ step'[w] = "done"
  <2>1. w \in Done(c) \/ w \in {v \in Runs : step[v] = "done"}
    <3>1. CASE Find(c)
      BY <1>5, <3>1 DEF Find, Done, Types
    <3>2. CASE ~Find(c)
      <4>1. found'[c] = found[c]
        BY <3>2, CommandMoves DEF CommandSteps, Recover, Post, Close, Closed, Followed
      <4>2. QED
        BY <1>5, <4>1 DEF Done
    <3>3. QED
      BY <3>1, <3>2
  <2>2. w \in Runs /\ step[w] = "done"
    BY <2>1 DEF Followed
  <2>3. QED
    BY <2>2, RunsStay DEF Followed
<1>6. ASSUME NEW c \in Commands, cmd'[c] \in Following
      PROVE  (Of(ref[c].inv) # {})'
  <2>1. PICK i : i = ref'[c].inv /\ Of(i) # {}
    <3>1. CASE Find(c)
      <4>1. rows # {} /\ ref'[c] = Newest(rows)
        BY <1>6, <3>1 DEF Find, Go, Types, Following
      <4>2. Newest(rows) \in rows
        BY <4>1, NewestIs, ArchiveAssumption, FS_CardinalityType DEF Types, Entries
      <4>3. QED
        BY <4>1, <4>2 DEF Followed, Entries
    <3>2. CASE ~Find(c)
      <4>1. ref'[c] = ref[c] /\ cmd[c] \in Following
        BY <1>6, <3>2, CommandMoves DEF CommandSteps, Recover, Post, Close, Closed, Go, Types,
           Followed, Following
      <4>2. QED
        BY <4>1 DEF Followed
    <3>3. QED
      BY <3>1, <3>2
  <2>2. PICK w \in Runs : invOf[w] = i /\ step[w] # "idle"
    BY <2>1 DEF Of
  <2>3. invOf'[w] = i /\ step'[w] # "idle"
    BY <2>2, RunsStay DEF Followed
  <2>4. QED
    BY <2>1, <2>3 DEF Of
<1>7. QED
  BY <1>1, <1>2, <1>3, <1>4, <1>5, <1>6 DEF Followed

\* Of an investigation whose runs were done when a command looked, nothing is written
\* any more but its page, and that only to close it.
LEMMA Settled ==
    ASSUME Types, Followed, [Next]_vars, NEW c \in Commands, cmd[c] # "idle",
           NEW i, Of(i)' \subseteq Done(c)'
    PROVE  /\ found'[c] = found[c] /\ Of(i) \subseteq Done(c) /\ Of(i)' = Of(i)
           /\ \A w \in Of(i) : step[w] = "done"
           /\ \A o : o.inv = i /\ o.kind # "page" => (o \in objects' <=> o \in objects)
           /\ \A o \in objects' : o.inv = i /\ o.kind = "page" => o \in objects \/ o.resolved
<1>1. found'[c] = found[c]
  <2>1. CASE ~CommandSteps(c)
    BY <2>1, CommandMoves DEF Followed
  <2>2. CASE CommandSteps(c)
    BY <2>2 DEF CommandSteps, Find, Recover, Post, Close, Closed
  <2>3. QED
    BY <2>1, <2>2
<1>2. Of(i) \subseteq Of(i)'
  BY OfGrows
<1>3. Of(i) \subseteq Done(c) /\ Of(i)' \subseteq Done(c)
  BY <1>1, <1>2 DEF Done
<1>4. \A w \in Done(c) : w \in Runs /\ step[w] = "done"
  BY DEF Followed
<1>5. Of(i)' = Of(i)
  <2>1. ASSUME NEW w \in Of(i)'
        PROVE  w \in Of(i)
    <3>1. w \in Runs /\ step[w] = "done" /\ invOf'[w] = i
      BY <1>3, <1>4 DEF Of
    <3>2. invOf'[w] = invOf[w]
      BY <3>1, RunsStay DEF Followed
    <3>3. QED
      BY <3>1, <3>2 DEF Of
  <2>2. QED
    BY <1>2, <2>1
<1>6. \A w \in Of(i) : step[w] = "done"
  BY <1>3, <1>4
<1>7. \/ UNCHANGED objects
      \/ \E x : /\ objects' = Put(x)
                /\ x.inv # i \/ (x.kind = "page" /\ x.resolved)
  <2>1. ASSUME NEW w \in Runs, Write(w)
        PROVE  invOf[w] # i
    <3>1. step[w] \in Writing
      BY <2>1 DEF Write
    <3>2. QED
      BY <1>6, <3>1, WritingIs DEF Of
  <2>2. ASSUME NEW w \in Runs, Write(w)
        PROVE  \/ UNCHANGED objects
               \/ \E x : objects' = Put(x) /\ x.inv # i
    <3>1. \/ UNCHANGED objects
          \/ \E day : objects' = Put(Record(w, step[w], day))
      BY <2>2, WriteIs DEF Stored, Filed
    <3>2. \A day : Record(w, step[w], day).inv = invOf[w]
      BY DEF Record
    <3>3. QED
      BY <2>1, <2>2, <3>1, <3>2
  <2>3. ASSUME NEW d \in Commands, Closed(d)
        PROVE  \E x : objects' = Put(x) /\ x.kind = "page" /\ x.resolved
    BY <2>3 DEF Closed
  <2>4. ASSUME \A d \in Commands : ~Closed(d), \A w \in Runs : ~Write(w)
        PROVE  UNCHANGED objects
    BY <2>4 DEF Next, Begin, Crash, RenderReads, RenderWrites, Find, Recover, Post, Close,
       Midnight, Arrive, Expire, vars, archive
  <2>5. QED
    BY <2>2, <2>3, <2>4
<1>8. \A o : o.inv = i /\ o.kind # "page" => (o \in objects' <=> o \in objects)
  BY <1>7 DEF Put
<1>9. \A o \in objects' : o.inv = i /\ o.kind = "page" => o \in objects \/ o.resolved
  BY <1>7 DEF Put
<1>10. QED
  BY <1>1, <1>3, <1>5, <1>6, <1>8, <1>9

-----------------------------------------------------------------------------
(* Runs are ranked by their beginning.                                       *)

Begun == {w \in Runs : step[w] # "idle"}
Ranked ==
    /\ \A w \in Begun : started[w].rank < Cardinality(Begun)
    /\ \A v, w \in Begun : started[v].rank = started[w].rank => v = w

LEMMA InitRanked == Init => Ranked
<1>1. Init => Begun = {}
  BY DEF Init, Begun
<1>2. QED
  BY <1>1 DEF Ranked

LEMMA BeginRanked ==
    ASSUME Types, Ranked, NEW w \in Runs, NEW i \in Investigations, Begin(w, i)
    PROVE  Ranked'
<1> DEFINE n == Cardinality(Begun)
<1>1. Begun \in SUBSET Runs /\ IsFiniteSet(Begun) /\ n \in Nat
  <2>1. Begun \in SUBSET Runs
    BY DEF Begun
  <2>2. QED
    BY <2>1, ArchiveAssumption, FS_Subset, FS_CardinalityType
<1>2. w \notin Begun /\ Begun' = Begun \cup {w}
  BY DEF Begin, Begun, Types
<1>3. Cardinality(Begun)' = n + 1
  <2>1. Cardinality(Begun \cup {w}) = n + 1
    BY <1>1, <1>2, FS_AddElement
  <2>2. QED
    BY <1>2, <2>1
<1>4. started'[w].rank = n /\ \A v \in Begun : started'[v] = started[v]
  BY <1>2 DEF Begin, Types, Begun
<1>5. \A v \in Begun : started[v].rank \in Int
  BY <1>1 DEF Types
<1>6. \A v \in Begun : started[v].rank < n
  BY DEF Ranked
<1>7. \A v \in Begun' : started'[v].rank < n + 1
  BY <1>1, <1>2, <1>4, <1>5, <1>6
<1>8. \A u, v \in Begun' : started'[u].rank = started'[v].rank => u = v
  BY <1>1, <1>2, <1>4, <1>5, <1>6 DEF Ranked
<1>9. QED
  BY <1>3, <1>7, <1>8 DEF Ranked

LEMMA RankedStep == Types /\ Followed /\ Ranked /\ [Next]_vars => Ranked'
<1> SUFFICES ASSUME Types, Followed, Ranked, [Next]_vars
             PROVE  Ranked'
  OBVIOUS
<1>1. ASSUME UNCHANGED started, Begun' = Begun
      PROVE  Ranked'
  BY <1>1 DEF Ranked
<1>2. ASSUME NEW w \in Runs, Write(w)
      PROVE  Ranked'
  <2>1. UNCHANGED started /\ step[w] \in Writing
    BY <1>2 DEF Write
  <2>2. \A v \in Runs : step[v] = "idle" => step'[v] = "idle"
    BY <1>2, WriteIs, WritingIs
  <2>3. Begun' = Begun
    BY <2>2, RunsStay DEF Begun, Followed
  <2>4. QED
    BY <1>1, <2>1, <2>3
<1>3. ASSUME NEW w \in Runs, Crash(w)
      PROVE  Ranked'
  <2>1. UNCHANGED started /\ step[w] \in Writing /\ step' = [step EXCEPT ![w] = "dead"]
    BY <1>3 DEF Crash
  <2>2. Begun' = Begun
    BY <2>1, WritingIs DEF Types, Begun
  <2>3. QED
    BY <1>1, <2>1, <2>2
<1>4. CASE UNCHANGED <<step, started>>
  BY <1>1, <1>4 DEF Begun
<1>5. QED
  BY <1>2, <1>3, <1>4, RunMoves, BeginRanked

-----------------------------------------------------------------------------
(* The investigation a command has chosen is the last one.                   *)

LastOf(c) ==
    \A i \in Investigations \ {ref[c].inv} : Of(i) # {} /\ Of(i) \subseteq Done(c) =>
        \E v \in Of(i), w \in Of(ref[c].inv) : started[v].rank < started[w].rank
Chosen == Clean => \A c \in Commands : cmd[c] \in Following /\ Calm(c) => LastOf(c)

\* find_investigation takes the row with the latest beginning.
LEMMA FindChooses ==
    ASSUME Types, Followed, Recorded, Ranked, NEW c \in Commands, Find(c), Clean,
           cmd'[c] \in Following, Calm(c)'
    PROVE  LastOf(c)'
<1>1. /\ UNCHANGED <<step, invOf, started, index>> /\ rows # {} /\ ref'[c] = Newest(rows)
      /\ Done(c)' = {w \in Runs : step[w] = "done" /\ invOf[w] \notin aged}
      /\ arriving = {}
  BY DEF Find, Go, Types, Following, runs, archive, Done, Calm
<1>2. Newest(rows) \in rows /\ \A other \in rows : other.started <= Newest(rows).started
  BY <1>1, NewestIs, ArchiveAssumption, FS_CardinalityType DEF Types, Entries
<1> DEFINE last == Newest(rows)
<1> HIDE DEF last
<1>3. PICK w \in Of(last.inv) : last.started = started[w].rank
  BY <1>2 DEF Followed, last, Entries
<1>4. ASSUME NEW i \in Investigations, i # last.inv, Of(i) # {},
             Of(i) \subseteq {u \in Runs : step[u] = "done" /\ invOf[u] \notin aged}
      PROVE  \E v \in Of(i) : started[v].rank < started[w].rank
  <2>1. PICK u \in Of(i) : /\ u \in Runs /\ step[u] = "done" /\ invOf[u] = i
                           /\ invOf[u] \notin aged
    BY <1>4 DEF Of
  <2>2. PICK row \in rows : row.inv = i
    BY <1>1, <2>1 DEF Recorded, Kept, Listed, Entered, Entries, PastIndex, PastManifest
  <2>3. PICK v \in Of(i) : row.started = started[v].rank
    BY <2>2 DEF Followed, Entries
  <2>4. started[v].rank <= started[w].rank
    BY <1>2, <1>3, <2>2, <2>3 DEF last
  <2>5. v \in Begun /\ w \in Begun /\ v # w
    BY <1>3, <1>4, <2>3 DEF Of, Begun
  <2>6. started[v].rank \in Int /\ started[w].rank \in Int
    <3>1. Cardinality(Runs) \in Nat
      BY ArchiveAssumption, FS_CardinalityType
    <3>2. QED
      BY <2>5, <3>1 DEF Types, Begun
  <2>7. started[v].rank # started[w].rank
    BY <2>5 DEF Ranked
  <2>8. QED
    BY <2>4, <2>6, <2>7
<1>5. \A i : Of(i)' = Of(i)
  BY <1>1 DEF Of
<1>6. ref'[c].inv = last.inv
  BY <1>1 DEF last
<1>7. (Of(ref[c].inv))' = Of(last.inv)
  BY <1>1, <1>6 DEF Of
<1>8. QED
  BY <1>1, <1>3, <1>4, <1>5, <1>6, <1>7 DEF LastOf

LEMMA ChosenStep ==
    Types /\ Followed /\ Recorded /\ Ranked /\ Chosen /\ [Next]_vars => Chosen'
<1> SUFFICES ASSUME Types, Followed, Recorded, Ranked, Chosen, [Next]_vars, Clean',
                    NEW c \in Commands, cmd'[c] \in Following, Calm(c)'
             PROVE  LastOf(c)'
  BY DEF Chosen
<1>1. Clean
  BY KeepsStep DEF Clean, Keeps
<1>2. CASE Find(c)
  BY <1>1, <1>2, FindChooses
<1>3. CASE ~Find(c)
  <2>1. /\ cmd[c] \in Following /\ ref'[c] = ref[c] /\ found'[c] = found[c]
    BY <1>3, CommandMoves DEF CommandSteps, Recover, Post, Close, Closed, Go, Types,
       Followed, Following
  <2>2. LastOf(c) /\ cmd[c] # "idle"
    BY <1>1, <2>1 DEF Chosen, Calm, Done, Following
  <2> PICK j : j = ref[c].inv
    OBVIOUS
  <2>3. ASSUME NEW i \in Investigations, i # j, Of(i)' # {}, Of(i)' \subseteq Done(c)'
        PROVE  \E v \in Of(i)', w \in Of(j)' : started'[v].rank < started'[w].rank
    <3>1. Of(i)' = Of(i) /\ Of(i) \subseteq Done(c)
      BY <2>2, <2>3, Settled
    <3>2. PICK v \in Of(i), w \in Of(j) : started[v].rank < started[w].rank
      BY <2>2, <2>3, <3>1 DEF LastOf
    <3>3. v \in Of(i)' /\ started'[v] = started[v]
      BY OfGrows
    <3>4. w \in Of(j)' /\ started'[w] = started[w]
      BY OfGrows
    <3>5. QED
      BY <3>2, <3>3, <3>4
  <2>4. (Of(ref[c].inv))' = Of(j)'
    BY <2>1 DEF Of
  <2>5. QED
    BY <2>1, <2>3, <2>4 DEF LastOf
<1>4. QED
  BY <1>2, <1>3

-----------------------------------------------------------------------------
(* Manifest and results of one run, unless two wrote at once.                *)

FiledFor(kind, i, day, w) ==
    \A o \in objects : o.kind = kind /\ o.inv = i /\ o.day = day => o.of = w

\* One run at a time is midway; the manifest under its day is its own, and elsewhere
\* manifest and results agree, until it has written the results too.
Pair(i) ==
    /\ \A v, w \in Of(i) : Midway(v) /\ Midway(w) => v = w
    /\ \A w \in Of(i) : Midway(w) => FiledFor("manifest", i, started[w].day, w)
    /\ \A o, p \in objects :
         /\ o.kind = "manifest" /\ p.kind = "results"
         /\ o.inv = i /\ p.inv = i /\ o.day = p.day
         => \/ o.of = p.of
            \/ \E w \in Of(i) : step[w] \in {"index", "results"} /\ o.day = started[w].day
Paired == Clean => \A i \in Investigations \ overlapped : Pair(i)

LEMMA MidwayIs == \A w : Midway(w) <=> step[w] \in {"index", "results", "charts", "page"}
BY WritingIs DEF Midway

\* Steps that leave the objects and the runs of an investigation alone.
LEMMA PairStays ==
    ASSUME NEW i, Pair(i), Of(i)' = Of(i),
           \A w \in Of(i) : step'[w] = step[w] /\ started'[w] = started[w],
           \A o : o.inv = i /\ o.kind \in {"manifest", "results"} =>
                    (o \in objects' <=> o \in objects)
    PROVE  Pair(i)'
<1>1. \A w \in Of(i) : Midway(w)' <=> Midway(w)
  BY DEF Midway
<1>2. \A v, w \in Of(i)' : Midway(v)' /\ Midway(w)' => v = w
  BY <1>1 DEF Pair
<1>3. \A w \in Of(i)' : Midway(w)' => FiledFor("manifest", i, started[w].day, w)'
  BY <1>1 DEF Pair, FiledFor
<1>4. ASSUME NEW o \in objects', NEW p \in objects',
             o.kind = "manifest", p.kind = "results", o.inv = i, p.inv = i, o.day = p.day
      PROVE  \/ o.of = p.of
             \/ \E w \in Of(i)' : step'[w] \in {"index", "results"} /\ o.day = started'[w].day
  BY <1>4 DEF Pair
<1>5. QED
  BY <1>2, <1>3, <1>4 DEF Pair

\* A run that writes while no other of its investigation is midway.
LEMMA WritePair ==
    ASSUME Types, Followed, NEW w \in Runs, Write(w), Clean', NEW i, i = invOf[w], Pair(i),
           \A v \in Of(i) \ {w} : ~Midway(v)
    PROVE  Pair(i)'
<1>1. /\ step[w] \in Writing /\ step'[w] = After(step[w])
      /\ \A v \in Runs \ {w} : step'[v] = step[v]
      /\ UNCHANGED <<invOf, started>>
      /\ \/ Stored(w, step[w])
         \/ failed' = failed \cup {step[w]} /\ UNCHANGED objects
  BY WriteIs
<1>2. w \in Of(i) /\ Of(i)' = Of(i)
  <2>1. step[w] # "idle" /\ step'[w] # "idle"
    BY <1>1, WritingIs, AfterIs
  <2>2. QED
    BY <1>1, <2>1 DEF Of
<1>3. \A v \in Of(i) : Midway(v)' => v = w
  <2>1. ASSUME NEW v \in Of(i), v # w
        PROVE  ~Midway(v)'
    <3>1. step'[v] = step[v] /\ ~Midway(v)
      BY <1>1, <2>1 DEF Of
    <3>2. QED
      BY <3>1 DEF Midway
  <2>2. QED
    BY <2>1
<1>4. step[w] \in {"manifest", "results"} =>
         objects' = Put(Record(w, step[w], started[w].day))
  BY <1>1, PageFailuresAre DEF Clean, Stored, Filed, Partition
<1>5. \A day : Record(w, step[w], day).kind = step[w] /\ Record(w, step[w], day).inv = i
               /\ Record(w, step[w], day).day = day /\ Record(w, step[w], day).of = w
  BY DEF Record
<1>6. \/ UNCHANGED objects
      \/ \E day : objects' = Put(Record(w, step[w], day))
  BY <1>1 DEF Stored, Filed
<1>7. \A o : o.kind # step[w] => (o \in objects' <=> o \in objects)
  BY <1>5, <1>6 DEF Put
<1>8. Midway(w)' => FiledFor("manifest", i, started[w].day, w)'
  <2> SUFFICES ASSUME Midway(w)'
               PROVE  FiledFor("manifest", i, started[w].day, w)'
    OBVIOUS
  <2>1. CASE step[w] = "manifest"
    BY <1>1, <1>4, <1>5, <2>1 DEF Put, FiledFor
  <2>2. CASE step[w] # "manifest"
    <3>1. Midway(w)
      BY <1>1, <2>2 DEF Midway
    <3>2. QED
      BY <1>1, <1>2, <1>7, <2>2, <3>1 DEF Pair, FiledFor
  <2>3. QED
    BY <2>1, <2>2
<1>9. ASSUME NEW o \in objects', NEW p \in objects',
             o.kind = "manifest", p.kind = "results", o.inv = i, p.inv = i, o.day = p.day
      PROVE  \/ o.of = p.of
             \/ \E v \in Of(i) : step'[v] \in {"index", "results"} /\ o.day = started[v].day
  <2>1. CASE step[w] = "manifest"
    <3>1. step'[w] = "index"
      BY <1>1, <2>1, AfterIs
    <3>2. CASE o.day = started[w].day
      BY <1>2, <3>1, <3>2
    <3>3. CASE o.day # started[w].day
      <4>1. o \in objects /\ p \in objects
        BY <1>4, <1>5, <1>9, <2>1, <3>3 DEF Put
      <4>2. \A v \in Of(i) : step[v] \notin {"index", "results"}
        BY <2>1, MidwayIs
      <4>3. QED
        BY <1>9, <4>1, <4>2 DEF Pair
    <3>4. QED
      BY <3>2, <3>3
  <2>2. CASE step[w] = "results"
    <3>1. o \in objects /\ Midway(w)
      BY <1>7, <1>9, <2>2, MidwayIs
    <3>2. CASE o.day = started[w].day
      <4>1. FiledFor("manifest", i, started[w].day, w)
        BY <1>2, <3>1 DEF Pair
      <4>2. o.of = w
        BY <1>9, <3>1, <3>2, <4>1 DEF FiledFor
      <4>3. p.of = w
        <5> DEFINE own == Record(w, "results", started[w].day)
        <5>1. objects' = Put(own) /\ own.kind = "results" /\ own.inv = i
              /\ own.day = started[w].day /\ own.of = w
          BY <1>4, <1>5, <2>2
        <5> HIDE DEF own
        <5>2. p = own
          BY <1>9, <3>2, <5>1 DEF Put
        <5>3. QED
          BY <5>1, <5>2
      <4>4. QED
        BY <4>2, <4>3
    <3>3. CASE o.day # started[w].day
      <4>1. p \in objects
        BY <1>4, <1>5, <1>9, <2>2, <3>3 DEF Put
      <4>2. \A v \in Of(i) \ {w} : step[v] \notin {"index", "results"}
        BY MidwayIs
      <4>3. QED
        BY <1>9, <3>1, <3>3, <4>1, <4>2 DEF Pair
    <3>4. QED
      BY <3>2, <3>3
  <2>3. CASE step[w] \notin {"manifest", "results"}
    <3>1. o \in objects /\ p \in objects
      BY <1>7, <1>9, <2>3
    <3>2. CASE o.of = p.of
      BY <3>2
    <3>3. CASE \E v \in Of(i) : step[v] \in {"index", "results"} /\ o.day = started[v].day
      <4>1. PICK v \in Of(i) : step[v] \in {"index", "results"} /\ o.day = started[v].day
        BY <3>3
      <4>2. v = w /\ step[w] = "index"
        BY <2>3, <4>1, MidwayIs
      <4>3. step'[w] = "results"
        BY <1>1, <4>2, AfterIs
      <4>4. QED
        BY <4>1, <4>2, <4>3
    <3>4. QED
      BY <1>9, <3>1, <3>2, <3>3 DEF Pair
  <2>4. QED
    BY <2>1, <2>2, <2>3
<1>10. QED
  BY <1>1, <1>2, <1>3, <1>8, <1>9 DEF Pair

LEMMA PairedStep == Types /\ Followed /\ Paired /\ [Next]_vars => Paired'
<1> SUFFICES ASSUME Types, Followed, Paired, [Next]_vars, Clean',
                    NEW i \in Investigations, i \notin overlapped'
             PROVE  Pair(i)'
  BY DEF Paired, Investigations
<1>1. Clean
  BY KeepsStep DEF Clean, Keeps
<1>2. i \notin overlapped
  BY DEF Next, Begin, Write, Crash, RenderReads, RenderWrites, Find, Recover, Post, Close, Closed,
     Midnight, Arrive, Expire, vars, runs
<1>3. Pair(i)
  BY <1>1, <1>2 DEF Paired
<1>4. ASSUME NEW w \in Runs, NEW j \in Investigations, Begin(w, j)
      PROVE  Pair(i)'
  <2>1. /\ step[w] = "idle" /\ step' = [step EXCEPT ![w] = "manifest"]
        /\ \A v \in Runs \ {w} : invOf'[v] = invOf[v] /\ started'[v] = started[v]
        /\ UNCHANGED objects
    BY <1>4 DEF Begin, archive, Types
  <2>2. Of(i) \subseteq Of(i)' /\ \A v \in Of(i)' : v \in Of(i) \/ v = w
    BY <2>1 DEF Of, Types
  <2>3. \A v \in Of(i) : v # w /\ step'[v] = step[v] /\ started'[v] = started[v]
    BY <2>1 DEF Of, Types
  <2>4. step'[w] = "manifest"
    BY <2>1 DEF Types
  <2>5. ~Midway(w)' /\ \A v \in Of(i) : Midway(v)' <=> Midway(v)
    BY <2>3, <2>4 DEF Midway
  <2>6. \A u, v \in Of(i)' : Midway(u)' /\ Midway(v)' => u = v
    BY <1>3, <2>2, <2>5 DEF Pair
  <2>7. \A v \in Of(i)' : Midway(v)' => FiledFor("manifest", i, started[v].day, v)'
    BY <1>3, <2>1, <2>2, <2>3, <2>5 DEF Pair, FiledFor
  <2>8. ASSUME NEW o \in objects', NEW p \in objects',
               o.kind = "manifest", p.kind = "results", o.inv = i, p.inv = i, o.day = p.day
        PROVE  \/ o.of = p.of
               \/ \E v \in Of(i)' : step'[v] \in {"index", "results"} /\ o.day = started'[v].day
    BY <1>3, <2>1, <2>2, <2>3, <2>8 DEF Pair
  <2>9. QED
    BY <2>6, <2>7, <2>8 DEF Pair
<1>5. ASSUME NEW w \in Runs, Write(w)
      PROVE  Pair(i)'
  <2>1. CASE invOf[w] = i
    <3>1. \A v \in Of(i) \ {w} : ~Midway(v)
      BY <1>5, <2>1 DEF Write
    <3>2. QED
      BY <1>3, <1>5, <2>1, <3>1, WritePair
  <2>2. CASE invOf[w] # i
    <3>1. /\ \A v \in Runs \ {w} : step'[v] = step[v]
          /\ UNCHANGED <<invOf, started>>
          /\ \/ UNCHANGED objects
             \/ \E day : objects' = Put(Record(w, step[w], day))
      BY <1>5, WriteIs DEF Stored, Filed
    <3>2. Of(i)' = Of(i) /\ w \notin Of(i)
      BY <2>2, <3>1 DEF Of
    <3>3. \A v \in Of(i) : step'[v] = step[v] /\ started'[v] = started[v]
      BY <3>1, <3>2 DEF Of
    <3>4. \A day : Record(w, step[w], day).inv = invOf[w]
      BY DEF Record
    <3>5. \A o : o.inv = i => (o \in objects' <=> o \in objects)
      BY <2>2, <3>1, <3>4 DEF Put
    <3>6. QED
      BY <1>3, <3>2, <3>3, <3>5, PairStays
  <2>3. QED
    BY <2>1, <2>2
<1>6. CASE \E w \in Runs : Crash(w)
  <2>1. "crash" \in failed'
    BY <1>6, FaultKeeps DEF Crash
  <2>2. QED
    BY <2>1, PageFailuresAre DEF Clean
<1>7. CASE \A w \in Runs : ~Write(w) /\ ~Crash(w) /\ \A j \in Investigations : ~Begin(w, j)
  <2>1. UNCHANGED <<step, invOf, started>>
    BY <1>7, RunMoves
  <2>2. \/ UNCHANGED objects
        \/ \E x : objects' = Put(x) /\ x.kind = "page"
    <3>1. CASE \E d \in Commands : Closed(d)
      BY <3>1 DEF Closed
    <3>2. CASE \A d \in Commands : ~Closed(d)
      BY <1>7, <3>2 DEF Next, RenderReads, RenderWrites, Find, Recover, Post, Close, Midnight,
         Arrive, Expire, vars, archive
    <3>3. QED
      BY <3>1, <3>2
  <2>3. \A o : o.kind # "page" => (o \in objects' <=> o \in objects)
    BY <2>2 DEF Put
  <2>4. Of(i)' = Of(i)
    BY <2>1 DEF Of
  <2>5. QED
    BY <1>3, <2>1, <2>3, <2>4, PairStays
<1>8. QED
  BY <1>4, <1>5, <1>6, <1>7

-----------------------------------------------------------------------------
(* A review takes both of its objects from the same run.                     *)

LEMMA Appended ==
    ASSUME NEW S, NEW q \in Seq(S), NEW y \in S
    PROVE  /\ \A n \in 1..Len(q) : Append(q, y)[n] = q[n]
           /\ Append(q, y)[Len(q) + 1] = y
OBVIOUS

LEMMA AppendedToOne ==
    ASSUME NEW x, NEW y
    PROVE  Append(<<x>>, y)[1] = x /\ Append(<<x>>, y)[2] = y
<1>1. <<x>> \in Seq({x, y}) /\ Len(<<x>>) = 1 /\ <<x>>[1] = x
  OBVIOUS
<1>2. Append(<<x>>, y)[1] = <<x>>[1] /\ Append(<<x>>, y)[1 + 1] = y
  BY <1>1, Appended
<1>3. QED
  BY <1>1, <1>2

Undisturbed(c) ==
    cmd[c] # "idle" /\ ref[c].inv \notin overlapped /\ Of(ref[c].inv) \subseteq Done(c)
Halfway ==
    Clean => \A c \in Commands : Undisturbed(c) =>
        /\ cmd[c] = "results" => \E o \in Get("manifest", ref[c]) : o.of = review[c][1]
        /\ Len(review[c]) = 2 => review[c][1] = review[c][2]

LEMMA HalfwayStep ==
    Types /\ Followed /\ Paired /\ Halfway /\ [Next]_vars => Halfway'
<1> SUFFICES ASSUME Types, Followed, Paired, Halfway, [Next]_vars, Clean',
                    NEW c \in Commands, Undisturbed(c)'
             PROVE  /\ cmd'[c] = "results" =>
                         (\E o \in Get("manifest", ref[c]) : o.of = review[c][1])'
                    /\ Len(review'[c]) = 2 => review'[c][1] = review'[c][2]
  BY DEF Halfway
<1>1. Clean
  BY KeepsStep DEF Clean, Keeps
<1>2. CASE Find(c)
  <2>1. review'[c] = <<>> /\ cmd'[c] # "results"
    BY <1>2 DEF Find, Go, Followed, Types
  <2>2. QED
    BY <2>1
<1>3. CASE ~Find(c)
  <2>1. ref'[c] = ref[c] /\ cmd[c] # "idle"
    BY <1>3, CommandMoves DEF Undisturbed, CommandSteps, Recover, Post, Close, Closed, Go, Types,
       Followed
  <2>2. PICK i : i = ref[c].inv
    OBVIOUS
  <2>3. Of(i)' \subseteq Done(c)'
    BY <2>1, <2>2 DEF Undisturbed, Of
  <2>4. /\ Of(i) \subseteq Done(c)
        /\ \A w \in Of(i) : step[w] = "done"
        /\ \A o : o.inv = i /\ o.kind # "page" => (o \in objects' <=> o \in objects)
    BY <2>1, <2>3, Settled
  <2>5. overlapped \subseteq overlapped'
    BY DEF Next, Begin, Write, Crash, RenderReads, RenderWrites, Find, Recover, Post, Close, Closed,
       Midnight, Arrive, Expire, vars, runs
  <2>6. Undisturbed(c)
    BY <2>1, <2>2, <2>4, <2>5 DEF Undisturbed
  <2>7. /\ cmd[c] = "results" => \E o \in Get("manifest", ref[c]) : o.of = review[c][1]
        /\ Len(review[c]) = 2 => review[c][1] = review[c][2]
    BY <1>1, <2>6 DEF Halfway
  <2>8. \A o : o \in Get("manifest", ref[c]) => o \in objects' /\ o.kind = "manifest"
                                               /\ o.inv = ref[c].inv /\ o.day = ref[c].day
    BY <2>2, <2>4 DEF Get
  <2>9. CASE Recover(c, "manifest", "results")
    <3>1. review[c] = <<>> /\ UNCHANGED objects
      BY <2>9 DEF Recover, Followed, archive
    <3>2. CASE cmd'[c] = "results"
      <4>1. PICK o \in Get("manifest", ref[c]) : review'[c] = Append(<<>>, o.of)
        BY <2>9, <3>1, <3>2 DEF Recover, Go, Types, Followed
      <4>2. review'[c] = <<o.of>>
        BY <4>1
      <4>3. Len(review'[c]) # 2 /\ review'[c][1] = o.of
        BY <4>2
      <4>4. QED
        BY <2>1, <2>8, <4>3 DEF Get
    <3>3. CASE cmd'[c] # "results"
      <4>1. review'[c] = <<>>
        BY <2>9, <3>1, <3>3 DEF Recover, Go, Types
      <4>2. QED
        BY <3>3, <4>1
    <3>4. QED
      BY <3>2, <3>3
  <2>10. CASE Recover(c, "results", "posting")
    <3>1. PICK x : review[c] = <<x>>
      BY <2>10 DEF Recover, Followed
    <3>2. cmd'[c] # "results"
      BY <2>10 DEF Recover, Go, Types
    <3>3. CASE UNCHANGED review
      BY <3>1, <3>2, <3>3
    <3>4. CASE \E p \in Get("results", ref[c]) : review'[c] = Append(review[c], p.of)
      <4>1. PICK p \in Get("results", ref[c]) : review'[c] = Append(<<x>>, p.of)
        BY <3>1, <3>4
      <4>2. review'[c][1] = x /\ review'[c][2] = p.of
        BY <4>1, AppendedToOne
      <4>3. PICK o \in Get("manifest", ref[c]) : o.of = x
        BY <2>7, <2>10, <3>1 DEF Recover
      <4>4. i \in Investigations
        BY <2>1, <2>2, <2>10 DEF Recover, Followed, Following, Of
      <4>5. Pair(i)
        BY <1>1, <2>2, <2>6, <4>4 DEF Paired, Undisturbed
      <4>6. o.of = p.of
        BY <2>2, <2>4, <4>5 DEF Pair, Get
      <4>7. QED
        BY <3>2, <4>2, <4>3, <4>6
    <3>5. QED
      BY <2>10, <3>3, <3>4 DEF Recover, Followed
  <2>11. CASE Post(c) \/ Close(c) \/ Closed(c)
    <3>1. UNCHANGED review /\ cmd'[c] # "results"
      BY <2>11 DEF Post, Close, Closed, Go, Types
    <3>2. QED
      BY <2>7, <3>1
  <2>12. CASE ~CommandSteps(c)
    <3>1. cmd'[c] = cmd[c] /\ review'[c] = review[c]
      BY <2>12, CommandMoves DEF Followed
    <3>2. QED
      BY <2>1, <2>7, <2>8, <3>1 DEF Get
  <2>13. QED
    BY <1>3, <2>9, <2>10, <2>11, <2>12 DEF CommandSteps
<1>4. QED
  BY <1>2, <1>3

Reviewed == Chosen /\ Paired /\ Halfway

LEMMA InitReviewed == Init => Ranked /\ Reviewed
<1> SUFFICES ASSUME Init
             PROVE  Chosen /\ Paired /\ Halfway
  BY InitRanked DEF Reviewed
<1>1. Chosen
  BY DEF Init, Chosen, Following
<1>2. \A i : Of(i) = {}
  BY DEF Init, Of
<1>3. Paired
  BY <1>2 DEF Init, Paired, Pair
<1>4. Halfway
  BY DEF Init, Halfway, Undisturbed
<1>5. QED
  BY <1>1, <1>3, <1>4

\* The parts make the property: with two objects read, no command has stopped short.
LEMMA ReviewedIs == Types /\ Followed /\ Recorded /\ Reviewed => ReviewIsOfTheLast
<1> SUFFICES ASSUME Types, Followed, Recorded, Reviewed, NEW c \in Commands,
                    Len(review[c]) = 2, Clean, Calm(c)
             PROVE  LET mine == Of(ref[c].inv) IN
                    /\ LastOf(c)
                    /\ ref[c].inv \notin overlapped /\ mine \subseteq Done(c)
                         => review[c][1] = review[c][2]
  BY DEF ReviewIsOfTheLast, Clean, LastOf
<1>1. cmd[c] # "idle"
  BY DEF Followed
<1>2. cmd[c] # "noticed"
  BY DEF Recorded, RecordIsFound, Clean
<1>3. cmd[c] \in Following
  BY <1>1, <1>2 DEF Followed
<1>4. LastOf(c)
  BY <1>3 DEF Reviewed, Chosen
<1>5. QED
  BY <1>1, <1>4 DEF Reviewed, Halfway, Undisturbed

\* find_investigation and the two reads of /postmortem: whatever runs begin and write
\* meanwhile, the review is of the investigation begun last whose row has not aged out
\* and was in the index, and both its objects are of
\* one run when no two runs of it wrote at once.
THEOREM ReviewsAreOfTheLast == Spec => []ReviewIsOfTheLast
<1>1. Init => Types /\ Followed /\ Recorded /\ Ranked /\ Reviewed
  BY InitTypes, InitFollowed, InitRecorded, InitReviewed
<1>2. (Types /\ Followed /\ Recorded /\ Ranked /\ Reviewed) /\ [Next]_vars
         => (Types /\ Followed /\ Recorded /\ Ranked /\ Reviewed)'
  BY TypesStep, FollowedStep, RecordedStep, RankedStep, ChosenStep, PairedStep,
     HalfwayStep DEF Reviewed
<1>3. Types /\ Followed /\ Recorded /\ Reviewed => ReviewIsOfTheLast
  BY ReviewedIs
<1>4. QED
  BY <1>1, <1>2, <1>3, PTL DEF Spec

-----------------------------------------------------------------------------
(* A page that a review has closed stays closed, and is served closed.       *)

Fine == failed \subseteq (Writing \ {"page"}) \cup {"chart"}

Published == Fine => \A w \in Runs : step[w] = "done" =>
                        \E o \in objects : o.kind = "page" /\ o.inv = invOf[w]

OneDay(i, day) == \A o \in objects : o.kind = "page" /\ o.inv = i => o.day = day
Over(c) ==
    cmd[c] = "over" /\ Of(ref[c].inv) \subseteq Done(c) /\ OneDay(ref[c].inv, ref[c].day)
Resolved(i) == \A o \in objects : o.kind = "page" /\ o.inv = i => o.resolved

\* The closed page is served, or will be by what is left to render.
Closes(i) ==
    \/ \E t \in triggers : t.inv = i
    \/ /\ \A r \in renders : r.inv = i => r.resolved
       /\ html[i].resolved \/ \E r \in renders : r.inv = i
Settling ==
    Fine => \A c \in Commands : Over(c) =>
        Resolved(ref[c].inv) /\ (ref[c].inv \in raced \/ Closes(ref[c].inv))

LEMMA FineIs == \A what : what \in failed /\ Fine => what \in {"manifest", "index", "results", "charts", "chart"}
BY WritingIs DEF Fine

LEMMA PublishedStep == Types /\ Followed /\ Published /\ [Next]_vars => Published'
<1> SUFFICES ASSUME Types, Followed, Published, [Next]_vars, Fine',
                    NEW w \in Runs, step'[w] = "done"
             PROVE  \E o \in objects' : o.kind = "page" /\ o.inv = invOf'[w]
  BY DEF Published
<1>1. Keeps /\ Fine
  BY KeepsStep DEF Fine, Keeps
<1>2. CASE step[w] = "done"
  <2>1. PICK o \in objects : o.kind = "page" /\ o.inv = invOf[w]
    BY <1>1, <1>2 DEF Published
  <2>2. invOf'[w] = invOf[w]
    BY <1>2, RunsStay DEF Followed
  <2>3. QED
    BY <1>1, <2>1, <2>2 DEF Keeps
<1>3. CASE step[w] # "done"
  <2>1. PICK v \in Runs : Write(v)
    <3>1. ASSUME NEW v \in Runs, Crash(v)
          PROVE  FALSE
      BY <1>3, <3>1 DEF Crash, Types
    <3>2. ASSUME NEW v \in Runs, NEW i \in Investigations, Begin(v, i)
          PROVE  FALSE
      BY <1>3, <3>2 DEF Begin, Types
    <3>3. QED
      BY <1>3, <3>1, <3>2, RunMoves
  <2>2. v = w /\ step[w] = "page"
    BY <1>3, <2>1, WriteIs, WritingIs, AfterIs
  <2>3. Stored(w, "page") /\ UNCHANGED invOf
    <3>1. "page" \notin failed'
      BY WritingIs DEF Fine
    <3>2. QED
      BY <2>1, <2>2, <3>1, WriteIs
  <2>4. PICK day : objects' = Put(Record(w, "page", day))
    BY <2>3 DEF Stored, Filed
  <2>5. Record(w, "page", day) \in objects'
    BY <2>4, PutIs
  <2>6. Record(w, "page", day).kind = "page" /\ Record(w, "page", day).inv = invOf[w]
    BY DEF Record
  <2>7. QED
    BY <2>3, <2>5, <2>6
<1>4. QED
  BY <1>2, <1>3

\* What the renderer makes of a page that is resolved is resolved.
LEMMA ClosesStays ==
    ASSUME Types, [Next]_vars, Fine', NEW i \in Investigations, Resolved(i), i \notin raced', Closes(i)
    PROVE  Closes(i)'
<1>1. ASSUME NEW t \in triggers, RenderReads(t)
      PROVE  Closes(i)'
  <2>1. PICK page \in Get("page", t), drawn \in BOOLEAN :
          /\ triggers' = triggers \ {t} /\ UNCHANGED html
          /\ renders' = renders \cup
               {[inv |-> t.inv, by |-> t.by, resolved |-> page.resolved, drawn |-> drawn]}
          /\ raced' = raced \cup IF \E r \in renders : r.inv = t.inv THEN {t.inv} ELSE {}
    <3>1. "render" \notin failed'
      BY WritingIs DEF Fine
    <3>2. QED
      BY <1>1, <3>1, FaultKeeps DEF RenderReads
  <2> DEFINE new == [inv |-> t.inv, by |-> t.by, resolved |-> page.resolved, drawn |-> drawn]
  <2>2. new.inv = t.inv /\ new.resolved = page.resolved /\ new \in renders'
        /\ \A r \in renders' : r \in renders \/ r = new
    BY <2>1
  <2> HIDE DEF new
  <2>3. CASE t.inv = i
    <3>1. page.resolved
      BY <2>3 DEF Get, Resolved
    <3>2. \A r \in renders : r.inv # i
      BY <2>1, <2>3
    <3>3. QED
      BY <2>2, <2>3, <3>1, <3>2 DEF Closes
  <2>4. CASE t.inv # i
    BY <2>1, <2>2, <2>4 DEF Closes
  <2>5. QED
    BY <2>3, <2>4
<1>2. ASSUME NEW r \in renders, RenderWrites(r)
      PROVE  Closes(i)'
  <2>1. /\ renders' = renders \ {r} /\ UNCHANGED triggers
        /\ html' = [html EXCEPT ![r.inv] = Rendered(r)]
    BY <1>2 DEF RenderWrites
  <2>2. Rendered(r).resolved = r.resolved
    BY DEF Rendered
  <2>3. r.inv = i => html'[i] = Rendered(r)
    BY <2>1 DEF Types
  <2>4. r.inv # i => html'[i] = html[i]
    BY <2>1 DEF Types
  <2>5. QED
    BY <2>1, <2>2, <2>3, <2>4 DEF Closes
<1>3. CASE /\ \A t \in triggers : ~RenderReads(t)
           /\ \A r \in renders : ~RenderWrites(r)
  <2>1. triggers \subseteq triggers' /\ UNCHANGED <<renders, html>>
    <3>1. CASE \E w \in Runs : Write(w)
      BY <3>1 DEF Write, Stored, Filed
    <3>2. CASE \E c \in Commands : Closed(c)
      BY <3>2 DEF Closed
    <3>3. CASE ~(\E w \in Runs : Write(w)) /\ ~(\E c \in Commands : Closed(c))
      BY <1>3, <3>3 DEF Next, Begin, Crash, Find, Recover, Post, Close, Midnight, Arrive, Expire,
         vars, pages, RenderReads, RenderWrites
    <3>4. QED
      BY <3>1, <3>2, <3>3
  <2>2. QED
    BY <2>1 DEF Closes
<1>4. QED
  BY <1>1, <1>2, <1>3

\* A page that was not there to be closed is one of no finished investigation.
LEMMA NothingToClose ==
    ASSUME Types, Followed, Published, Fine, NEW c \in Commands, cmd[c] \in Following,
           Of(ref[c].inv) \subseteq Done(c), OneDay(ref[c].inv, ref[c].day)
    PROVE  PageOf(ref[c]) # {}
<1>1. PICK w : w \in Of(ref[c].inv)
  BY DEF Followed
<1>2. w \in Runs /\ step[w] = "done" /\ invOf[w] = ref[c].inv
  BY <1>1 DEF Followed, Of
<1>3. PICK o \in objects : o.kind = "page" /\ o.inv = invOf[w]
  BY <1>2 DEF Published
<1>4. o.day = ref[c].day
  BY <1>2, <1>3 DEF OneDay
<1>5. QED
  BY <1>2, <1>3, <1>4 DEF PageOf, Get

LEMMA SettlingStep ==
    Types /\ Followed /\ Published /\ Settling /\ [Next]_vars => Settling'
<1> SUFFICES ASSUME Types, Followed, Published, Settling, [Next]_vars, Fine',
                    NEW c \in Commands, Over(c)'
             PROVE  (Resolved(ref[c].inv) /\ (ref[c].inv \in raced \/ Closes(ref[c].inv)))'
  BY DEF Settling
<1>1. Keeps /\ Fine
  BY KeepsStep DEF Fine, Keeps
<1>2. cmd'[c] = "over" /\ ref'[c] = ref[c] /\ cmd[c] \in {"close", "closing", "over"}
  <2>1. CASE ~CommandSteps(c)
    BY <2>1, CommandMoves DEF Over, Followed
  <2>2. CASE CommandSteps(c)
    BY <2>2 DEF Over, CommandSteps, Find, Recover, Post, Close, Closed, Go, Types
  <2>3. QED
    BY <2>1, <2>2
<1>3. PICK i : i = ref[c].inv
  OBVIOUS
<1>4. Of(i)' \subseteq Done(c)' /\ OneDay(i, ref[c].day)'
  <2>1. ref'[c].inv = i
    BY <1>2, <1>3
  <2>2. Of(i)' \subseteq Done(c)'
    BY <2>1 DEF Over, Of
  <2>3. OneDay(i, ref[c].day)'
    BY <2>1 DEF Over, OneDay
  <2>4. QED
    BY <2>2, <2>3
<1>5. OneDay(i, ref[c].day)
  BY <1>1, <1>2, <1>4 DEF OneDay, Keeps
<1>6. /\ Of(i) \subseteq Done(c)
      /\ \A o \in objects' : o.inv = i /\ o.kind = "page" => o \in objects \/ o.resolved
  BY <1>2, <1>4, Settled
<1>7. i \in Investigations
  BY <1>2, <1>3 DEF Followed, Following, Of
<1>8. raced \subseteq raced'
  BY DEF Next, Begin, Write, Crash, RenderReads, RenderWrites, Find, Recover, Post, Close, Closed,
     Midnight, Arrive, Expire, vars, pages
<1>9. ASSUME Resolved(i)', i \in raced' \/ Closes(i)'
      PROVE  (Resolved(ref[c].inv) /\ (ref[c].inv \in raced \/ Closes(ref[c].inv)))'
  BY <1>2, <1>3, <1>9 DEF Resolved, Closes
<1>10. CASE cmd[c] = "over"
  <2>1. Over(c)
    BY <1>3, <1>5, <1>6, <1>10 DEF Over
  <2>2. Resolved(i) /\ (i \in raced \/ Closes(i))
    BY <1>1, <1>3, <2>1 DEF Settling
  <2>3. Resolved(i)'
    BY <1>6, <2>2 DEF Resolved
  <2>4. i \in raced' \/ Closes(i)'
    BY <1>7, <1>8, <2>2, ClosesStays
  <2>5. QED
    BY <1>9, <2>3, <2>4
<1>11. CASE Closed(c)
  <2> DEFINE o == [kind |-> "page", inv |-> i, day |-> ref[c].day, of |-> review[c][1],
                   resolved |-> TRUE]
             t == [inv |-> i, day |-> ref[c].day, by |-> c]
  <2>1. objects' = Put(o) /\ t \in triggers'
    BY <1>3, <1>11 DEF Closed
  <2>2. o.kind = "page" /\ o.inv = i /\ o.day = ref[c].day /\ o.resolved /\ t.inv = i
    OBVIOUS
  <2> HIDE DEF o, t
  <2>3. ASSUME NEW p \in objects', p.kind = "page", p.inv = i
        PROVE  p.resolved
    <3>1. p \in objects => p.day = ref[c].day
      BY <1>5, <2>3 DEF OneDay
    <3>2. p = o
      BY <2>1, <2>2, <2>3, <3>1 DEF Put
    <3>3. QED
      BY <2>2, <3>2
  <2>4. QED
    BY <1>9, <2>1, <2>2, <2>3 DEF Resolved, Closes
<1>12. CASE Close(c)
  <2>1. PageOf(ref[c]) # {}
    BY <1>1, <1>2, <1>3, <1>5, <1>6, NothingToClose DEF Following
  <2>2. "read" \in failed'
    BY <1>2, <1>12, <2>1, MissingIs DEF Close, Go, Types
  <2>3. QED
    BY <2>2, FineIs, WritingIs DEF Fine
<1>13. cmd[c] = "over" \/ Closed(c) \/ Close(c)
  <2>1. CASE ~CommandSteps(c)
    BY <1>2, <2>1, CommandMoves DEF Followed
  <2>2. CASE CommandSteps(c)
    BY <1>2, <2>2 DEF CommandSteps, Find, Recover, Post
  <2>3. QED
    BY <2>1, <2>2
<1>14. QED
  BY <1>10, <1>11, <1>12, <1>13

LEMMA SettlingIs == Settling => PageIsClosed
<1> SUFFICES ASSUME Settling, NEW c \in Commands, Quiet, Fine, cmd[c] = "over",
                    Of(ref[c].inv) \subseteq Done(c), OneDay(ref[c].inv, ref[c].day)
             PROVE  /\ \A page \in Get("page", ref[c]) : page.resolved
                    /\ html[ref[c].inv].resolved \/ ref[c].inv \in raced
  BY DEF PageIsClosed, Fine, OneDay
<1>1. Resolved(ref[c].inv) /\ (ref[c].inv \in raced \/ Closes(ref[c].inv))
  BY DEF Settling, Over
<1>2. triggers = {} /\ renders = {}
  BY DEF Quiet
<1>3. QED
  BY <1>1, <1>2 DEF Resolved, Closes, Get

\* _finalize_incident_page: when a review closes the page of a finished investigation,
\* the page stays resolved and the one served becomes it, whatever the order in which
\* pages are notified, read and rendered, unless two of its renders ran at once.
THEOREM PagesAreClosed == Spec => []PageIsClosed
<1>1. Init => Types /\ Followed /\ Published /\ Settling
  <2>1. Init => Published /\ Settling
    BY DEF Init, Published, Settling, Over
  <2>2. QED
    BY <2>1, InitTypes, InitFollowed
<1>2. (Types /\ Followed /\ Published /\ Settling) /\ [Next]_vars
         => (Types /\ Followed /\ Published /\ Settling)'
  BY TypesStep, FollowedStep, PublishedStep, SettlingStep
<1>3. Settling => PageIsClosed
  BY SettlingIs
<1>4. QED
  BY <1>1, <1>2, <1>3, PTL DEF Spec
=============================================================================
