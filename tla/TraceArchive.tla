---------------------------- MODULE TraceArchive ----------------------------
(***************************************************************************)
(* The record of the investigations of one thread: what the finalizer of   *)
(* each run writes (agents/master/finalizer.py, shared/trace_store.py),    *)
(* the page drawn from it (page_renderer/handler.py), and /postmortem,     *)
(* which finds the investigation again, posts a review from its record and *)
(* closes its page (agents/master/tools.py). Objects lie under the day     *)
(* their writer chose; the runs of an experiment, and a run dispatched     *)
(* twice, share one investigation id and hence the same keys.              *)
(***************************************************************************)
EXTENDS Integers, Sequences, FiniteSets

CONSTANTS
    Runs,      \* the runs of the thread's investigations
    Commands,  \* /postmortem commands
    Retention, \* _DDB_TTL_SECONDS, in days; the objects stay four times as long
    LastDay,   \* bound on the days, within which no object expires
    MaxFaults  \* bound on failed reads and writes and on crashes

ASSUME ArchiveAssumption ==
    /\ IsFiniteSet(Runs)
    /\ Retention \in Nat \ {0} /\ LastDay \in Nat /\ MaxFaults \in Nat

\* finalize: what is written, in this order. Its last step, the record for the
\* search of similar incidents, and the trace events are read by nothing here and
\* left out.
Steps == <<"manifest", "index", "results", "charts", "page">>
Writing == {Steps[n] : n \in DOMAIN Steps}

VARIABLES
    today,
    step,      \* of each run: "idle", the next step of its finalizer, "done" or "dead"
    invOf,     \* the investigation of each run
    started,   \* day and rank of its beginning
    objects,   \* the bucket: [kind, inv, day, of, resolved]
    rows,      \* the index by thread: [inv, day, started, expires], one row of an
               \* investigation
    arriving,  \* rows written to the table that the index does not show yet
    aged,      \* investigations whose row expired (history)
    triggers,  \* notifications of page models: [inv, day, by]
    renders,   \* renders that have read theirs: [inv, by, resolved, drawn]
    html,      \* the page served of each investigation, or NoPage
    cmd,       \* step of each command
    ref,       \* the row it found
    review,    \* the runs its manifest and its results are of
    failed,    \* the steps, reads, renders and runs that failed (history)
    found,     \* the runs recorded and not aged when it looked, and whether none was
               \* midway and the index up to date (history)
    overlapped,\* investigations two of whose runs wrote at once (history)
    raced      \* investigations two of whose renders ran at once (history)

index == <<rows, arriving, aged>>
archive == <<objects, index>>
pages == <<triggers, renders, html, raced>>
commands == <<cmd, ref, review, found>>
runs == <<step, invOf, started, overlapped>>
vars == <<today, runs, archive, pages, commands, failed>>

Investigations == 1..Cardinality(Runs)

NoPage == [resolved |-> FALSE, drawn |-> FALSE, served |-> FALSE]
NoRow == [inv |-> 1, day |-> 0, started |-> 0, expires |-> 0]

-----------------------------------------------------------------------------
(* Faulty variants of the definitions below.                                 *)

\* The partition of the day for everything.
PartitionToday(w, kind) == today
\* The page model before what it draws from.
PageFirst(s) == CASE s = "results" -> "page" [] s = "page" -> "charts"
                  [] s = "charts" -> "done" [] s = "manifest" -> "index"
                  [] OTHER -> "results"
\* The row that comes first.
OldestRow(candidates) ==
    CHOOSE row \in candidates : \A other \in candidates : row.started <= other.started
\* The page read back under today's partition.
PageOfToday(row) == {o \in objects : o.kind = "page" /\ o.inv = row.inv /\ o.day = today}
-----------------------------------------------------------------------------

Init ==
    /\ today = 0 /\ failed = {}
    /\ step = [w \in Runs |-> "idle"]
    /\ invOf = [w \in Runs |-> 1]
    /\ started = [w \in Runs |-> [day |-> 0, rank |-> 0]]
    /\ objects = {} /\ rows = {} /\ arriving = {} /\ aged = {} /\ triggers = {} /\ renders = {}
    /\ html = [i \in Investigations |-> NoPage]
    /\ cmd = [c \in Commands |-> "idle"] /\ ref = [c \in Commands |-> NoRow]
    /\ review = [c \in Commands |-> <<>>]
    /\ found = [c \in Commands |-> [done |-> {}, calm |-> TRUE]]
    /\ overlapped = {} /\ raced = {}

\* put_json: an object replaces the one under its key.
Put(o) == {p \in objects : ~(p.kind = o.kind /\ p.inv = o.inv /\ p.day = o.day)} \cup {o}
Get(kind, row) == {o \in objects : o.kind = kind /\ o.inv = row.inv /\ o.day = row.day}

Fault(what) == Cardinality(failed) < MaxFaults /\ failed' = failed \cup {what}

\* A read that returns nothing: there is nothing, or it failed (fail-open).
Missing(answer) ==
    \/ answer = {} /\ UNCHANGED failed
    \/ Fault("read")

-----------------------------------------------------------------------------
(* A run and its finalizer.                                                  *)

\* The runs of an investigation: an experiment's two, or an alert dispatched twice.
Of(i) == {w \in Runs : invOf[w] = i /\ step[w] # "idle"}

Begin(w, i) ==
    /\ step[w] = "idle" /\ \A j \in 1..i - 1 : Of(j) # {}
    /\ invOf' = [invOf EXCEPT ![w] = i]
    /\ step' = [step EXCEPT ![w] = "manifest"]
    /\ started' = [started EXCEPT ![w] =
          [day |-> today, rank |-> Cardinality({v \in Runs : step[v] # "idle"})]]
    /\ UNCHANGED <<today, overlapped, archive, pages, commands, failed>>

\* The manifest, its row and the results go under the day the run began; the chart
\* series and the page model, whose partition is left open, under the day's.
Partition(w, kind) == IF kind \in {"charts", "page"} THEN today ELSE started[w].day

\* The order of finalize.
After(s) == LET n == CHOOSE n \in DOMAIN Steps : Steps[n] = s
            IN  IF n = Len(Steps) THEN "done" ELSE Steps[n + 1]

\* What a run writes of itself; a page model starts out unresolved.
Record(w, kind, day) ==
    [kind |-> kind, inv |-> invOf[w], day |-> day, of |-> w, resolved |-> FALSE]

\* put_manifest (the object), put_results, put_chart_series and put_page_model,
\* whose new object is notified to the renderer.
Filed(w, kind) ==
    LET day == Partition(w, kind)
    IN  /\ objects' = Put(Record(w, kind, day))
        /\ triggers' = triggers \cup
              IF kind = "page" THEN {[inv |-> invOf[w], day |-> day, by |-> w]} ELSE {}

\* A row replaces the one of its investigation.
Replaced(table, row) == {other \in table : other.inv # row.inv} \cup {row}

\* put_manifest's row, in the table at once and with it the row's time to live.
Row(w) == [inv |-> invOf[w], day |-> Partition(w, "index"), started |-> started[w].rank,
           expires |-> today + Retention]
Indexed(w) ==
    arriving' = Replaced(arriving, Row(w)) /\ aged' = aged \ {invOf[w]} /\ UNCHANGED rows

Stored(w, kind) ==
    IF kind = "index" THEN Indexed(w) /\ UNCHANGED <<objects, triggers>>
                      ELSE Filed(w, kind) /\ UNCHANGED index

\* Some of its record is written, but not all.
Midway(w) == step[w] \in Writing \ {"manifest"}

\* One guarded step: written, or failed and passed over.
Write(w) ==
    /\ step[w] \in Writing
    /\ step' = [step EXCEPT ![w] = After(step[w])]
    /\ \/ Stored(w, step[w]) /\ UNCHANGED failed
       \/ Fault(step[w]) /\ UNCHANGED <<archive, triggers>>
    /\ overlapped' = overlapped \cup
         IF \E v \in Of(invOf[w]) \ {w} : Midway(v) THEN {invOf[w]} ELSE {}
    /\ UNCHANGED <<today, invOf, started, renders, html, raced, commands>>

Crash(w) ==
    /\ step[w] \in Writing /\ Fault("crash")
    /\ step' = [step EXCEPT ![w] = "dead"]
    /\ UNCHANGED <<today, invOf, started, overlapped, archive, pages, commands>>

-----------------------------------------------------------------------------
(* The table's index by thread, which is read eventually consistent, and the *)
(* rows' time to live.                                                       *)

\* Nothing is under way.
Quiet ==
    /\ \A w \in Runs : step[w] \in {"done", "dead", "idle"}
    /\ \A c \in Commands : cmd[c] \in {"idle", "noticed", "over"}
    /\ triggers = {} /\ renders = {}

Arrive(row) ==
    /\ arriving' = arriving \ {row} /\ rows' = Replaced(rows, row)
    /\ UNCHANGED <<today, runs, objects, aged, pages, commands, failed>>

\* Ninety days outlast whatever is under way.
Expire(row) ==
    /\ row.expires <= today /\ Quiet /\ \A newer \in arriving : newer.inv # row.inv
    /\ rows' = rows \ {row} /\ aged' = aged \cup {row.inv}
    /\ UNCHANGED <<today, runs, objects, arriving, pages, commands, failed>>

-----------------------------------------------------------------------------
(* The renderer: it reads the model, then its charts, then writes the page.  *)

\* A chart that cannot be read is skipped.
ChartsRead(t, drawn) ==
    \/ drawn = (Get("charts", t) # {}) /\ UNCHANGED failed
    \/ drawn = FALSE /\ Fault("chart")

\* A model that cannot be read ends the render.
RenderReads(t) ==
    /\ triggers' = triggers \ {t}
    /\ \/ /\ \E page \in Get("page", t), drawn \in BOOLEAN :
               /\ ChartsRead(t, drawn)
               /\ renders' = renders \cup
                    {[inv |-> t.inv, by |-> t.by, resolved |-> page.resolved, drawn |-> drawn]}
          /\ raced' = raced \cup IF \E r \in renders : r.inv = t.inv THEN {t.inv} ELSE {}
       \/ Fault("render") /\ UNCHANGED <<renders, raced>>
    /\ UNCHANGED <<today, runs, archive, html, commands>>

\* render_page: the status and the charts of what was read, whatever has become of
\* the model and its charts since.
Rendered(r) == [resolved |-> r.resolved, drawn |-> r.drawn, served |-> TRUE]

RenderWrites(r) ==
    /\ renders' = renders \ {r}
    /\ html' = [html EXCEPT ![r.inv] = Rendered(r)]
    /\ UNCHANGED <<today, runs, archive, triggers, raced, commands, failed>>

-----------------------------------------------------------------------------
(* /postmortem. The commands of a thread share a container: between two      *)
(* awaits of one, no other runs.                                             *)

Sync == {"manifest", "results", "close", "closing"}
Alone(c) == \A d \in Commands \ {c} : cmd[d] \notin Sync
Go(c, s) == cmd' = [cmd EXCEPT ![c] = s]

\* find_investigation: of several investigations the one begun last.
Newest(candidates) ==
    CHOOSE row \in candidates : \A other \in candidates : other.started <= row.started

Find(c) ==
    /\ cmd[c] = "idle" /\ Alone(c)
    /\ found' = [found EXCEPT ![c] =
          [done |-> {w \in Runs : step[w] = "done" /\ invOf[w] \notin aged},
           calm |-> arriving = {} /\ \A w \in Runs : ~Midway(w)]]
    /\ \/ /\ rows # {} /\ Go(c, "manifest")
          /\ ref' = [ref EXCEPT ![c] = Newest(rows)] /\ UNCHANGED failed
       \/ Missing(rows) /\ Go(c, "noticed") /\ UNCHANGED ref
    /\ UNCHANGED <<today, runs, archive, pages, review>>

\* get_manifest, then get_results: an error reads like a record that is not there.
Recover(c, kind, next) ==
    /\ cmd[c] = kind
    /\ \/ \E o \in Get(kind, ref[c]) :
            /\ review' = [review EXCEPT ![c] = Append(@, o.of)]
            /\ Go(c, next) /\ UNCHANGED failed
       \/ Missing(Get(kind, ref[c])) /\ Go(c, "noticed") /\ UNCHANGED review
    /\ UNCHANGED <<today, runs, archive, pages, ref, found>>

\* The review is delivered, or gives way to a notice.
Post(c) ==
    /\ cmd[c] = "posting" /\ Alone(c)
    /\ \/ Go(c, "close") /\ UNCHANGED failed
       \/ Go(c, "noticed") /\ Fault("post")
    /\ UNCHANGED <<today, runs, archive, pages, ref, review, found>>

\* get_page_model
PageOf(row) == Get("page", row)

\* _finalize_incident_page: a page that is there is read, resolved and rewritten
\* under the same key.
Close(c) ==
    /\ cmd[c] = "close"
    /\ \/ PageOf(ref[c]) # {} /\ Go(c, "closing") /\ UNCHANGED failed
       \/ Missing(PageOf(ref[c])) /\ Go(c, "over")
    /\ UNCHANGED <<today, runs, archive, pages, ref, review, found>>

Closed(c) ==
    /\ cmd[c] = "closing" /\ Go(c, "over")
    /\ objects' = Put([kind |-> "page", inv |-> ref[c].inv, day |-> ref[c].day,
                       of |-> review[c][1], resolved |-> TRUE])
    /\ triggers' = triggers \cup {[inv |-> ref[c].inv, day |-> ref[c].day, by |-> c]}
    /\ UNCHANGED <<today, runs, index, renders, html, raced, ref, review, found, failed>>

-----------------------------------------------------------------------------

Midnight ==
    /\ today < LastDay /\ today' = today + 1
    /\ UNCHANGED <<runs, archive, pages, commands, failed>>

Next ==
    \/ \E w \in Runs : (\E i \in Investigations : Begin(w, i)) \/ Write(w) \/ Crash(w)
    \/ \E row \in arriving : Arrive(row)
    \/ \E row \in rows : Expire(row)
    \/ \E t \in triggers : RenderReads(t)
    \/ \E r \in renders : RenderWrites(r)
    \/ \E c \in Commands :
         \/ Find(c) \/ Recover(c, "manifest", "results") \/ Recover(c, "results", "posting")
         \/ Post(c) \/ Close(c) \/ Closed(c)
    \/ Midnight

Spec == Init /\ [][Next]_vars

-----------------------------------------------------------------------------
(* Properties.                                                               *)

PageFailures == {"charts", "page", "chart", "render"}
Done(c) == found[c].done
Calm(c) == Done(c) # {} /\ found[c].calm

\* _run_postmortem: nobody is told that an investigation cannot be located, or
\* that its records are incomplete, when one was recorded, its row has not aged out
\* and none was just being written or on its way into the index, whatever the days
\* on which it began, ended and was asked about, and whatever went wrong with its
\* charts and its page.
RecordIsFound ==
    \A c \in Commands : cmd[c] = "noticed" /\ failed \subseteq PageFailures => ~Calm(c)

\* find_investigation: the review is of the last investigation of the thread whose
\* row has not aged out, and, when no two of its runs wrote at once, of one run
\* throughout.
ReviewIsOfTheLast ==
    \A c \in Commands : Len(review[c]) = 2 /\ failed \subseteq PageFailures /\ Calm(c) =>
        LET mine == Of(ref[c].inv) IN
        /\ \A i \in Investigations \ {ref[c].inv} : Of(i) # {} /\ Of(i) \subseteq Done(c) =>
             \E v \in Of(i), w \in mine : started[v].rank < started[w].rank
        /\ ref[c].inv \notin overlapped /\ mine \subseteq Done(c)
             => review[c][1] = review[c][2]

\* _finalize_incident_page: once a review of a recorded investigation has been
\* posted, its page is resolved, and so is the one that is served unless two
\* renders of it ran at once; where the page lies under the day of the record, and
\* whatever was lost of the record itself.
PageIsClosed ==
    \A c \in Commands :
        /\ Quiet /\ failed \subseteq (Writing \ {"page"}) \cup {"chart"} /\ cmd[c] = "over"
        /\ Of(ref[c].inv) \subseteq Done(c)
        /\ \A o \in objects : o.kind = "page" /\ o.inv = ref[c].inv => o.day = ref[c].day
        => /\ \A page \in Get("page", ref[c]) : page.resolved
           /\ html[ref[c].inv].resolved \/ ref[c].inv \in raced

\* put_page_model: the charts are there when the page that shows them is drawn,
\* unless they could not be written or read, or a day began between them and the page.
ChartsBeforePage ==
    \A i \in Investigations :
        html[i].served /\ ~html[i].drawn =>
            \/ failed \cap {"charts", "chart"} # {}
            \/ \E o, p \in objects :
                  /\ o.kind = "charts" /\ p.kind = "page"
                  /\ o.inv = i /\ p.inv = i /\ o.day # p.day
=============================================================================
