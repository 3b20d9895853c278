------------------------------- MODULE Intake -------------------------------
(***************************************************************************)
(* The webhook intake (lambda_adapter): the chat platform delivers each    *)
(* event as a Lambda invocation of its own, and again when it was not      *)
(* answered in time or was answered with an error; the invocations of one  *)
(* event, and of several events about one message, run concurrently and    *)
(* meet only in the DynamoDB deduplication table.  What passes the gate is *)
(* handed over as an asynchronous self-invocation that calls the master.   *)
(***************************************************************************)
EXTENDS Integers, FiniteSets, Sequences

CONSTANTS
    Alerts,         \* chat events that ask for an investigation
    Messages,       \* the messages (platform#channel#message_id) investigated
    Target,         \* per alert: the message it is about (a reply's parent)
    Rereads,        \* alerts whose message text intake has to fetch
    MaxDeliveries,  \* 1 + the platform's retries of an unanswered event
    MaxFaults,      \* bound on faults
    MaxExpiries     \* bound on expired records per message

Deliveries == Alerts \X (1 .. MaxDeliveries)
Variants == {"only", "A", "B"}
NoRecord == <<"no record">>

\* What the heuristics can tell of a text: an alert (by the override, a severity, a
\* formatting marker or a dashboard link), chatter, or neither.
Texts == {"alert", "chatter", "unclear"}

ASSUME IntakeAssumption ==
    /\ Target \in [Alerts -> Messages]
    /\ Rereads \subseteq Alerts
    /\ MaxDeliveries \in Nat \ {0} /\ MaxFaults \in Nat /\ MaxExpiries \in Nat
    /\ NoRecord \notin Deliveries

VARIABLES
    text,     \* per alert: what kind of text it has (never changes)
    tiers,    \* tiers of the classification that are switched on (never changes)
    pc,       \* per delivery: the invocation's program counter
    todo,     \* per delivery: variants still to dispatch
    outcome,  \* per delivery: what the handler decided
    dedup,    \* per message: the delivery whose investigation id is recorded
    past,     \* per message: the owners of its expired records
    tasks,    \* self-invocations by delivery and variant
    faults

setting == <<text, tiers>>
vars == <<setting, pc, todo, outcome, dedup, past, tasks, faults>>

Event(d) == d[1]
Msg(d) == Target[Event(d)]

\* The invocation is running the handler, or its part behind the dedup record.
BehindRecord == {"gate", "dispatch"}
Running == {"ingest", "record"} \cup BehindRecord

Goto(d, p) == pc' = [pc EXCEPT ![d] = p]
\* HTTP 200, in time or too late for the platform (which a failure after the last
\* step that matters amounts to).
Answer(d) == Goto(d, "ok") \/ Goto(d, "late")
Fault == faults < MaxFaults /\ faults' = faults + 1

-----------------------------------------------------------------------------
(* Faulty variants of the definitions below.                                 *)

\* A record that is overwritten: no attribute_not_exists condition.
IsRecordedUnconditional(m) == FALSE
\* A gate that closes without remembering that the message was dealt with.
GateOutForgets(d) ==
    /\ Answer(d)
    /\ outcome' = [outcome EXCEPT ![d] = "gated"]
    /\ dedup' = [dedup EXCEPT ![Msg(d)] = NoRecord]
\* No opinion taken for a no.
ClassifiedClosed(heard) == IF heard = {} THEN {"chatter"} ELSE heard
\* An experiment's variants that all carry the last one's label.
PlansCollapsed == {<<"only">>, <<"B", "B">>}
-----------------------------------------------------------------------------

\* put_item's ConditionExpression would fail.
IsRecorded(m) == dedup[m] # NoRecord

\* What a lookup of the active experiment sends out, in order.
Plans == {<<"only">>, <<"A", "B">>}

\* classify_heuristic: the first tier's verdicts, none of them on an unclear text.
Heuristic(e) == {text[e]} \ {"unclear"}

\* BedrockLlmClassifier.classify, when it is switched on: a verdict, or none after
\* any error or any other answer.
Opinions == {{}} \cup IF "llm" \in tiers THEN {{"alert"}, {"chatter"}} ELSE {}

\* classify_alert: an alert, unless the first tier or else the second is sure that
\* it is none.
Classified(heard) == IF heard = {} THEN {"alert"} ELSE heard

\* What the gate may decide of an alert.
Verdicts(e) ==
    IF "heuristics" \notin tiers THEN {"alert"}
    ELSE IF Heuristic(e) # {} THEN Heuristic(e)
    ELSE UNION {Classified(opinion) : opinion \in Opinions}

\* A non-alert: the notice (posted or not) and a 200.  The record stays.
GateOut(d) ==
    /\ Answer(d)
    /\ outcome' = [outcome EXCEPT ![d] = "gated"]
    /\ dedup' = dedup

\* The text intake fetches for r contains the whole text of the message it is about,
\* which e brought: alone for a reaction, with the operator's note appended for a
\* reply.  What makes e an alert makes r one, and r is chatter only if e is.
Contains(r, e) ==
    /\ text[e] = "alert" => text[r] = "alert"
    /\ text[r] = "chatter" => text[e] = "chatter"

Init ==
    /\ text \in [Alerts -> Texts]
    /\ \A r \in Rereads : \A e \in Alerts \ Rereads :
          Target[r] = Target[e] => Contains(r, e)
    /\ \/ tiers \in {{"heuristics"}, {"heuristics", "llm"}}
       \/ tiers = {} /\ \A e \in Alerts : text[e] = "unclear" \* read by nobody
    /\ pc = [d \in Deliveries |-> "idle"]
    /\ todo = [d \in Deliveries |-> << >>]
    /\ outcome = [d \in Deliveries |-> "none"]
    /\ dedup = [m \in Messages |-> NoRecord]
    /\ past = [m \in Messages |-> {}]
    /\ tasks = [t \in Deliveries \X Variants |-> "none"]
    /\ faults = 0

\* The platform sends an event: at first, or because the delivery before has not
\* been answered (within its 3 s) or was answered with an error.
Deliver(d) ==
    /\ pc[d] = "idle"
    /\ d[2] > 1 => pc[<<Event(d), d[2] - 1>>] \notin {"idle", "ok"}
    /\ Goto(d, IF Event(d) \in Rereads THEN "ingest" ELSE "record")
    /\ UNCHANGED <<setting, todo, outcome, dedup, past, tasks, faults>>

\* platform.ingest read the message behind the event (the investigation id is a
\* fresh one: d).
Ingest(d) ==
    /\ pc[d] = "ingest"
    /\ Goto(d, "record")
    /\ UNCHANGED <<setting, todo, outcome, dedup, past, tasks, faults>>

\* The message behind a reaction or a reply could not be read: 200, dropped.
Ignore(d) ==
    /\ pc[d] = "ingest"
    /\ Fault
    /\ Answer(d)
    /\ outcome' = [outcome EXCEPT ![d] = "ignored"]
    /\ UNCHANGED <<setting, todo, dedup, past, tasks>>

\* record_if_new wrote the item.
RecordNew(d) ==
    /\ pc[d] = "record" /\ ~IsRecorded(Msg(d))
    /\ dedup' = [dedup EXCEPT ![Msg(d)] = d]
    /\ Goto(d, "gate")
    /\ UNCHANGED <<setting, todo, outcome, past, tasks, faults>>

\* record_if_new found an item: the alert is discarded with a 200.
RecordDuplicate(d) ==
    /\ pc[d] = "record" /\ IsRecorded(Msg(d))
    /\ Answer(d)
    /\ outcome' = [outcome EXCEPT ![d] = "duplicate"]
    /\ UNCHANGED <<setting, todo, dedup, past, tasks, faults>>

\* The client library re-sent a write whose answer was lost: the condition fails
\* on the item this very delivery wrote.
RecordResent(d) ==
    /\ pc[d] = "record" /\ ~IsRecorded(Msg(d))
    /\ Fault
    /\ dedup' = [dedup EXCEPT ![Msg(d)] = d]
    /\ Answer(d)
    /\ outcome' = [outcome EXCEPT ![d] = "duplicate"]
    /\ UNCHANGED <<setting, todo, past, tasks>>

\* The classification gate and, for what passes it, the lookup of the active
\* experiment.
Gate(d) ==
    /\ pc[d] = "gate"
    /\ \/ /\ "alert" \in Verdicts(Event(d))
          /\ \E plan \in Plans : todo' = [todo EXCEPT ![d] = plan]
          /\ outcome' = [outcome EXCEPT ![d] = "investigated"]
          /\ Goto(d, "dispatch")
          /\ UNCHANGED dedup
       \/ "chatter" \in Verdicts(Event(d)) /\ GateOut(d) /\ UNCHANGED todo
    /\ UNCHANGED <<setting, past, tasks, faults>>

\* AsyncMasterDispatch: one self-invocation per variant.
Dispatch(d) ==
    /\ pc[d] = "dispatch"
    /\ tasks' = [tasks EXCEPT ![<<d, Head(todo[d])>>] = "queued"]
    /\ todo' = [todo EXCEPT ![d] = Tail(@)]
    /\ IF Len(todo[d]) = 1 THEN Answer(d) ELSE UNCHANGED pc
    /\ UNCHANGED <<setting, outcome, dedup, past, faults>>

\* The handler raised (a store, lookup or self-invocation error) or the invocation
\* was killed: the platform gets an error.
Fail(d) ==
    /\ pc[d] \in Running
    /\ Fault
    /\ Goto(d, "failed")
    /\ UNCHANGED <<setting, todo, outcome, dedup, past, tasks>>

\* The self-invocation replays the task: the master took it, or the call failed
\* (or waited out its maximum age) and is not retried.
RunTask(t) ==
    /\ tasks[t] = "queued"
    /\ \/ tasks' = [tasks EXCEPT ![t] = "started"] /\ UNCHANGED faults
       \/ tasks' = [tasks EXCEPT ![t] = "lost"] /\ Fault
    /\ UNCHANGED <<setting, pc, todo, outcome, dedup, past>>

\* DynamoDB drops the item after its 24 h, when the invocations and redeliveries
\* that were about when it was written are long over.
Expire(m) ==
    /\ IsRecorded(m)
    /\ Cardinality(past[m]) < MaxExpiries
    /\ \A d \in Deliveries :
          Msg(d) = m =>
              /\ pc[d] \notin Running
              /\ pc[d] \in {"late", "failed"} /\ d[2] < MaxDeliveries =>
                     pc[<<Event(d), d[2] + 1>>] # "idle"
    /\ past' = [past EXCEPT ![m] = @ \cup {dedup[m]}]
    /\ dedup' = [dedup EXCEPT ![m] = NoRecord]
    /\ UNCHANGED <<setting, pc, todo, outcome, tasks, faults>>

\* The handler's own steps in one invocation.
Handler(d) == \/ Ingest(d) \/ RecordNew(d) \/ RecordDuplicate(d) \/ Gate(d)
              \/ Dispatch(d)

Next == \/ \E d \in Deliveries : \/ Handler(d) \/ Deliver(d) \/ Ignore(d)
                                 \/ RecordResent(d) \/ Fail(d)
        \/ \E t \in Deliveries \X Variants : RunTask(t)
        \/ \E m \in Messages : Expire(m)

Spec == Init /\ [][Next]_vars

\* Invocations run on, the platform retries what it holds for unanswered (it need
\* not send an event in the first place), and queued tasks are run.  Each can
\* happen only so often, so fairness to all of a kind is fairness to each.
Fairness == /\ WF_vars(\E d \in Deliveries : Handler(d))
            /\ WF_vars(\E d \in Deliveries : d[2] > 1 /\ Deliver(d))
            /\ WF_vars(\E t \in Deliveries \X Variants : RunTask(t))
FairSpec == Spec /\ Fairness

-----------------------------------------------------------------------------
(* Properties.                                                               *)

\* Every variable holds a value of its kind.
TypeOK ==
    /\ text \in [Alerts -> Texts] /\ tiers \subseteq {"heuristics", "llm"}
    /\ pc \in [Deliveries -> Running \cup {"idle", "ok", "late", "failed"}]
    /\ todo \in [Deliveries -> Seq(Variants)]
    /\ outcome \in [Deliveries ->
                       {"none", "ignored", "duplicate", "gated", "investigated"}]
    /\ dedup \in [Messages -> Deliveries \cup {NoRecord}]
    /\ past \in [Messages -> SUBSET Deliveries]
    /\ tasks \in [Deliveries \X Variants -> {"none", "queued", "started", "lost"}]
    /\ faults \in 0 .. MaxFaults

About(m) == {d \in Deliveries : Msg(d) = m}
Sent(d) == {v \in Variants : tasks[<<d, v>>] # "none"}

\* Behind the deduplication record a delivery is alone with its message, however
\* many deliveries of however many events about it run at the same time.
WorkingAlone ==
    \A d \in Deliveries :
        pc[d] \in BehindRecord => dedup[Msg(d)] = d

\* While its record lasts a message is dealt with once: one courtesy notice, or
\* one investigation (per variant), never both and never by two deliveries.
Handled(d) == outcome[d] = "gated" \/ Sent(d) # {}
OneDecision ==
    /\ \A d \in Deliveries : outcome[d] = "gated" => Sent(d) = {}
    /\ \A m \in Messages : \A c, d \in About(m) :
          Handled(c) /\ Handled(d) /\ c # d => c \in past[m] \/ d \in past[m]

\* An experiment is dispatched whole: the 200 for an investigated alert means the
\* control or both variants were handed over, each once.
WholeExperiment ==
    \A d \in Deliveries :
        pc[d] \in {"ok", "late"} /\ outcome[d] = "investigated"
            => Sent(d) \in {{"only"}, {"A", "B"}}

\* The concurrent deliveries of all events about a message come to one case at a
\* time: record_if_new opens it, its delivery alone decides and hands over, and each
\* variant is handed over once, until the record expires.
Case == INSTANCE MessageCase WITH
    Cases       <- Deliveries,
    NoCase      <- NoRecord,
    Experiments <- {{"only"}, {"A", "B"}},
    open        <- dedup,
    closed      <- past,
    verdict     <- [d \in Deliveries |-> IF outcome[d] \in {"gated", "investigated"}
                                         THEN outcome[d] ELSE "none"],
    owed        <- [d \in Deliveries |-> {todo[d][i] : i \in DOMAIN todo[d]}],
    handed      <- {[case |-> t[1], variant |-> t[2]] :
                       t \in {t \in Deliveries \X Variants : tasks[t] # "none"}}
ImplementsMessageCase == Case!Spec

\* In the end every alert the platform sent has reached the master, or its message
\* was gated - over a text that is chatter, or that the model, when it is asked, may
\* take for chatter; the only other ends are a fault of the delivery that holds (or
\* held) the record, a lost hand-over, an unreadable message and a failure of every
\* delivery.  A failure before the record is made good by the platform's retry.
Owner(d) == dedup[Msg(d)] = d \/ d \in past[Msg(d)]
Reached(m) == \E d \in About(m), v \in Variants : tasks[<<d, v>>] = "started"
Lost(m) == \E d \in About(m) :
              \/ Owner(d) /\ (pc[d] = "failed" \/ outcome[d] = "duplicate")
              \/ \E v \in Variants : tasks[<<d, v>>] = "lost"
Unheard(e) == \/ \A n \in 1 .. MaxDeliveries : pc[<<e, n>>] = "failed"
              \/ \E n \in 1 .. MaxDeliveries : outcome[<<e, n>>] = "ignored"
Dubious(e) == text[e] = "chatter" \/ (text[e] = "unclear" /\ "llm" \in tiers)
Settled(e) == \/ Reached(Target[e]) \/ Lost(Target[e]) \/ Unheard(e)
              \/ \E d \in About(Target[e]) : outcome[d] = "gated" /\ Dubious(Event(d))
AlertsAreHeard == <>[](\A e \in Alerts : pc[<<e, 1>>] # "idle" => Settled(e))

\* "The `investigate` keyword is a manual override that forces an alert" (and the
\* notice a gated mention gets asks for it): a delivery the heuristics call an
\* alert is not answered as a duplicate of a message that was gated.
OverrideForcesAlert ==
    \A d \in Deliveries :
        /\ text[Event(d)] = "alert"
        /\ pc[d] = "ok" /\ outcome[d] = "duplicate"
        => \A c \in About(Msg(d)) : dedup[Msg(d)] = c => outcome[c] # "gated"
=============================================================================
