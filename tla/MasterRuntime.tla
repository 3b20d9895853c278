--------------------------- MODULE MasterRuntime ----------------------------
(***************************************************************************)
(* One container of the master agent (agents/master/tools.py): its tools   *)
(* answer at once and leave an investigation, a snapshot or a post-        *)
(* incident review to a background task. The tasks share the event loop,   *)
(* the busy state behind /ping (shared/busy_state.py), and the account of  *)
(* the decision calls (shared/model_call.py); what they say goes out       *)
(* through retried deliveries (shared/platforms). Investigation is the     *)
(* inside of one of these tasks.                                           *)
(***************************************************************************)
EXTENDS Integers, FiniteSets

CONSTANTS
    Requests,    \* invocations of the tools; a repeated dispatch is one more
    MaxRetries,  \* deliver_with_retry's max_retries
    MaxDecisions \* bound on the decision calls of an investigation

ASSUME RuntimeAssumption == MaxRetries \in Nat /\ MaxDecisions \in Nat

Kinds == {"investigate", "snapshot", "pir"}

VARIABLES
    kind,       \* which tool each request calls
    up,         \* the container runs
    tracked,    \* _TRACKED_TASKS
    phase,      \* of each request's task
    job,        \* of each request: its deliveries, see Jobs
    usage,      \* decision calls in the process-wide account: [of, call]
    decisions,  \* decision calls each request has made
    charged,    \* what a request's scorecard was charged with
    prior,      \* decision calls made before the request began (history)
    overlapped  \* investigations that ran beside another (history)

account == <<usage, decisions, charged, prior, overlapped>>
vars == <<kind, up, tracked, phase, job, account>>

\* The report (or review, or snapshot) and the notice of a failure.
Jobs == {"main", "notice"}
Idle == [state |-> "idle", failed |-> 0, shown |-> FALSE]

Live == {"created", "working", "fanned", "posting", "after", "notifying"}
Is(r, k) == kind[r] = k
Investigating == {r \in Requests : Is(r, "investigate") /\ phase[r] \in Live \ {"created"}}
CallsOf(r) == {[of |-> r, call |-> n] : n \in 1..decisions[r]}

-----------------------------------------------------------------------------
(* Faulty variants of the definitions below.                                 *)

\* The busy state of a container that counts finished starts only.
BusyLate == \E r \in tracked : phase[r] # "created"
\* An investigation that goes on with the account it finds.
ResetKeeps == usage
\* Without the done-callback.
DiesSilently(r) == job' = job
\* A page that cannot be closed takes the review down with it.
ClosePageUnguarded(r) ==
    \/ phase' = [phase EXCEPT ![r] = "done"] /\ UNCHANGED job
    \/ /\ phase' = [phase EXCEPT ![r] = "notifying"]
       /\ job' = [job EXCEPT ![r]["notice"].state = "sending"]
-----------------------------------------------------------------------------

Init ==
    /\ kind \in [Requests -> Kinds]
    /\ up = TRUE /\ tracked = {} /\ usage = {} /\ overlapped = {}
    /\ phase = [r \in Requests |-> "waiting"]
    /\ job = [r \in Requests |-> [k \in Jobs |-> Idle]]
    /\ decisions = [r \in Requests |-> 0]
    /\ charged = [r \in Requests |-> {}] /\ prior = [r \in Requests |-> {}]

GoTo(r, p) == phase' = [phase EXCEPT ![r] = p]
Send(r, k) == job' = [job EXCEPT ![r][k].state = "sending"]
Ended(r) == tracked' = tracked \ {r}

\* investigate_alert, capture_status_snapshot, finalize_postmortem: the task is
\* created and tracked; without an active agent there is nothing to investigate.
Invoke(r) ==
    /\ up /\ phase[r] = "waiting"
    /\ \/ GoTo(r, "created") /\ tracked' = tracked \cup {r}
       \/ Is(r, "investigate") /\ GoTo(r, "aborted") /\ UNCHANGED tracked
    /\ UNCHANGED <<kind, up, job, account>>

\* reset_usage
Reset == {}

\* The task's first step.
Begin(r) ==
    /\ phase[r] = "created" /\ GoTo(r, "working")
    /\ IF Is(r, "investigate")
       THEN /\ usage' = Reset
            /\ prior' = [prior EXCEPT ![r] = UNION {CallsOf(q) : q \in Requests}]
            /\ overlapped' = overlapped \cup
                 IF Investigating = {} THEN {} ELSE Investigating \cup {r}
       ELSE UNCHANGED <<usage, prior, overlapped>>
    /\ UNCHANGED <<kind, up, tracked, job, decisions, charged>>

\* record_usage
RecordUsage(r) == usage \cup {[of |-> r, call |-> decisions[r] + 1]}

\* StructuredModelCall.call: routing, synthesis or follow-up has called its model.
\* A call that failed or ran out of time records nothing, whatever it cost.
Decide(r) ==
    /\ Is(r, "investigate") /\ phase[r] \in {"working", "fanned", "after"}
    /\ decisions[r] < MaxDecisions
    /\ decisions' = [decisions EXCEPT ![r] = @ + 1]
    /\ usage' = RecordUsage(r)
    /\ UNCHANGED <<kind, up, tracked, phase, job, charged, prior, overlapped>>

\* The agents are dispatched. The started notice goes out in a task of its own,
\* which nothing tracks and nothing waits for: it is left out here.
Fan(r) ==
    /\ Is(r, "investigate") /\ phase[r] = "working"
    /\ GoTo(r, "fanned")
    /\ UNCHANGED <<kind, up, tracked, job, account>>

Post(r) ==
    /\ phase[r] = IF Is(r, "investigate") THEN "fanned" ELSE "working"
    /\ GoTo(r, "posting") /\ Send(r, "main")
    /\ UNCHANGED <<kind, up, tracked, account>>

\* The delivery has ended: an investigation goes on whatever came of it, and so
\* does a snapshot, to its end; a review that could not be posted gives way to
\* the notice.
Posted(r) ==
    /\ phase[r] = "posting" /\ job[r]["main"].state \in {"ok", "raised"}
    /\ CASE Is(r, "investigate") -> GoTo(r, "after") /\ UNCHANGED <<tracked, job>>
         [] Is(r, "snapshot") -> GoTo(r, "done") /\ Ended(r) /\ UNCHANGED job
         [] OTHER -> /\ UNCHANGED tracked
                     /\ IF job[r]["main"].state = "ok"
                        THEN GoTo(r, "after") /\ UNCHANGED job
                        ELSE GoTo(r, "notifying") /\ Send(r, "notice")
    /\ UNCHANGED <<kind, up, account>>

\* _run_postmortem without an archive, the investigation or its records, or
\* failing at them.
Miss(r) ==
    /\ Is(r, "pir") /\ phase[r] = "working"
    /\ GoTo(r, "notifying") /\ Send(r, "notice")
    /\ UNCHANGED <<kind, up, tracked, account>>

\* _finalize_incident_page: closed or not, the review stands.
ClosePage(r) == GoTo(r, "done") /\ UNCHANGED job

Reviewed(r) ==
    /\ Is(r, "pir") /\ phase[r] = "after" /\ ClosePage(r)
    /\ tracked' = IF phase'[r] = "done" THEN tracked \ {r} ELSE tracked
    /\ UNCHANGED <<kind, up, account>>

Notified(r) ==
    /\ phase[r] = "notifying" /\ job[r]["notice"].state \in {"ok", "raised"}
    /\ GoTo(r, "done") /\ Ended(r)
    /\ UNCHANGED <<kind, up, job, account>>

\* The end of investigate(): drain_usage for the experiment's scorecard.
Finish(r) ==
    /\ Is(r, "investigate") /\ phase[r] = "after"
    /\ GoTo(r, "done") /\ Ended(r)
    /\ charged' = [charged EXCEPT ![r] = usage]
    /\ UNCHANGED <<kind, up, job, usage, decisions, prior, overlapped>>

\* _notify_on_investigation_failure, set up for investigations only.
Dies(r) == IF Is(r, "investigate") THEN Send(r, "notice") ELSE UNCHANGED job

\* An exception outside the parts that fail open.
Raise(r) ==
    /\ \/ Is(r, "investigate") /\ phase[r] \in {"working", "fanned", "after"}
       \/ Is(r, "snapshot") /\ phase[r] = "working"
    /\ GoTo(r, "died") /\ Ended(r) /\ Dies(r)
    /\ UNCHANGED <<kind, up, account>>

\* deliver_with_retry; ChatPlatform.notice, for a review, is tried once.
Limit(r, k) == IF Is(r, "pir") /\ k = "notice" THEN 1 ELSE MaxRetries + 1

\* One attempt: posted and answered, posted with the answer lost, or refused.
Attempt(r, k) ==
    /\ up /\ job[r][k].state = "sending"
    /\ LET sent == job[r][k]
           failed == sent.failed + 1
           retried == IF failed < Limit(r, k) THEN "sending" ELSE "raised"
           Becomes(j) == job' = [job EXCEPT ![r][k] = j]
       IN  \/ Becomes([sent EXCEPT !.state = "ok", !.shown = TRUE])
           \/ \E posted \in BOOLEAN :
                Becomes([state |-> retried, failed |-> failed,
                         shown |-> sent.shown \/ posted])
    /\ UNCHANGED <<kind, up, tracked, phase, account>>

\* is_busy, which /ping tells as HealthyBusy
Busy == tracked # {}

\* The container goes, with every task in it.
Gone(label) ==
    /\ up /\ up' = FALSE /\ tracked' = {}
    /\ phase' = [r \in Requests |-> IF phase[r] \in Live THEN label ELSE phase[r]]
    /\ job' = [r \in Requests |-> [k \in Jobs |->
                 IF job[r][k].state = "sending" THEN [job[r][k] EXCEPT !.state = "lost"]
                                                ELSE job[r][k]]]
    /\ UNCHANGED <<kind, account>>

\* AgentCore reclaims a container that answers Healthy; and a container fails.
Reclaim == ~Busy /\ Gone("reclaimed")
Crash == Gone("crashed")

Step(r) == \/ Invoke(r) \/ Begin(r) \/ Decide(r) \/ Fan(r) \/ Post(r)
           \/ Posted(r) \/ Miss(r) \/ Reviewed(r) \/ Notified(r) \/ Finish(r)
           \/ Raise(r) \/ \E k \in Jobs : Attempt(r, k)

Next == (\E r \in Requests : Step(r)) \/ Reclaim \/ Crash

Spec == Init /\ [][Next]_vars

-----------------------------------------------------------------------------
(* Properties.                                                               *)

\* What a delivery's record may hold, and the decision calls there are.
Job == [state : {"idle", "sending", "ok", "raised", "lost"},
        failed : 0..(MaxRetries + 1), shown : BOOLEAN]
CallIds == [of : Requests, call : 1..MaxDecisions]

TypeOK ==
    /\ kind \in [Requests -> Kinds]
    /\ up \in BOOLEAN /\ tracked \subseteq Requests /\ overlapped \subseteq Requests
    /\ phase \in [Requests -> Live \cup {"waiting", "aborted", "done", "died",
                                         "reclaimed", "crashed"}]
    /\ job \in [Requests -> [Jobs -> Job]]
    /\ decisions \in [Requests -> 0..MaxDecisions]
    /\ usage \subseteq CallIds
    /\ charged \in [Requests -> SUBSET CallIds] /\ prior \in [Requests -> SUBSET CallIds]

Shown(r, k) == job[r][k].shown
Refused(r, k) == job[r][k].state = "raised" /\ job[r][k].failed = Limit(r, k)

\* agents/master/tools.py: an investigation or a review that was started and is
\* over has been heard of - a report, a review or a notice that says why there is
\* none - unless the platform failed every attempt to say it or the container
\* went while it was being said.
SilenceExplained ==
    \A r \in Requests :
        /\ phase[r] = "done" =>
             \/ Shown(r, "main")
             \/ Refused(r, "main") /\ ~Is(r, "pir")
             \/ Is(r, "pir") /\ (Shown(r, "notice") \/ Refused(r, "notice"))
        /\ phase[r] = "died" /\ Is(r, "investigate") =>
             \/ Shown(r, "main") \/ Shown(r, "notice") \/ Refused(r, "notice")
             \/ job[r]["notice"].state \in {"sending", "lost"}

\* _run_postmortem: after a review that was posted, and confirmed, nobody is told
\* that it failed to assemble.
NoticeIsTrue ==
    \A r \in Requests : Is(r, "pir") /\ job[r]["main"].state = "ok" =>
        job[r]["notice"].state = "idle"

\* busy_state: a container is never reclaimed with unfinished work, whatever the
\* order in which its tasks start and end.
ReclaimSparesWork == \A r \in Requests : phase[r] # "reclaimed"

\* reset_usage and drain_usage: a scorecard holds no decision call made before its
\* investigation began; and when no other ran beside it, exactly its own.
ChargedToOwnRun ==
    \A r \in Requests : phase[r] = "done" /\ Is(r, "investigate") =>
        /\ charged[r] \cap prior[r] = {}
        /\ r \notin overlapped => charged[r] = CallsOf(r)
=============================================================================
