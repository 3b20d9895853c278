---------------------------- MODULE Investigation ----------------------------
(***************************************************************************)
(* One investigation, as InvestigationOrchestrator.investigate runs it     *)
(* (agents/master/orchestrator.py) on the master's event loop: route,      *)
(* dispatch, harvest until the initial deadline, post the Incident Report, *)
(* at most one follow-up round, late harvests with one enrichment update   *)
(* per late result, cut off, record.                                       *)
(*                                                                         *)
(* Time is a discrete clock.  Every await of the coroutine is a value of   *)
(* pc with `until', the latest instant at which it resumes; the clock does *)
(* not advance past an await that must have resumed.  The specialist       *)
(* agents answer at any time, or never.                                    *)
(***************************************************************************)
EXTENDS Integers, FiniteSets

CONSTANTS
    Agents,           \* the active specialized agents (agent_endpoints)
    Unconfigured,     \* those that can do no work in this deployment
    InitialDeadline,  \* seconds until the initial report is due
    HardCutoff,       \* seconds until the investigation stops waiting
    RouteTimeout,     \* budget of the routing call
    SynthTimeout,     \* budget of one synthesis call
    PlanTimeout,      \* budget of the follow-up planning call
    MinFollowupBudget,\* no follow-up with this much or less left
    MaxFollowup,      \* FOLLOWUP_MAX_AGENTS
    DeliverTime       \* the longest one deliver_with_retry takes

ASSUME AgentsAssumption ==
    IsFiniteSet(Agents) /\ Agents # {} /\ Unconfigured \subseteq Agents

ASSUME TimesAssumption ==
    /\ InitialDeadline \in Nat /\ HardCutoff \in Nat
    /\ RouteTimeout \in Nat /\ SynthTimeout \in Nat /\ PlanTimeout \in Nat
    /\ MinFollowupBudget \in Nat /\ MaxFollowup \in Nat /\ DeliverTime \in Nat
    /\ InitialDeadline < HardCutoff

VARIABLES
    features,    \* the model calls the environment switched on; never changes
    pc,          \* the await (or the end) the coroutine is at
    now,         \* seconds since investigate() started
    until,       \* the current await resumes no later than this
    task,        \* per agent: the state of its latest fan-out task
    pending,     \* keys of the local `pending' map
    pendingIds,  \* the agents the report shows as still investigating
    results,     \* keys of the `results' map
    failed,      \* those of them whose result is an error
    late,        \* late results whose enrichment update is still to be posted
    dispatched,  \* dispatched_agents
    skipped,     \* the agents the router left out
    followed,    \* the agents of the follow-up round
    report,      \* the initial Incident Report
    updates,     \* per agent: enrichment updates attempted
    inTime,      \* agents whose latest task answered before the hard cutoff
    analysis     \* the local `analysis': "none", "fresh" (made of the present results)
                 \* or "outdated" (of earlier ones)

vars == <<features, pc, now, until, task, pending, pendingIds, results,
          failed, late, dispatched, skipped, followed, report, updates, inTime, analysis>>

\* A task that returned, with a result of any status: _invoke_agent_safe turns a
\* failed invocation into an error result, and nothing below looks at the status.
Answered(a) == task[a] = "answered"

\* The awaits, in program order, and the two ways the coroutine ends.
Awaits == {"route", "harvest", "analyse", "post", "plan", "collect",
           "reanalyse", "update", "finish"}
Ended == pc \in {"done", "raised"}

RouteBudget == IF "routing" \in features THEN RouteTimeout ELSE 0
SynthBudget == IF "synthesis" \in features THEN SynthTimeout ELSE 0

\* What a routing decision that leaves out the agents of skips comes to: an agent it
\* does not mention is dispatched, and leaving out everybody leaves out nobody.
Selected(skips) == IF skips = Agents THEN Agents ELSE Agents \ skips

\* The rosters _route may come back with: without a router, or without an answer
\* from it, every agent.
Routed == {Selected(skips) : skips \in IF "routing" \in features THEN SUBSET Agents
                                                                 ELSE {{}}}

\* The follow-up cap is tested after a dispatch was appended to the plan, so a
\* configured cap of 0 still lets one through.
FollowupCap == IF MaxFollowup = 0 THEN 1 ELSE MaxFollowup

\* Suspend at await p for at most d.
Await(p, d) == pc' = p /\ until' = now + d

\* Fanout.harvest returns when every pending task has settled, or on timeout.
Settled == {a \in pending : Answered(a)}
HarvestReturns == Settled = pending \/ now >= until

-----------------------------------------------------------------------------
(* Faulty variants of the definitions below: plausible bugs, which the       *)
(* properties of this module must be able to catch.                          *)

\* The initial window without the synthesis reserve.
HarvestEndUnreserved == IF now < InitialDeadline THEN InitialDeadline ELSE now
\* A candidate list that forgets to leave out the agents in flight.
CandidatesAll == Agents
\* A failed synthesis that leaves the analysis there was.
SynthesiseKeeping == analysis' \in IF "synthesis" \in features THEN {analysis, "fresh"} ELSE {"none"}
\* A harvest whose settled tasks stay in the pending map, and are harvested again.
FoldKeepsPending ==
    /\ results' = results \cup Settled
    /\ \E errors \in SUBSET Settled : failed' = (failed \ Settled) \cup errors
    /\ pending' = pending
    /\ analysis' = IF Settled # {} /\ analysis = "fresh" THEN "outdated" ELSE analysis
\* Follow-up tasks that are not merged into the pending map.
WithFollowupDropped(F) == pending
\* A report that is told only about the agents that answered.
PendingIdsOfSettled == Settled
\* A late window that restarts the cutoff clock.
LoopHeadRestarted(p) == IF p # {} /\ now < HardCutoff
                        THEN Await("collect", HardCutoff) ELSE Await("finish", 0)
\* A loop that never checks the cutoff.
LoopHeadUnchecked(p) == IF p # {} THEN Await("collect", HardCutoff - now)
                                  ELSE Await("finish", 0)
\* A loop given up while late tasks still have time.
LoopHeadHasty(p) == Await("finish", 0)
-----------------------------------------------------------------------------
\* The instant the initial harvest gives up: the deadline less the synthesis
\* reserve, or at once when routing has already used that up.
HarvestEnd == IF now + SynthBudget < InitialDeadline
              THEN InitialDeadline - SynthBudget
              ELSE now

\* pending_ids: the agents the harvest left in flight.
PendingIds == pending \ Settled

\* results.update(merge_settled(settled)); what is left stays pending.  The answer of
\* a follow-up takes the place of the agent's first one, be it an error.
Fold ==
    /\ results' = results \cup Settled
    /\ \E errors \in SUBSET Settled : failed' = (failed \ Settled) \cup errors
    /\ pending' = pending \ Settled
    /\ analysis' = IF Settled # {} /\ analysis = "fresh" THEN "outdated" ELSE analysis

\* _synthesize_analysis: None without a synthesizer and when the call fails.
Synthesise == analysis' \in IF "synthesis" \in features THEN {"none", "fresh"} ELSE {"none"}

\* The agents a follow-up may name: none that is still in flight.
Candidates == Agents \ pending

\* pending.update(new_tasks)
WithFollowup(F) == pending \cup F

\* The head of the Phase 4 loop with p pending: wait for them to the cutoff, or
\* leave the loop.
LoopHead(p) == IF p # {} /\ now < HardCutoff
               THEN Await("collect", HardCutoff - now)
               ELSE Await("finish", 0)

\* Fan-out: a fresh task for each agent of S.
Launch(S) ==
    /\ task' = [a \in Agents |-> IF a \in S THEN "running" ELSE task[a]]
    /\ inTime' = inTime \ S

\* fanout.cancel, of the tasks in the pending map.
CancelPending ==
    task' = [a \in Agents |-> IF a \in pending /\ task[a] = "running"
                              THEN "cancelled" ELSE task[a]]

-----------------------------------------------------------------------------
Init ==
    /\ features \in SUBSET {"routing", "synthesis", "followup"}
    /\ pc = "route" /\ now = 0 /\ until = RouteBudget
    /\ task = [a \in Agents |-> "none"]
    /\ pending = {} /\ pendingIds = {} /\ results = {} /\ failed = {} /\ late = {}
    /\ dispatched = {} /\ skipped = {} /\ followed = {}
    /\ report = "none"
    /\ updates = [a \in Agents |-> 0]
    /\ inTime = {}
    /\ analysis = "none"

\* Phases 0.5 to 1: the router answered, or fell open to every agent, and the
\* selected agents are dispatched.  (The "Investigation Started" notice runs as
\* a task of its own that nothing here waits for or reads.)
Dispatch ==
    /\ pc = "route"
    /\ \E S \in Routed :
         /\ dispatched' = S /\ pending' = S /\ skipped' = Agents \ S
         /\ Launch(S)
    /\ pc' = "harvest" /\ until' = HarvestEnd
    /\ UNCHANGED <<features, now, pendingIds, results, failed, late, followed,
                   report, updates, analysis>>

\* Phase 2.  pending_ids is taken here, once, and never refreshed.
Harvest ==
    /\ pc = "harvest" /\ HarvestReturns
    /\ Fold
    /\ pendingIds' = PendingIds
    /\ Await("analyse", SynthBudget)
    /\ UNCHANGED <<features, now, task, late, dispatched, skipped, followed,
                   report, updates, inTime>>

\* Phase 3: the synthesis call is over, the report is built, its delivery starts.
Analyse ==
    /\ pc = "analyse"
    /\ Await("post", DeliverTime)
    /\ Synthesise
    /\ UNCHANGED <<features, now, task, pending, pendingIds, results, failed,
                   late, dispatched, skipped, followed, report, updates, inTime>>

FollowupWorthwhile ==
    /\ "followup" \in features
    /\ HardCutoff - now > MinFollowupBudget
    /\ Candidates # {}

\* The delivery ended, in a post or with its retries exhausted (swallowed).
PostReport ==
    /\ pc = "post"
    /\ report' \in {"posted", "failed"}
    /\ IF FollowupWorthwhile
       THEN Await("plan", IF PlanTimeout < HardCutoff - now THEN PlanTimeout
                                                            ELSE HardCutoff - now)
       ELSE LoopHead(pending)
    /\ UNCHANGED <<features, now, task, pending, pendingIds, results, failed,
                   late, dispatched, skipped, followed, updates, inTime, analysis>>

\* Stage 2: the plan names up to FollowupCap agents that are not in flight; none
\* when the planner declined, failed or timed out.
Followup ==
    /\ pc = "plan"
    /\ \E F \in SUBSET Candidates :
         /\ Cardinality(F) <= FollowupCap
         /\ followed' = F /\ dispatched' = dispatched \cup F
         /\ Launch(F)
         /\ pending' = WithFollowup(F)
         /\ LoopHead(WithFollowup(F))
    /\ UNCHANGED <<features, now, pendingIds, results, failed, late, skipped,
                   report, updates, analysis>>

\* Phase 4: one harvest of late results.
Collect ==
    /\ pc = "collect" /\ HarvestReturns
    /\ Fold
    /\ late' = Settled
    /\ IF Settled # {} THEN Await("reanalyse", SynthBudget) ELSE LoopHead(pending)
    /\ UNCHANGED <<features, now, task, pendingIds, dispatched, skipped, followed,
                   report, updates, inTime>>

\* The re-synthesis for the next late result is over.
Reanalyse ==
    /\ pc = "reanalyse"
    /\ Await("update", DeliverTime)
    /\ Synthesise
    /\ UNCHANGED <<features, now, task, pending, pendingIds, results, failed,
                   late, dispatched, skipped, followed, report, updates, inTime>>

\* The delivery of that late result's enrichment update ended, either way.
PostUpdate ==
    /\ pc = "update"
    /\ \E a \in late :
         /\ updates' = [updates EXCEPT ![a] = @ + 1]
         /\ late' = late \ {a}
    /\ IF late' # {} THEN Await("reanalyse", SynthBudget) ELSE LoopHead(pending)
    /\ UNCHANGED <<features, now, task, pending, pendingIds, results, failed,
                   dispatched, skipped, followed, report, inTime, analysis>>

\* Phases 5 to 8: cancel what is in flight, derive the final facts, hand the
\* record to the finalizer.
Finish ==
    /\ pc = "finish"
    /\ CancelPending
    /\ pc' = "done"
    /\ UNCHANGED <<features, now, until, pending, pendingIds, results, failed,
                   late, dispatched, skipped, followed, report, updates, inTime, analysis>>

\* An exception no handler in investigate() catches: before the fan-out, while
\* the report is derived and built, or (after the cancellation) while the
\* experiment result or the final facts are.
Abort ==
    /\ pc \in {"route", "analyse", "finish"}
    /\ IF pc = "finish" THEN CancelPending ELSE UNCHANGED task
    /\ pc' = "raised"
    /\ UNCHANGED <<features, now, until, pending, pendingIds, results, failed,
                   late, dispatched, skipped, followed, report, updates, inTime, analysis>>

\* A specialist's reply, or the error result its failed invocation became.
AgentAnswers(a) ==
    /\ task[a] = "running"
    /\ task' = [task EXCEPT ![a] = "answered"]
    /\ inTime' = IF now < HardCutoff THEN inTime \cup {a} ELSE inTime
    /\ UNCHANGED <<features, pc, now, until, pending, pendingIds, results, failed,
                   late, dispatched, skipped, followed, report, updates, analysis>>

Tick ==
    /\ pc \in Awaits /\ now < until
    /\ pc \in {"harvest", "collect"} => ~HarvestReturns
    /\ now' = now + 1
    /\ UNCHANGED <<features, pc, until, task, pending, pendingIds, results,
                   failed, late, dispatched, skipped, followed, report, updates,
                   inTime, analysis>>

\* The coroutine's own steps.
Master == \/ Dispatch \/ Harvest \/ Analyse \/ PostReport \/ Followup
          \/ Collect \/ Reanalyse \/ PostUpdate \/ Finish \/ Abort

Next == \/ Master
        \/ Tick
        \/ \E a \in Agents : AgentAnswers(a)

Spec == Init /\ [][Next]_vars

\* While the coroutine can be resumed or the clock can run, one of them does; nothing
\* makes an agent answer.
Fairness == WF_vars(Master \/ Tick)
FairSpec == Spec /\ Fairness

-----------------------------------------------------------------------------
(* What is recorded and shown.                                               *)

\* The results of status "unhealthy": what the tool of an agent that lacks a store or
\* a model in this deployment says whenever it is run.
Unhealthy == (results \ failed) \cap Unconfigured

\* finalizer._rollup: the result's own status; a dispatched agent without a result is
\* a timeout.
Rollup(a) == CASE a \notin results -> "timeout"
               [] a \in failed -> "error"
               [] a \in Unhealthy -> "unhealthy"
               [] OTHER -> "success"

\* The evidence row derive() gives agent a from the present results and the
\* pending and skipped sets it is passed: pending_ids of the initial report.
Evidence(a) ==
    CASE a \notin results /\ a \in skipped -> "skipped"
      [] a \notin results \cup skipped /\ a \in pendingIds -> "pending"
      [] a \in failed -> "error"
      [] a \in Unhealthy -> "disabled"
      [] a \in results \ (failed \cup Unhealthy) -> "ok"
      [] OTHER -> "absent"

\* _build_root_cause_fallback: the agents that show a symptom or are ruled out, and
\* those left to be checked by hand, the skipped ones among them whatever came of
\* them.  Who never answered is in neither.
Observed == results \ (failed \cup Unhealthy)
NextChecks == failed \cup Unhealthy \cup skipped

-----------------------------------------------------------------------------
(* Properties.                                                               *)

\* Every variable holds a value of its kind, and the clock never passes the
\* instant at which the current await must have resumed.
TypeOK ==
    /\ features \subseteq {"routing", "synthesis", "followup"}
    /\ pc \in Awaits \cup {"done", "raised"}
    /\ now \in Nat /\ until \in Nat /\ now <= until
    /\ task \in [Agents -> {"none", "running", "answered", "cancelled"}]
    /\ results \subseteq Agents /\ failed \subseteq results
    /\ pending \subseteq Agents /\ pendingIds \subseteq Agents /\ late \subseteq Agents
    /\ dispatched \subseteq Agents /\ skipped \subseteq Agents
    /\ followed \subseteq Agents /\ inTime \subseteq Agents
    /\ report \in {"none", "posted", "failed"}
    /\ updates \in [Agents -> Nat]
    /\ analysis \in {"none", "fresh", "outdated"}

\* No dispatched agent falls between the maps: it is still pending or its result
\* is folded, through every harvest, follow-up and late round.
NobodyLost ==
    dispatched \subseteq pending \cup results

\* The report's promise "results will arrive in a follow-up update", and the one
\* a follow-up dispatch makes, is worth exactly one enrichment update: posted,
\* about to be posted, or still awaited (and cut off if that is how it ends).
\* No agent is updated twice and none that was not promised.
Owed(a) == (IF a \in pending THEN 1 ELSE 0) + (IF a \in late THEN 1 ELSE 0)
Promised(a) == (IF a \in pendingIds THEN 1 ELSE 0) + (IF a \in followed THEN 1 ELSE 0)
PromisesConserved ==
    pc \notin {"route", "harvest"} =>
        \A a \in Agents : updates[a] + Owed(a) = Promised(a)

\* "An agent absent from results never returned before the hard cutoff"
\* (finalizer._rollup): an answer given in time is in the record.
InTimeAnswersKept ==
    pc = "done" => inTime \subseteq results /\ inTime \cap pending = {}

\* Once the record is written no fan-out task of the investigation is running.
NothingInFlight ==
    pc = "done" => \A a \in Agents : task[a] # "running"

\* The record's views of an agent agree.  Each status of the manifest is one kind of
\* evidence row, although the evidence is derived from the pending set of the initial
\* report: what the manifest counts as an error is an agent the page shows as failed,
\* disabled or still pending, and never one it shows as a source of evidence.  A
\* dispatched agent has another row only when the router had skipped it, the
\* follow-up asked it after all and it stayed silent: that one is shown as skipped.
\* And an agent is both a source of evidence and left to be checked by hand only if
\* the router had skipped it and the follow-up got its answer.
RowOf == [timeout |-> "pending", error |-> "error",
          unhealthy |-> "disabled", success |-> "ok"]
RecordViewsAgree ==
    pc = "done" => \A a \in dispatched :
        /\ Evidence(a) = IF a \in (skipped \cap followed) \ results THEN "skipped"
                         ELSE RowOf[Rollup(a)]
        /\ a \in Observed \cap NextChecks => a \in skipped \cap followed

\* "Re-synthesize over everything gathered so far" (Phase 4): the analysis a report,
\* an update or the record carries is made of the results it is shown with, however
\* many of them came in late, failed, or took the place of an earlier one; a failed
\* synthesis leaves none.
AnalysisIsCurrent == pc \in {"post", "update", "done"} => analysis # "outdated"

\* The investigation outlives the hard cutoff only by the updates it still posts:
\* each costs at most one synthesis and one delivery.
Overrun == Cardinality({a \in Agents : updates[a] > 0}) * (SynthBudget + DeliverTime)
BoundedOverrun == pc = "done" => now <= HardCutoff + Overrun

\* With routing and synthesis inside their budgets the first attempt to post the
\* Incident Report starts by the initial deadline, however agents behave.
ReportByDeadline == [][pc # "post" /\ pc' = "post" => now <= InitialDeadline]_vars

\* "up to t=5min: Bot posts enrichment updates as late agent results arrive"
\* (docs/testing.md): in the late window time does not pass over an answer that is
\* there.
LateAnswersPostedAsTheyArrive ==
    [][pc = "collect" /\ now' > now => Settled = {}]_vars

\* The thread of the incident sees what IncidentThread promises: one report, then
\* one update per agent it was told to wait for.
Thread == INSTANCE IncidentThread WITH
    Cap    <- FollowupCap,
    stage  <- IF Ended THEN "closed"
              ELSE IF report = "none" THEN "investigating" ELSE "reported",
    owed   <- IF report = "none" THEN {} ELSE pending \cup late,
    rounds <- IF followed = {} THEN 0 ELSE 1
ImplementsThread == Thread!Spec

\* What the coroutine has yet to do, at most: two steps for each late result, two
\* more for each agent it waits for, and those ahead of the late window.
Ahead ==
    CASE pc = "route" -> 4 * Cardinality(Agents) + 4 * FollowupCap + 7
      [] pc = "harvest" -> 4 * FollowupCap + 6
      [] pc = "analyse" -> 4 * FollowupCap + 5
      [] pc = "post" -> 4 * FollowupCap + 4
      [] pc = "plan" -> 4 * FollowupCap + 3
      [] pc = "reanalyse" -> 3
      [] pc \in {"collect", "update"} -> 2
      [] pc = "finish" -> 1
      [] OTHER -> 0
StepsLeft == 4 * Cardinality(pending) + 2 * Cardinality(late) + Ahead

\* Every step of the coroutine leaves it with less to do, whatever was answered, and
\* nothing else gives it more: the late window cannot go round without an agent that
\* is struck off, and comes to its end at the cutoff.
StepsRunOut == [][StepsLeft' <= StepsLeft /\ (Master => StepsLeft' < StepsLeft)]_vars

\* However many agents stay silent, the investigation ends.
Terminates == <>Ended
=============================================================================
