# Verification of sre-on-call

TLA+ models of the incident-investigation system in this repository, the TLC
runs that check them and the theorems TLAPS proves about them. Paths below are
relative to the repository root. `PROJECT.json` is the index: components, runs,
theorems, hazards, findings, and the source lines behind every definition.

## The system

A chat platform delivers an alert to a webhook Lambda, which deduplicates it,
gates out chatter and hands it to the master agent through an asynchronous
self-invocation. The master fans out to specialized agents, posts an Incident
Report at about 60 s, one enrichment update for each late answer until 5 min,
and archives a record. Post-incident reports, status snapshots, incident pages
and A/B experiments hang off that record or reuse that fan-out.

| Component | State | Operations | Talks to | What makes it correct |
|---|---|---|---|---|
| Webhook intake (`lambda_adapter/intake.py`, `handler.py`) | none of its own | alert, slash commands | dedup table, classifier, dispatch | every alert is dealt with, once |
| Dedup store (`lambda_adapter/dedup.py`) | an item per message, with a lifetime | conditional put | DynamoDB | one owner per message |
| Master dispatch (`lambda_adapter/master_dispatch.py`) | queued self-invocations | enqueue, replay | Lambda, the master | what was accepted arrives, per variant |
| Classifier (`lambda_adapter/classifier.py`) | none | two tiers, fail-open | Bedrock | a real page is never dropped |
| Chat platforms (`shared/platforms/`) | none | ingest, ack, notice, deliver with retries | Slack, Discord | order and number of messages |
| Master runtime (`agents/master/tools.py`, `shared/busy_state.py`) | the set of background tasks | start, done, failure notice, `/ping`, `/postmortem` | orchestrators, archive | not reclaimed while busy; told when it dies |
| Investigation orchestrator (`agents/master/orchestrator.py`, `shared/fanout.py`) | pending tasks, results, the frozen pending set, the dispatched set | route, fan out, harvest, report, follow up, collect, cut off, record | agents, platform, finalizer | on time, nobody lost, every promise kept, it ends |
| Router, follow-up, synthesis (`routing.py`, `followup.py`, `synthesis.py`, `shared/model_call.py`) | a process-wide usage account | one bounded, fail-open model call each | Bedrock | bounded, valid, billed to the right run |
| Finalizer, facts, formatter (`finalizer.py`, `incident_facts.py`, `report_formatter.py`) | none | derive, roll up, write in order | trace archive, history | the views of one record agree |
| Trace archive (`shared/trace_store.py`, `s3_json_store.py`, `dynamo_table.py`) | objects and an index, by day | manifest, results, charts, page; find, read back | S3, DynamoDB | what is written is found again |
| Incident pages (`page_renderer/`, `shared/page_model.py`, `page_signer.py`) | the archived page model | render, resolve, sign, verify | trace archive | resolved stays resolved |
| Snapshot (`snapshot_orchestrator.py`, `capture_snapshot` of each agent) | pending tasks | one fan-out, one harvest | agents, platform | a block for every agent, in time; no false all-clear |
| Agent executor (`shared/a2a_factory.py`) | a lock, the agent's history | execute, reply | the loop hook, the summarizer | requests do not mix |
| Bounded loop (`shared/bounded_loop.py`) | cycles, open turn, deadline | arm, before model, before tool | executor | a hard ceiling, a fair deadline |
| Log summarizer, digest tier (`shared/log_summarizer.py`, `digest_tier.py`, `tool_result.py`) | usage counters | reset, record, drain; map over chunks | agents' tools | nothing lost, the worst literal, honest cost |
| EKS agent (`agents/eks/tools.py`) | none, over a cluster that changes | gather state, detect recent changes | Kubernetes | a widened or failed look is admitted |
| CloudWatch logs agent (`agents/cloudwatch_logs/tools.py`) | a query in flight | discover, query, poll | CloudWatch | a partial answer says so |
| Scanners, history (`agents/*_scanner`, `agents/incident_history`) | pages of messages | scan, search | chat APIs, DynamoDB | partial failures are reported as such |
| Experiments (`shared/experiment*.py`, `scripts/`) | active experiment, results, verdicts | define, store, judge | DynamoDB | both variants, judged fairly |

What is hard here: the master's coroutine has nine awaits during which agents
answer and time passes; a snapshot of the pending set taken at the first harvest
is used until the record; several Lambdas race for one item, crash between its
write and the hand-over, and are retried by the platform; a container's hook,
counters, history and account are shared by all of its requests; a record is
written step by step, each guarded on its own, under days that may differ, and
read back by people who were not there; the agents read services that change or
fail between two calls. The full list, with lines, is under `hazards`.

## Modules

| Module | Models | Checked by | Proved in |
|---|---|---|---|
| `Investigation` | `orchestrator.py`, `fanout.py` and what they use of routing, follow-up, synthesis, delivery, roll-up and evidence | `Investigation.cfg`, `LateAnswers.cfg` | `InvestigationProofs` |
| `IncidentThread` | the abstract promise to the people in the thread | through `ImplementsThread` | `InvestigationProofs` |
| `Intake`, `MCIntake` | `lambda_adapter/`, Slack's `ingest`, the platform's retries | `Intake.cfg`, `IntakeOverride.cfg` | `IntakeProofs` |
| `MessageCase` | the abstract promise of one case at a time per message | through `ImplementsMessageCase` | `IntakeProofs` |
| `MasterRuntime`, `MCMasterRuntime` | `agents/master/tools.py`, `busy_state.py`, the account of `model_call.py`, retried deliveries | `MasterRuntime.cfg` | `MasterRuntimeProofs` |
| `AgentRuntime` | `a2a_factory.py` (executor), `bounded_loop.py`, the counters of `log_summarizer.py` | `AgentRuntime.cfg`, `PassNeverCut.cfg` | `AgentRuntimeProofs` |
| `PrivateLoop` | the abstract promise of a loop and a bill of one's own | through `ImplementsPrivateLoop` | `AgentRuntimeProofs` |
| `ToolResult` | `digest_tier.py` and the severities of `tool_result.py`, as operators | through the two agents | `LogsAgentProofs` |
| `EksAgent`, `MCEksAgent` | `agents/eks/tools.py`: `gather_eks_state`, `detect_recent_changes` | `EksAgent.cfg`, `EksRollout.cfg` | `EksAgentProofs` |
| `LogsAgent`, `MCLogsAgent` | `agents/cloudwatch_logs/tools.py`, the result footer, what the master reads of a reply | `LogsAgent.cfg` | `LogsAgentProofs` |
| `TraceArchive`, `MCTraceArchive` | the finalizer's writes, `trace_store.py`, the page's renders, `/postmortem` reading back | `TraceArchive.cfg` | `TraceArchiveProofs` |
| `Snapshot` | `/sre-snapshot` from the command to its one message, the agents' probes | `Snapshot.cfg` | `SnapshotProofs` |

`EksAgent` and `LogsAgent` extend `ToolResult`; `Investigation` instantiates
`IncidentThread`, `Intake` `MessageCase` and `AgentRuntime` `PrivateLoop`, each with
its refinement mapping. Each module starts its definitions with *faulty variants*:
plausible bugs in the definitions that follow. None is used by the specification;
putting one in the place of its original must break the property listed with it
in `mutants`.

### Investigation

`pc` is the await at which the coroutine stands and `until` the latest instant it
resumes; the clock `now` stops there, except that a harvest also returns as soon as
everything pending has settled. `pending`, `pendingIds`, `results`, `dispatched`,
`skipped` are the locals of `investigate()`; `failed` are the results that are errors;
`task` is the state of each agent's latest fan-out task; `late` is the part of a late
harvest whose updates are still to be posted; `followed` is the follow-up round;
`analysis` says whether the local of that name is of the present results, of earlier
ones, or absent. `report`, `updates` and `inTime` record what happened, for the
properties. `features` says which of the optional model calls are switched on.

The actions are the stretches between awaits: `Dispatch` (phases 0.5 to 1), `Harvest`
(2), `Analyse` and `PostReport` (3), `Followup` (stage 2), `Collect`, `Reanalyse`,
`PostUpdate` (4), `Finish` (5 to 8), `Abort` for an exception that no handler catches,
and `AgentAnswers` and `Tick` for the environment. `Selected` and `Routed` are what a
routing decision comes to: an agent it does not mention is dispatched, and leaving out
everybody leaves out nobody. A delivery is one step that may fail, with all of its
retries in `DeliverTime`. The started notice runs as a task of its own that nothing
here reads, and is left out. `Rollup`, `Evidence`, `Observed` and `NextChecks` are the
views the record and the report take of an agent; `RecordViewsAgree` relates them.
They do not use the same words: an agent that can do no work in this deployment
(`Unconfigured`; the incident history without its table) answers with the status
`unhealthy`, which the roll-up records as it stands and the evidence files as
`disabled`. `RowOf` is that dictionary.

`IncidentThread` says what a person in the thread may rely on: at most one report;
after it one update for each agent they were told to wait for; at most one
follow-up round, of agents nobody is waiting for. The refinement mapping reads it
off `pending`, `late`, `report` and `followed`.

`StepsLeft` counts what the coroutine has yet to do, from what is pending, what is
late and where it stands; `StepsRunOut` says that each of its steps lowers the count
and that nothing raises it.

### Intake

One delivery `<<event, n>>` is one Lambda invocation, with its own `pc`. Events about
one message share the record `dedup[m]`, whose value is the delivery that wrote it.
Steps end where another invocation or a crash can come in between: the read of the
message, the conditional put, the gate with the experiment lookup, each
self-invocation. The gate is the classifier's two tiers: the patterns decide the plain
texts (`Heuristic`), a model that may be absent, fail or answer decides the others
(`Opinions`), and what stays undecided is investigated (`Classified`). The text of a
reply or a reaction contains that of the message it is about (`Contains`), so an
alert's reply is an alert: what is forced afterwards was no alert by itself. Faults
are counted. The platform redelivers what was not answered in time or not with a 200.
The record expires only when the invocations of its time are over: its lifetime is a
day, theirs seconds. Slash commands take the path of `Snapshot`.

`MessageCase` has no deliveries, only cases: opened for a message that has none,
gated or accepted once, handed over once to each variant, closed for good. A case
is the delivery that wrote the record, and it is closed when the record expires.

### MasterRuntime

One container. A request is one call of one of three tools, which returns at once
and leaves the work to a background task: `phase` is that task's, `tracked` is
`_TRACKED_TASKS`. `job` holds the two things a request may say, its result and the
notice of a failure, each with its failed attempts and whether somebody saw it: an
attempt may be shown although its answer was lost, and is then repeated. `usage` is
the process-wide account of the decision calls, zeroed by every investigation
that begins and drained into its scorecard. The platform reclaims the container
when `/ping` says idle (`Reclaim`), and it may crash whenever it likes (`Crash`);
`prior` and `overlapped` are history. Inside, an investigation is what
`Investigation` describes; here it is reset, decisions, delivery, account.

### AgentRuntime

Requests wait for the executor's lock. `Start` is the head of `execute()`: zero
the counters, read the budget, arm the hook. `ModelTurn` and `ToolCall` are the
hook's two callbacks, taken by a model that is free to do anything, at any time.
`Reply` drains the counters; `Raise` does not. `budget`, `armed`, `turns`, `calls`,
`spent` and `reported` record what each request asked for and got; the
properties are stated about those, never about the hook's own counters.

`PrivateLoop` has no lock, hook or counters: requests run side by side, and a call is
refused, or not, by what its own request did before and when it started. The mapping
keeps the requests' records and drops `cycles`, `deadline`, the open turn and the
counters, so a value one request left behind can decide nothing for the next.

### ToolResult

A payload is the sequence of its items' severities, an item its index, a chunk a
run of `size` items. `ExecuteDigest` says which items stay literal, which chunks are
digested and which of the digested items are kept beside their digest
(`TopBySeverity`). The EKS agent uses it with one chunk per pod, the logs agent
with chunks of rows.

### EksAgent

One tool call, from its gates (`Begin`: switched off, asked for nothing, a
configuration that does not load) to a result or to an exception that leaves the tool
(`Raise`: `gather_eks_state` handles the API's own errors only), over a cluster that
its users and controllers go on changing: `ChangeSpec`, `Reconcile`, `Prune`,
`Replace`, `Delete` come between any two API calls. Names are sequences of parts, so
that a name may be a dash-prefix of another. `gather_eks_state` looks its selectors up
one by one (`LookUp`, `Lookups`: labels, a Deployment, then the fall-backs to the
owning workload, the exact pod and the namespace), then gathers the pods and their
nodes; `detect_recent_changes` goes through the workloads (`ReadDeployment`,
`ReadHistory`, ...). Any call may fail up to `MaxFaults` times, with the error the
code makes of it. What is read of a pod is its events and the tail of its log, one
item whatever its lines say (`PayloadOf`); when they are digested, one of them all
stays literal (`ExemplarOf`, `ShownOf`).

### LogsAgent

The requests of one container share the conversation `messages`; a query is validated,
started and polled while the service goes on with it or does not (`ServiceStep`), and
is read once more after the deadline. The rows go through `ToolResult`. A query's call
leaves a footer in the conversation, or, when an exception that is no `ClientError`
ends it wherever it stands (`Raise`), none; a failed or impossible query has a footer
with its error. `Reply` sends the newest footer of the conversation as a data part and
in the text, where the model may have quoted an older one; `Read` and `ResultFrom` are
what the master makes of it.

### TraceArchive

The runs of a thread's investigations write their record in the finalizer's order
(`Steps`), each step guarded on its own (`Write`: stored, or failed and passed over);
manifest, row and results under the day the run began, charts and page under the day's
own. The two runs of an experiment, and of an alert dispatched twice, share one
investigation and hence its keys. A page model is notified to the renderer, which
reads it with its charts, leaving out what it cannot read of them (`ChartsRead`), and
writes the page later. The row is in the table at once, in the index by thread some
time later (`arriving`, `Arrive`), and is gone `Retention` days after it was written
(`Expire`, `aged`), long before the objects. A `/postmortem` finds the last row of
that index, reads the record under the row's day, posts, and resolves the page;
commands of a thread share a container, so only their awaits interleave.

### Snapshot

One command on either platform: acknowledged (Discord's call may raise), queued,
run, captured. Each specialist's `capture_snapshot` is its sequence of probes
(`Probes`), folded one by one into a report (`Fold`), which may end early (`Stops`);
the agents go on concurrently with the master's one wait, which the 30 seconds end.

## Runs

| Run | Expected | Shows |
|---|---|---|
| `investigation` | pass | safety, deadlines, a current analysis, steps that run out, termination and the refinement, for 3 agents and every feature combination |
| `late_answers` | violation | a late answer waits for all the others in flight (finding 1) |
| `intake` | pass | one case of a message at a time, one decision, whole experiments, no silent loss |
| `intake_override` | violation | a gated message cannot be forced afterwards (finding 2) |
| `agent_runtime` | pass | ceiling, deadline gate and billing of requests that share a hook; each sees a private loop |
| `pass_never_cut` | violation | a pass under way can be refused further tools (finding 3) |
| `master_runtime` | pass | silence is explained, notices are true, busy work is spared, decisions are charged to their run |
| `eks_agent` | pass | a widened scope is admitted, the worst event and the log tail survive, nothing is passed over in silence |
| `eks_rollout` | violation | the rollout reported of a Deployment can be another's (finding 4) |
| `logs_agent` | pass | an unqualified answer is complete, rows are covered, each request has its own result, requests end |
| `trace_archive` | pass | the record is found while its row lasts, the review is of the last investigation, its page ends resolved, charts come first |
| `snapshot` | pass | no anomaly is lost, everybody has a block, the snapshot arrives or a named step failed |

Deadlock checking is off: an investigation ends, deliveries are used up, requests
and calls are all served; none of the systems runs for ever.

**Bounds.** *Investigation*: 3 agents and a follow-up of one, so that the cap bites,
give a follow-up next to two in flight, and late rows of one, two and three answers.
The times are scaled (deadline 2, cutoff 5, each call 1): routing and synthesis
together fit the initial window, late answers, the plan and two late rounds fit before
the cutoff, and an update can run past it. One of the three agents is unconfigured, so
that each status occurs. The clock needs no bound of its own. *Intake*: two events
about one message with two deliveries each give every race on one record: redelivery
against redelivery, event against event, both against expiry; messages do not
interact. One fault: each kind is met at every point. The record expires once, for two
cases of the message in a row. *AgentRuntime*: a cap of 2, three turns, budgets
absent, 0 and 3 with a reserve of 1 and a clock to 3 give passes before, at and past
both limits; the second request inherits whatever the first leaves behind, replied or
raised. `MaxTurns`, `MaxUsage` and `MaxTime` bound only the environment.
*MasterRuntime*: two requests of any kinds meet in every order (they are alike, hence
the symmetry); 3 retries are the code's, 2 decisions let an account be half written.
*EksAgent*: two Deployments of which one name is a dash-prefix of the other and a
DaemonSet, lists of selectors that take every look-up, and an empty one; three changes
of the cluster roll out, prune and delete, one fault hits every call. *LogsAgent*: two
requests of two calls: one may query twice, or inherit a conversation; five rows in
chunks of two, the last one short and the worst in the middle, above and below the
floor of 3 and the chart's cap of 4; two polls before the deadline. *TraceArchive*:
two runs, of one investigation or two, one midnight, one command, one fault: a command
meets every stage of both runs on either day. Two faults would excuse every property.
`Retention` is one day for the code's 90, so that a row of the first day ages out on
the second; it does so only when nothing is under way, which 90 days guarantee. The
objects' 365 days lie beyond the last day. *Snapshot*: any two of the six specialists,
both platforms, one retry; agents do not interact but through the wait.

**Fairness.** `Investigation`: weak fairness of the coroutine and the clock taken
together (the event loop resumes a ready task, and time runs up to its timeout); none
for the agents, so `Terminates` holds although they stay silent. `Intake`: invocations
run on, the platform retries, and queued tasks are run or lost; none for the first
delivery of an event nor for faults or expiry. `LogsAgent`: the agent's loop; none for
the query service nor for exceptions, so `RequestsEnd` holds although a query never
finishes. `Snapshot`: the Lambda's and the master's steps and the cutoff timer; none
for a specialist. The other modules have safety properties only: nothing obliges a
model to stop calling tools that are vetoed, nor a person to ask for a review.

## Proofs

All proofs hold for every value of the constants that meets the named assumptions
of the module, with any number of agents, events, deliveries, requests, runs,
workloads and rows.

* `InvestigationProofs`. `TypeCorrect`. The structural invariant `Structure` says what
  the maps hold at each await: nothing is folded or promised before the initial
  harvest, the pending map is the reported one until the follow-up, late results
  are folded ones, a running task is in the pending map, and the roster is split
  between router and report (`Roster`).
  From it follow `PromisesAreConserved`, `NobodyIsLost`, `NothingLeftInFlight`,
  `RecordIsConsistent` and, step by step, `ThreadRefinement`. Three theorems
  need the times to fit, as the defaults do: `ReportIsOnTime` assumes that
  routing and synthesis fit the initial window, `NoAnswerIsDropped` and
  `OverrunIsBounded` that a report and a plan fit between the deadline and the
  cutoff. Without that, the loop may reach its head past the cutoff and give up
  answers that are there. `OverrunIsBounded` adds up: a promise is made once
  (`PromisedOnce`), so an update is an agent's first and pays for itself
  (`OneMoreUpdate`, `LateWindow`). `AnalysisIsOfTheResults` needs to know where an
  outdated analysis may stand: only between a harvest and the synthesis after it
  (`Analysed`). `CoroutineRunsOut` counts: a harvest strikes off the agents it
  folds (`StrikeOff`), and one that folds none has come to the cutoff
  (`UntilCutoff`), where the loop ends.
* `IntakeProofs`. The invariant adds to `WorkingAlone` that whoever decided owns or
  owned the record, and how much each delivery has sent by each point of its
  program; `MessageDecidedOnce` and `ExperimentDispatchedWhole` follow.
  `DeliveriesAreOneCase` is the refinement, step by step: the conditional put opens a
  case that was never open (`Fresh`), each dispatch hands over what is owed
  (`DispatchOwes`), and retries, faults and answers stutter.
* `MasterRuntimeProofs`. `Deliveries` says of each request what its two messages
  have come to at each phase of its task (types, `Honest`, `Staged`); it gives
  `SilenceIsExplained` and `NoticesAreTrue`. `Tracked` (a live task is in the set)
  gives `WorkIsSpared`, and `Books`, which accounts for every call in the shared
  account by who made it and when, gives `ChargesAreOwn`.
* `AgentRuntimeProofs`. The verdicts are not inductive by themselves; `Holds` ties
  the hook to the request that has the lock: its cycles are the number of turns
  with calls, its deadline is that request's, its open turn says whether the
  present turn has made a call. The one step that matters is `ToolCall`, where two
  open cycles mean two different turns. `HookIsPrivate` is the refinement: the cycles
  the hook counts are the passes of the request itself (`OwnPasses`), hence its
  verdict is that of a private loop (`OwnVerdict`).
* `LogsAgentProofs`. `Conversation`: the results stand in the order of their
  requests (`Ordered`) and there is a newest one as soon as there is one (`Latest`,
  `Newest`); a footer of the request's own is never behind another's (`NewestIsOwn`),
  from which `AnswersAreOwn`, exceptions or not. `Answering` says what the answer of a query is at
  each step: blank until it is concluded, then qualified and covered. `DigestCovers`
  shows of `ExecuteDigest`, for every payload, that no item is lost and that the
  first of the worst (which exists because the natural numbers are well founded)
  is literal; `UnqualifiedIsComplete` and `NoRowIsLost` follow.
* `SnapshotProofs`. `Captures`: the report of an agent holds what its probes have met
  so far, each probe in its place (`InOrder`, `InReport`), an answer is that of a
  finished capture (`InAnswer`), and the blocks show it (`Shown`).
* `EksAgentProofs`. `Placed` (where the call is in its lists), `Speaking` (each
  workload passed has a finding or an error, of every look-up in progress) and
  `Scoped` (every pod collected is asked for or admitted). `Literal` says of each pod's
  finding what is verbatim of its events and of its tail; `ShownOfShows` proves it of
  `ExecuteDigest` with a chunk per pod, the least rank being there because the natural
  numbers are well founded: `TheWorstIsLiteral`, `TheTailIsLiteral`.
* `TraceArchiveProofs`. The bucket never loses a key (`Keeps`). `Charted` follows the
  charts from the run that wrote them over the page, its notification and its
  render to what is served: `ChartsComeFirst`. `Recorded` says, while nothing but
  pages has failed, that a run past a step has its object under the day it began,
  that each row, in the index or on its way (`Listed`, `Entries`), is that of such a run
  and missing only once it has aged out, and that a command which looked at a quiet
  thread is reading one of those: `RecordsAreFound`. For `ReviewsAreOfTheLast`:
  `Followed` (what a command knows at each step), `Ranked` (runs are ranked by their
  beginning), `Listed` and `Chosen` (the row it took is of the run begun last), and
  `Paired` and `Halfway` (under one key, manifest and results are of one run whenever
  no run is between the two). For `PagesAreClosed`: `Published` (a recorded
  investigation has a page) and `Settling` (a closed page stays resolved, and either it
  is served, or a notification or a render that will serve it is on its way).

Every safety invariant, action property and refinement that a passing run checks is
stated by one of these theorems. The type invariants of `Intake` and
`AgentRuntime`, `WorkingAlone` and `RefusedForOwnReasons` are proved and have no run of
their own: the first two are parts of the inductive invariants, the others say of one
step what `ImplementsMessageCase` and `ImplementsPrivateLoop` say of every step.

**Only model-checked:** what is out of the prover's reach, liveness under fairness
(`AlertsAreHeard`, `Terminates`, `RequestsEnd`, `SnapshotArrives`). Of
`Terminates`, `CoroutineRunsOut` proves the half that is safety: the coroutine cannot
go on for ever; that it does not stop short rests on fairness. And the four
violations, which are single counterexamples.

## Findings

1. Late answers are not posted as they arrive. `Fanout.harvest` waits for *all*
   pending agents, so in Phase 4 one silent agent holds back the others' updates
   until the cutoff (`docs/testing.md:134` says otherwise).
2. `investigate` cannot override the gate for a message that was gated: its
   deduplication record stays, and a reply is recorded under its parent
   (`GLOSSARY.md:35`, and the notice the gate posts).
3. The deadline gate can veto later tool calls of a pass that is under way
   (`shared/bounded_loop.py:13-14` says never). The hook decides per call; how far
   apart in time a turn's calls are depends on the tool executor.
4. The rollout reported of a Deployment can be another's: its ReplicaSets are chosen
   by a prefix of the name (`agents/eks/tools.py:824`), and are all of the
   namespace's when none matches, where the docstring (`739-742`) promises a "no
   recent rollout" finding.

Met on the way, and not claimed:

* Updates may follow the cutoff by one synthesis and one delivery each
  (`BoundedOverrun` says by how much). A follow-up cap of 0 lets one agent through.
* The terminating event (`agents/master/finalizer.py:161`) lists agents as pending
  that answered later; an agent the router skipped and the follow-up asked appears
  both among what was observed and among what is left to check. A follow-up
  dispatch carries no deadline.
* The started notice (`orchestrator.py:376`) can land after the report when its
  retries take long; the failure notice's own task (`agents/master/tools.py:91`) is
  not tracked, so a container may go while it is sent.
* The history search gives no id to exclude (`agents/incident_history/tools.py:104`),
  though its docstring says an alert never matches itself.
* The time of a rollback is that of the old ReplicaSet (`agents/eks/tools.py:851`).
* The counts of a logs snapshot are silently absent when its query does not end, and
  that poll is as long as the master's wait; a scan that fails part-way returns
  what it has (`shared/dynamo_table.py:91`). `NoFalseAllClear` names both.
* Of a digested pod one item stays literal, and an event outranks the log tail: the
  "exit 137" line, which "must survive the digest byte-verbatim"
  (`agents/eks/tools.py:543-546`), does so only in a pod without events
  (the test, `agents/eks/tests/test_tools.py:1445`, has none). `TailSurvives` names it.
* A logs query that ends in an exception other than `ClientError`
  (`agents/cloudwatch_logs/tools.py:210`, `528`) leaves no result, and the reply may then
  carry that of an earlier request of the container. `OwnAnswer` names it.
* `gather_eks_state` loads its configuration outside of any handler
  (`agents/eks/tools.py:596`), unlike `detect_recent_changes`.
* An index row lives 90 days and its objects 365, so that a review may be refused of a
  record that is still there; the notice says that it "may have aged out"
  (`agents/master/tools.py:307-312`).
* A malformed data part yields no payload and the reply is read as text.

## Plan

Done: the modules above. Left, in this order:

1. Proofs: the safety half of `RequestsEnd`, as `StepsRunOut` is of `Terminates`.
2. Compositions: `Intake` with `MasterRuntime` (an alert is investigated at most once
   per variant, or why not); `Investigation` with `AgentRuntime` (whose clock a
   deadline is on: a request that queued for the lock counts from later).
3. `ChannelScan`: the scanners' pages and thresholds, which the snapshot has only as
   probes.
4. `Experiments`: results and verdicts of the two variants.

## Not modelled

Rendering and wording (`report_renderer.py`, `page_renderer/render.py`), signatures, parsing
of platform payloads, prompts and the contents of findings, severity and timelines of
the facts: they compute a text from data and keep no state. The similarity search
of the incident history ranks vectors. The channel scan filters pages in one loop.
The experiment judge runs offline over stored results. Trace events are written and
read by nobody here. Terraform beyond the limits named above, secrets, and the
development scripts have no protocol.
