------------------------------ MODULE Snapshot ------------------------------
(***************************************************************************)
(* /sre-snapshot: the slash command's way through the intake               *)
(* (lambda_adapter/intake.py, master_dispatch.py), the master's capture    *)
(* (agents/master/snapshot_orchestrator.py) and the capture_snapshot tool  *)
(* of each specialist, a sequence of probes folded into one report. One    *)
(* command; the agents probe and answer concurrently with the master's     *)
(* only wait.                                                              *)
(***************************************************************************)
EXTENDS Integers, Sequences, FiniteSets

CONSTANTS
    Platforms,   \* chat platforms commands come from, of "slack" and "discord"
    MaxActive,   \* bound on the active specialists
    MaxRetries   \* deliver_with_retry: max_retries

ASSUME SnapshotAssumption ==
    /\ Platforms \subseteq {"slack", "discord"} /\ Platforms # {}
    /\ MaxActive \in Nat /\ MaxRetries \in Nat

\* CATALOGUE, without the master.
Specialists == {"slack_scanner", "discord_scanner", "cloudwatch_logs", "eks",
                "prometheus", "incident_history"}

\* What the capture_snapshot of each specialist asks, in order.
EksProbes == <<"config", "version", "nodes", "pods", "events">>
LogsProbes == <<"clients", "groups", "volumes", "errors">>
SlackProbes == <<"token", "auth", "channels">>
DiscordProbes == <<"token", "auth", "guilds">>
HistoryProbes == <<"store", "count">>
\* Prometheus has no such tool: its tools are those of its MCP server.
Probes == [eks |-> EksProbes, cloudwatch_logs |-> LogsProbes,
           slack_scanner |-> SlackProbes, discord_scanner |-> DiscordProbes,
           incident_history |-> HistoryProbes, prometheus |-> <<>>]

\* What a probe can meet: what it looks for, nothing to look at, a query that ends
\* without its results, or an error; otherwise all is well.
Alarms == {"nodes", "pods", "events", "errors", "auth"}
Voids == {"groups", "volumes", "store"}
Outcomes(p) ==
    {"clear"} \cup (IF p = "store" THEN {} ELSE {"failed"})
      \cup (IF p \in Alarms THEN {"alarm"} ELSE {})
      \cup (IF p \in Voids THEN {"nothing"} ELSE {})
      \cup (IF p = "errors" THEN {"unfinished"} ELSE {})

VARIABLES
    active,    \* config.yaml: active specialists
    disabled,  \* and those deployed but disabled
    phase,     \* of the command
    lost,      \* why it came to nothing, or "no"
    tries,     \* deliveries that have failed
    probed,    \* of each agent: probes made, as <<probe, outcome>>
    report,    \* [alarms, marks]: what the report calls anomalies and marks failed
    answer,    \* "none", "report", "footerless" or "raised"
    cutoff,    \* the 30 seconds are over
    blocks     \* of the agents, in what is posted

agents == <<probed, report, answer>>
setting == <<active, disabled>>
vars == <<setting, phase, lost, tries, agents, cutoff, blocks>>

Blank == [alarms |-> {}, marks |-> {}]

-----------------------------------------------------------------------------
(* Faulty variants of the definitions below.                                 *)

\* A capture that stops early makes a report of its last probe only.
FoldLast(r, p, o) ==
    [alarms |-> (IF o = "failed" /\ p = "pods" THEN {} ELSE r.alarms)
                  \cup (IF o = "alarm" \/ (o = "failed" /\ p \in {"config", "clients",
                           "groups", "volumes", "auth"}) THEN {p} ELSE {}),
     marks |-> r.marks \cup IF o = "failed" /\ p \notin {"token", "count"} THEN {p} ELSE {}]
\* An agent whose call raised is passed over.
AccountedSettled == {a \in active : answer[a] # "raised"}
\* Every agent is waited for.
DueWhenAll == \A a \in active : answer[a] # "none"
-----------------------------------------------------------------------------

Init ==
    /\ active \in {A \in SUBSET Specialists : Cardinality(A) <= MaxActive}
    /\ disabled \in {{}, Specialists \ active}
    /\ phase = "typed" /\ lost = "no" /\ tries = 0
    /\ probed = [a \in active |-> <<>>] /\ report = [a \in active |-> Blank]
    /\ answer = [a \in active |-> "none"]
    /\ cutoff = FALSE /\ blocks = <<>>

Lose(why) == phase' = "over" /\ lost' = why

-----------------------------------------------------------------------------
(* Intake.                                                                   *)

\* platform.ack: Slack's swallows every error; Discord's raises, and the command
\* is answered 502.
Ack ==
    /\ phase = "typed"
    /\ \/ phase' = "acked" /\ UNCHANGED lost
       \/ "discord" \in Platforms /\ Lose("ack")
    /\ UNCHANGED <<setting, tries, agents, cutoff, blocks>>

\* dispatch.status: the task goes to an asynchronous invocation of the Lambda.
Status ==
    /\ phase = "acked"
    /\ \/ phase' = "queued" /\ UNCHANGED lost
       \/ Lose("dispatch")
    /\ UNCHANGED <<setting, tries, agents, cutoff, blocks>>

\* run_dispatched_task, in an asynchronous invocation that is not repeated.
RunTask ==
    /\ phase = "queued"
    /\ \/ phase' = "invoked" /\ UNCHANGED lost
       \/ Lose("dispatch")
    /\ UNCHANGED <<setting, tries, agents, cutoff, blocks>>

\* The master's model hands the payload to capture_status_snapshot, or does not.
Capture ==
    /\ phase = "invoked"
    /\ \/ phase' = "collecting" /\ UNCHANGED lost
       \/ Lose("turn")
    /\ UNCHANGED <<setting, tries, agents, cutoff, blocks>>

-----------------------------------------------------------------------------
(* The specialists.                                                          *)

\* Errors that make a report an anomaly: without the answer there is no report to
\* speak of. An error of the other probes is a line of its section; that of the scan
\* behind the history's count is swallowed and counts nothing.
Primary == {"config", "clients", "groups", "volumes", "auth"}

\* The report with one more probe.
Fold(r, p, o) ==
    [alarms |-> r.alarms \cup
        IF o = "alarm" \/ (o = "failed" /\ p \in Primary) THEN {p} ELSE {},
     marks |-> r.marks \cup
        IF o = "failed" /\ p \notin {"token", "count"} THEN {p} ELSE {}]

\* The capture returns: there is nothing to look at, or nothing to look with.
Stops(p, o) ==
    \/ o = "nothing"
    \/ o = "failed" /\ p \in {"token", "config", "clients", "groups", "volumes", "pods"}

Finished(a) ==
    LET made == probed[a] IN
    /\ made # <<>>
    /\ \/ Len(made) = Len(Probes[a])
       \/ Stops(made[Len(made)][1], made[Len(made)][2])

Open(a) == phase = "collecting" /\ answer[a] = "none"

Probe(a) ==
    /\ Open(a) /\ ~Finished(a) /\ Probes[a] # <<>>
    /\ LET p == Probes[a][Len(probed[a]) + 1] IN
       \E o \in Outcomes(p) :
         /\ probed' = [probed EXCEPT ![a] = Append(@, <<p, o>>)]
         /\ report' = [report EXCEPT ![a] = Fold(@, p, o)]
    /\ UNCHANGED <<setting, phase, lost, tries, answer, cutoff, blocks>>

\* The agent's reply, with the footer of its report unless the tool raised.
Reply(a) ==
    /\ Open(a) /\ Finished(a)
    /\ answer' = [answer EXCEPT ![a] =
          IF probed[a] = <<<<"token", "failed">>>> THEN "footerless" ELSE "report"]
    /\ UNCHANGED <<setting, phase, lost, tries, probed, report, cutoff, blocks>>

\* Its model answers without a result of the tool, or the call fails.
Fails(a) ==
    /\ Open(a)
    /\ \E how \in {"footerless", "raised"} : answer' = [answer EXCEPT ![a] = how]
    /\ UNCHANGED <<setting, phase, lost, tries, probed, report, cutoff, blocks>>

-----------------------------------------------------------------------------
(* The master.                                                               *)

\* HARD_CUTOFF_SECONDS
Cutoff ==
    /\ phase = "collecting" /\ ~cutoff /\ cutoff' = TRUE
    /\ UNCHANGED <<setting, phase, lost, tries, agents, blocks>>

\* harvest: everybody has answered, or the cutoff is reached.
Due == cutoff \/ \A a \in active : answer[a] # "none"

\* Pending agents and settled ones, whatever they settled to.
Accounted == active

\* _block_from_report, _error_block and _disabled_block
BlockOf(a) ==
    IF a \in disabled THEN [status |-> "disabled", shows |-> Blank]
    ELSE IF answer[a] # "report" THEN [status |-> "error", shows |-> Blank]
    ELSE [status |-> IF report[a].alarms # {} THEN "anomaly" ELSE "ok",
          shows |-> report[a]]

Harvest ==
    /\ phase = "collecting" /\ Due
    /\ blocks' = [a \in Accounted \cup disabled |-> BlockOf(a)]
    /\ phase' = "composed"
    /\ UNCHANGED <<setting, lost, tries, agents, cutoff>>

\* _build_summary_line: responded of attempted, the master among them.
Responded == 1 + Cardinality({a \in DOMAIN blocks : blocks[a].status \in {"ok", "anomaly"}})
Attempted == Responded + Cardinality({a \in DOMAIN blocks : blocks[a].status = "error"})

\* deliver_with_retry; its last error is logged and the snapshot is lost.
Deliver ==
    /\ phase = "composed"
    /\ \/ phase' = "posted" /\ UNCHANGED <<lost, tries>>
       \/ tries < MaxRetries /\ tries' = tries + 1 /\ UNCHANGED <<phase, lost>>
       \/ tries = MaxRetries /\ Lose("delivery") /\ UNCHANGED tries
    /\ UNCHANGED <<setting, agents, cutoff, blocks>>

\* The container dies with its background task.
Crash ==
    /\ phase \in {"collecting", "composed"} /\ Lose("crash")
    /\ UNCHANGED <<setting, tries, agents, cutoff, blocks>>

Master == Ack \/ Status \/ RunTask \/ Capture \/ Cutoff \/ Harvest \/ Deliver

Next ==
    \/ Master \/ Crash
    \/ \E a \in active : Probe(a) \/ Reply(a) \/ Fails(a)

Spec == Init /\ [][Next]_vars

\* The Lambda and the master go on; nothing is assumed of a specialist.
FairSpec ==
    /\ Spec
    /\ WF_vars(Ack) /\ WF_vars(Status) /\ WF_vars(RunTask) /\ WF_vars(Capture)
    /\ WF_vars(Cutoff) /\ WF_vars(Harvest) /\ WF_vars(Deliver)

-----------------------------------------------------------------------------
(* Properties.                                                               *)

\* capture_snapshot, _block_from_report: of an agent that reported, the snapshot
\* names every anomaly its probes met, also those before a probe that ended the
\* capture, and marks every probe that failed (but the history's scan); a capture
\* that left out a probe says why. Exceptions the code makes: a log query that ends
\* without results, and a scan that fails, read as nothing found.
NoFalseAllClear ==
    \A a \in DOMAIN blocks \ disabled :
        blocks[a].status # "error" =>
          LET shows == blocks[a].shows
              made == {probed[a][n] : n \in DOMAIN probed[a]}
          IN  /\ \A m \in made :
                   /\ m[2] = "alarm" => m[1] \in shows.alarms
                   /\ m[2] = "failed" /\ m[1] # "count" => m[1] \in shows.marks
              /\ (blocks[a].status = "ok") = (shows.alarms = {})
              /\ Len(probed[a]) < Len(Probes[a]) =>
                   shows.marks # {} \/ \E m \in made : m[2] = "nothing"

\* capture, _build_summary_line: every active and every disabled specialist has its
\* block, an agent that gave no report an error; the summary counts the active ones
\* and the master as attempted and those whose report is shown as responded.
EveryoneAccounted ==
    phase \in {"composed", "posted"} =>
        /\ DOMAIN blocks = active \cup disabled
        /\ Attempted = 1 + Cardinality(active)
        /\ Responded = 1 + Cardinality({a \in active : answer[a] = "report"})

\* A command ends with a snapshot unless its acknowledgement (on Discord), the
\* dispatch, the master's turn, the container or the delivery failed; no specialist
\* can hold it back.
SnapshotArrives == phase = "typed" ~> (phase = "posted" \/ lost # "no")
=============================================================================
