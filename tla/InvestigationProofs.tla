------------------------- MODULE InvestigationProofs -------------------------
(***************************************************************************)
(* Theorems about Investigation for every set of agents and every choice   *)
(* of the deadlines and budgets.                                           *)
(***************************************************************************)
EXTENDS Investigation, TLAPS, FiniteSetTheorems

USE TimesAssumption DEF Awaits, Await, Ended, Answered

\* Every action keeps every variable in its type and resumes no await late.
THEOREM TypeCorrect == Spec => []TypeOK
<1>1. Init => TypeOK
  BY DEF Init, TypeOK, RouteBudget
<1>2. TypeOK /\ [Next]_vars => TypeOK'
  <2> SUFFICES ASSUME TypeOK, [Next]_vars
               PROVE  TypeOK'
    OBVIOUS
  <2> USE DEF TypeOK
  <2> SynthBudget \in Nat
    BY DEF SynthBudget
  <2>1. CASE Dispatch
    BY <2>1 DEF Dispatch, Launch, Routed, Selected, HarvestEnd
  <2>2. CASE Harvest
    BY <2>2 DEF Harvest, Fold, Settled, PendingIds
  <2>3. CASE Analyse
    BY <2>3 DEF Analyse, Synthesise
  <2>4. CASE PostReport
    BY <2>4 DEF PostReport, LoopHead, FollowupWorthwhile
  <2>5. CASE Followup
    BY <2>5 DEF Followup, Launch, LoopHead, WithFollowup, Candidates
  <2>6. CASE Collect
    BY <2>6 DEF Collect, Fold, Settled, LoopHead
  <2>7. CASE Reanalyse
    BY <2>7 DEF Reanalyse, Synthesise
  <2>8. CASE PostUpdate
    BY <2>8 DEF PostUpdate, LoopHead
  <2>9. CASE Finish
    BY <2>9 DEF Finish, CancelPending
  <2>10. CASE Abort
    BY <2>10 DEF Abort, CancelPending
  <2>11. CASE Tick
    BY <2>11 DEF Tick
  <2>12. ASSUME NEW a \in Agents, AgentAnswers(a)
         PROVE  TypeOK'
    BY <2>12 DEF AgentAnswers
  <2>13. CASE UNCHANGED vars
    BY <2>13 DEF vars
  <2>14. QED
    BY <2>1, <2>2, <2>3, <2>4, <2>5, <2>6, <2>7, <2>8, <2>9, <2>10, <2>11,
       <2>12, <2>13 DEF Next, Master
<1>3. QED
  BY <1>1, <1>2, PTL DEF Spec

-----------------------------------------------------------------------------
(* What the maps hold at each await: the invariant behind the safety         *)
(* properties that do not mention time.                                      *)

\* Nothing is folded, promised or updated before the initial harvest.
BeforeHarvest ==
    pc \in {"route", "harvest"} =>
        /\ pendingIds = {} /\ followed = {} /\ results = {}
        /\ \A a \in Agents : updates[a] = 0
BeforeDispatch ==
    pc = "route" => pending = {} /\ dispatched = {} /\ inTime = {}

\* Until the follow-up round the pending map is the one the report was told.
BeforeFollowup ==
    pc \in {"analyse", "post", "plan"} =>
        /\ pending = pendingIds /\ followed = {}
        /\ \A a \in Agents : updates[a] = 0

\* Late results are folded ones, and only Phase 4 has any.
LateResults ==
    /\ pc \notin {"reanalyse", "update"} => late = {}
    /\ late \subseteq results /\ late \cap pending = {}

\* A running task is in the pending map until the cancellation.
RunningIsPending ==
    \A a \in Agents : task[a] = "running" => a \in pending /\ pc # "done"

\* The router splits the roster; what it selected is answered or was reported as
\* still investigating, and only the follow-up round asks an agent it skipped.
Roster ==
    /\ pc \notin {"route", "raised"} => dispatched \cup skipped = Agents
    /\ pc \notin {"route", "harvest"} => dispatched \ skipped \subseteq results \cup pendingIds
    /\ dispatched \cap skipped \subseteq followed

\* The report is out exactly when Stage 2 begins.
ReportStage ==
    /\ pc \in {"route", "harvest", "analyse", "post"} => report = "none"
    /\ pc \in {"plan", "collect", "reanalyse", "update", "finish", "done"} => report # "none"

Structure == /\ BeforeHarvest /\ BeforeDispatch /\ BeforeFollowup /\ LateResults
             /\ RunningIsPending /\ Roster /\ ReportStage /\ NobodyLost
             /\ PromisesConserved

\* Each action preserves the structure of the maps.
LEMMA StructureStep == TypeOK /\ Structure /\ [Next]_vars => Structure'
<1> SUFFICES ASSUME TypeOK, Structure, [Next]_vars
             PROVE  Structure'
  OBVIOUS
<1> USE DEF TypeOK, Structure, BeforeHarvest, BeforeDispatch, BeforeFollowup, LateResults,
            RunningIsPending, Roster, ReportStage, NobodyLost, PromisesConserved,
            Owed, Promised
<1>1. CASE Dispatch
  BY <1>1 DEF Dispatch, Launch, Routed, Selected
<1>2. CASE Harvest
  BY <1>2 DEF Harvest, Fold, Settled, PendingIds
<1>3. CASE Analyse
  BY <1>3 DEF Analyse
<1>4. CASE PostReport
  BY <1>4 DEF PostReport, LoopHead
<1>5. CASE Followup
  <2>1. PICK F \in SUBSET (Agents \ pending) :
          /\ followed' = F /\ dispatched' = dispatched \cup F
          /\ task' = [a \in Agents |-> IF a \in F THEN "running" ELSE task[a]]
          /\ pending' = pending \cup F
          /\ LoopHead(pending \cup F)
    BY <1>5 DEF Followup, Launch, WithFollowup, Candidates
  <2>2. /\ pc = "plan" /\ pc' \in {"collect", "finish"}
        /\ UNCHANGED <<pendingIds, results, late, skipped, report, updates>>
    BY <1>5, <2>1 DEF Followup, LoopHead
  <2>3. PromisesConserved'
    BY <2>1, <2>2
  <2>4. /\ RunningIsPending' /\ NobodyLost' /\ LateResults'
    BY <2>1, <2>2
  <2>5. Roster'
    BY <2>1, <2>2
  <2>6. QED
    BY <2>2, <2>3, <2>4, <2>5
<1>6. CASE Collect
  BY <1>6 DEF Collect, Fold, Settled, LoopHead
<1>7. CASE Reanalyse
  BY <1>7 DEF Reanalyse
<1>8. CASE PostUpdate
  BY <1>8 DEF PostUpdate, LoopHead
<1>9. CASE Finish
  BY <1>9 DEF Finish, CancelPending
<1>10. CASE Abort
  BY <1>10 DEF Abort, CancelPending
<1>11. CASE Tick
  BY <1>11 DEF Tick
<1>12. ASSUME NEW b \in Agents, AgentAnswers(b)
       PROVE  Structure'
  BY <1>12 DEF AgentAnswers
<1>13. CASE UNCHANGED vars
  BY <1>13 DEF vars
<1>14. QED
  BY <1>1, <1>2, <1>3, <1>4, <1>5, <1>6, <1>7, <1>8, <1>9, <1>10, <1>11,
     <1>12, <1>13 DEF Next, Master

LEMMA StructureHolds == Spec => []Structure
<1>1. Init => Structure
  BY DEF Init, Structure, BeforeHarvest, BeforeDispatch, BeforeFollowup, LateResults,
         RunningIsPending, Roster, ReportStage, NobodyLost, PromisesConserved
<1>2. QED
  BY <1>1, StructureStep, TypeCorrect, PTL DEF Spec

\* Between the report and the end each promise is worth exactly one update.
THEOREM PromisesAreConserved == Spec => []PromisesConserved
BY StructureHolds, PTL DEF Structure

\* No dispatched agent is ever lost between the maps.
THEOREM NobodyIsLost == Spec => []NobodyLost
BY StructureHolds, PTL DEF Structure

\* The end of an investigation leaves no fan-out task running.
THEOREM NothingLeftInFlight == Spec => []NothingInFlight
<1>1. Structure => NothingInFlight
  BY DEF Structure, RunningIsPending, NothingInFlight
<1>2. QED
  BY <1>1, StructureHolds, PTL

\* The manifest, the evidence and the list of checks left agree on who never
\* answered, who failed, who is disabled and whom the follow-up asked after the
\* router had not.
THEOREM RecordIsConsistent == Spec => []RecordViewsAgree
<1>1. TypeOK /\ Structure => RecordViewsAgree
  <2> SUFFICES ASSUME TypeOK, Structure, pc = "done", NEW a \in dispatched
               PROVE  /\ Evidence(a) = IF a \in (skipped \cap followed) \ results
                                       THEN "skipped" ELSE RowOf[Rollup(a)]
                      /\ a \in Observed \cap NextChecks => a \in skipped \cap followed
    BY DEF RecordViewsAgree
  <2>1. failed \subseteq results
    BY DEF TypeOK
  <2>2. a \notin skipped => a \in results \cup pendingIds
    BY DEF Structure, Roster
  <2>3. a \in skipped => a \in followed
    BY DEF Structure, Roster
  <2>4. CASE a \in results
    BY <2>1, <2>3, <2>4 DEF Rollup, Evidence, RowOf, Unhealthy, Observed, NextChecks
  <2>5. CASE a \notin results
    BY <2>1, <2>2, <2>3, <2>5 DEF Rollup, Evidence, RowOf, Unhealthy, Observed, NextChecks
  <2>6. QED
    BY <2>4, <2>5
<1>2. QED
  BY <1>1, TypeCorrect, StructureHolds, PTL


\* Results come in at a harvest, and a synthesis stands between it and whatever
\* else the coroutine does.
Analysed == pc \notin {"analyse", "reanalyse", "raised"} => analysis # "outdated"

LEMMA AnalysedStep == TypeOK /\ Analysed /\ [Next]_vars => Analysed'
<1> SUFFICES ASSUME TypeOK, Analysed, [Next]_vars
             PROVE  Analysed'
  OBVIOUS
<1> USE DEF TypeOK, Analysed
<1>1. CASE Harvest
  BY <1>1 DEF Harvest
<1>2. CASE Analyse \/ Reanalyse
  BY <1>2 DEF Analyse, Reanalyse, Synthesise
<1>3. CASE Collect
  BY <1>3 DEF Collect, Fold, LoopHead
<1>4. CASE ~Harvest /\ ~Collect /\ ~Analyse /\ ~Reanalyse
  <2>1. analysis' = analysis
    BY <1>4 DEF Next, Master, Dispatch, PostReport, Followup, PostUpdate, Finish, Abort,
                Tick, AgentAnswers, vars
  <2>2. pc \in {"analyse", "reanalyse", "raised"} => pc' \in {pc, "raised"}
    BY <1>4 DEF Next, Master, Dispatch, PostReport, Followup, PostUpdate, Finish, Abort,
                Tick, AgentAnswers, vars
  <2>3. QED
    BY <2>1, <2>2
<1>5. QED
  BY <1>1, <1>2, <1>3, <1>4

\* No report, update or record carries an analysis of other results than its own.
THEOREM AnalysisIsOfTheResults == Spec => []AnalysisIsCurrent
<1>1. Init => Analysed
  BY DEF Init, Analysed
<1>2. TypeOK /\ Analysed /\ [Next]_vars => Analysed'
  BY AnalysedStep
<1>3. Analysed => AnalysisIsCurrent
  BY DEF Analysed, AnalysisIsCurrent
<1>4. QED
  BY <1>1, <1>2, <1>3, TypeCorrect, PTL DEF Spec

-----------------------------------------------------------------------------
(* The orchestrator keeps what IncidentThread promises the channel: every    *)
(* step is a step of the thread or leaves it unchanged.                      *)

LEMMA ThreadStep == TypeOK /\ Structure /\ [Next]_vars => [Thread!Next]_(Thread!threadVars)
<1> SUFFICES ASSUME TypeOK, Structure, [Next]_vars
             PROVE  Thread!Next \/ UNCHANGED Thread!threadVars
  OBVIOUS
<1> USE DEF Thread!threadVars
<1>1. CASE Dispatch \/ Harvest \/ Analyse
  BY <1>1 DEF Dispatch, Routed, Selected, Harvest, Analyse, Structure, ReportStage, BeforeHarvest
<1>2. CASE PostReport
  <2>1. Thread!Report(pending)
    BY <1>2 DEF PostReport, LoopHead, Thread!Report, Structure, ReportStage, LateResults,
                BeforeFollowup, TypeOK
  <2>2. QED
    BY <2>1 DEF Thread!Next, TypeOK
<1>3. CASE Followup
  <2>1. PICK F \in SUBSET (Agents \ pending) :
          /\ Cardinality(F) <= FollowupCap /\ followed' = F
          /\ pending' = pending \cup F
          /\ pc' \in {"collect", "finish"}
    BY <1>3 DEF Followup, WithFollowup, Candidates, LoopHead
  <2>2. /\ pc = "plan" /\ late = {} /\ followed = {} /\ report # "none"
        /\ late' = late /\ report' = report
    BY <1>3 DEF Followup, Structure, LateResults, BeforeFollowup, ReportStage
  <2>3. CASE F = {}
    BY <2>1, <2>2, <2>3
  <2>4. CASE F # {}
    <3>1. F \cap (pending \cup late) = {}
      BY <2>1, <2>2
    <3>2. pending' \cup late' = (pending \cup late) \cup F
      BY <2>1, <2>2
    <3>3. ~Ended /\ ~Ended'
      BY <2>1, <2>2
    <3>4. followed' # {}
      BY <2>1, <2>4
    <3>5. Thread!Engage(F)
      <4>1. Cardinality(F) <= FollowupCap
        BY <2>1
      <4>2. Thread!Cardinality(F) <= FollowupCap
        BY <4>1 DEF Cardinality, Thread!Cardinality
      <4>3. QED
        BY <2>1, <2>2, <2>4, <3>1, <3>2, <3>3, <3>4, <4>2 DEF Thread!Engage
    <3>6. QED
      BY <3>5 DEF Thread!Next
  <2>5. QED
    BY <2>3, <2>4
<1>4. CASE Collect
  BY <1>4 DEF Collect, Fold, Settled, LoopHead, Structure, LateResults, ReportStage
<1>5. CASE Reanalyse \/ Tick
  BY <1>5 DEF Reanalyse, Tick
<1>6. CASE PostUpdate
  <2>1. PICK a \in late : late' = late \ {a}
    BY <1>6 DEF PostUpdate
  <2>2. Thread!Update(a)
    BY <1>6, <2>1 DEF PostUpdate, LoopHead, Thread!Update, Structure, LateResults, ReportStage
  <2>3. QED
    BY <2>1, <2>2 DEF Thread!Next, TypeOK
<1>7. CASE Finish \/ Abort
  <2>1. Thread!Close
    BY <1>7 DEF Finish, Abort, Thread!Close
  <2>2. QED
    BY <2>1 DEF Thread!Next
<1>8. ASSUME NEW a \in Agents, AgentAnswers(a)
      PROVE  UNCHANGED Thread!threadVars
  BY <1>8 DEF AgentAnswers
<1>9. CASE UNCHANGED vars
  BY <1>9 DEF vars
<1>10. QED
  BY <1>1, <1>2, <1>3, <1>4, <1>5, <1>6, <1>7, <1>8, <1>9 DEF Next, Master

\* Investigation implements IncidentThread.
THEOREM ThreadRefinement == Spec => ImplementsThread
<1>1. Init => Thread!Init
  BY DEF Init, Thread!Init
<1>2. QED
  BY <1>1, ThreadStep, TypeCorrect, StructureHolds, PTL DEF Spec, ImplementsThread, Thread!Spec

-----------------------------------------------------------------------------
(* Deadlines.                                                                *)

\* Routing and synthesis fit into the initial window.
WithinBudget == RouteTimeout + SynthTimeout <= InitialDeadline

\* The initial harvest stops early enough for the synthesis call.
InitialWindow ==
    /\ pc = "route" => until = RouteBudget
    /\ pc = "harvest" => until + SynthBudget <= InitialDeadline
    /\ pc = "analyse" => until <= InitialDeadline

LEMMA InitialWindowHolds == ASSUME WithinBudget PROVE Spec => []InitialWindow
<1> USE DEF InitialWindow, WithinBudget, RouteBudget, SynthBudget
<1>1. Init => InitialWindow
  BY DEF Init
<1>2. TypeOK /\ InitialWindow /\ [Next]_vars => InitialWindow'
  <2> SUFFICES ASSUME TypeOK, InitialWindow, [Next]_vars
               PROVE  InitialWindow'
    OBVIOUS
  <2> USE DEF TypeOK
  <2>1. CASE Dispatch
    BY <2>1 DEF Dispatch, Routed, Selected, HarvestEnd
  <2>2. CASE Harvest
    BY <2>2 DEF Harvest
  <2>3. CASE Analyse \/ PostReport \/ Followup \/ Collect \/ Reanalyse \/ PostUpdate
    BY <2>3 DEF Analyse, PostReport, Followup, Collect, Reanalyse, PostUpdate, LoopHead
  <2>4. CASE Finish \/ Abort \/ Tick
    BY <2>4 DEF Finish, Abort, Tick
  <2>5. ASSUME NEW a \in Agents, AgentAnswers(a)
        PROVE  InitialWindow'
    BY <2>5 DEF AgentAnswers
  <2>6. CASE UNCHANGED vars
    BY <2>6 DEF vars
  <2>7. QED
    BY <2>1, <2>2, <2>3, <2>4, <2>5, <2>6 DEF Next, Master
<1>3. QED
  BY <1>1, <1>2, TypeCorrect, PTL DEF Spec

\* The first attempt to post the report starts by the initial deadline.
THEOREM ReportIsOnTime == ASSUME WithinBudget PROVE Spec => ReportByDeadline
<1>1. TypeOK /\ InitialWindow /\ [Next]_vars
        => [pc # "post" /\ pc' = "post" => now <= InitialDeadline]_vars
  BY DEF TypeOK, InitialWindow, Next, Master, Dispatch, Harvest, Analyse, PostReport,
         Followup, Collect, Reanalyse, PostUpdate, Finish, Abort, Tick, AgentAnswers,
         LoopHead
<1>2. QED
  BY <1>1, TypeCorrect, InitialWindowHolds, PTL DEF Spec, ReportByDeadline

\* The report and the follow-up planning leave time before the cutoff.
ReportingFits == WithinBudget /\ InitialDeadline + DeliverTime + PlanTimeout < HardCutoff

\* When the awaits between the two harvests end, and what the late loop waits for.
Schedule ==
    /\ pc = "post" => until <= InitialDeadline + DeliverTime
    /\ pc = "plan" => until <= InitialDeadline + DeliverTime + PlanTimeout
    /\ pc = "collect" => until = HardCutoff

\* An answer is in one of the maps; past the last harvest none that was in time
\* is left in the pending one.
AnswersKept ==
    /\ \A a \in inTime : task[a] = "answered"
    /\ \A a \in Agents : task[a] = "answered" => a \in pending \cup results
    /\ pc \in {"reanalyse", "update", "finish", "done"} =>
           pending = {} \/ (now >= HardCutoff /\ inTime \cap pending = {})

LEMMA AnswersStep ==
    ASSUME ReportingFits, TypeOK, Structure, InitialWindow, Schedule, AnswersKept, [Next]_vars
    PROVE  Schedule' /\ AnswersKept'
<1> USE DEF TypeOK, Schedule, AnswersKept
<1> SynthBudget \in Nat
  BY DEF SynthBudget
<1>1. CASE Dispatch
  BY <1>1 DEF Dispatch, Launch, Routed, Selected, Structure, BeforeDispatch
<1>2. CASE Harvest
  BY <1>2 DEF Harvest, Fold, Settled
<1>3. CASE Analyse
  BY <1>3 DEF Analyse, ReportingFits, WithinBudget, InitialWindow
<1>4. CASE PostReport
  BY <1>4 DEF PostReport, LoopHead, FollowupWorthwhile, ReportingFits
<1>5. CASE Followup
  <2>1. PICK F \in SUBSET (Agents \ pending) :
          /\ task' = [a \in Agents |-> IF a \in F THEN "running" ELSE task[a]]
          /\ inTime' = inTime \ F
          /\ pending' = pending \cup F
          /\ LoopHead(pending \cup F)
    BY <1>5 DEF Followup, Launch, WithFollowup, Candidates
  <2>2. now < HardCutoff /\ now' = now /\ results' = results
    BY <1>5 DEF Followup, ReportingFits
  <2>3. Schedule'
    BY <2>1, <2>2 DEF LoopHead
  <2>4. AnswersKept'
    BY <2>1, <2>2 DEF LoopHead
  <2>5. QED
    BY <2>3, <2>4
<1>6. CASE Collect
  BY <1>6 DEF Collect, Fold, Settled, HarvestReturns, LoopHead
<1>7. CASE Reanalyse
  BY <1>7 DEF Reanalyse
<1>8. CASE PostUpdate
  BY <1>8 DEF PostUpdate, LoopHead
<1>9. CASE Finish \/ Abort
  BY <1>9 DEF Finish, Abort, CancelPending
<1>10. CASE Tick
  BY <1>10 DEF Tick
<1>11. ASSUME NEW a \in Agents, AgentAnswers(a)
       PROVE  Schedule' /\ AnswersKept'
  BY <1>11 DEF AgentAnswers, Structure, RunningIsPending
<1>12. CASE UNCHANGED vars
  BY <1>12 DEF vars
<1>13. QED
  BY <1>1, <1>2, <1>3, <1>4, <1>5, <1>6, <1>7, <1>8, <1>9, <1>10, <1>11, <1>12
     DEF Next, Master

\* With those budgets every answer given before the cutoff is in the record.
THEOREM NoAnswerIsDropped == ASSUME ReportingFits PROVE Spec => []InTimeAnswersKept
<1>1. Init => Schedule /\ AnswersKept
  BY DEF Init, Schedule, AnswersKept
<1>2. TypeOK /\ AnswersKept => InTimeAnswersKept
  BY DEF TypeOK, AnswersKept, InTimeAnswersKept
<1>3. WithinBudget
  BY DEF ReportingFits
<1>4. QED
  BY <1>1, <1>2, <1>3, AnswersStep, TypeCorrect, StructureHolds, InitialWindowHolds, PTL
     DEF Spec

-----------------------------------------------------------------------------
(* How far updates run past the cutoff.                                      *)

Updated == {a \in Agents : updates[a] > 0}
UpdateCost == SynthBudget + DeliverTime

\* A promise is made once: by the report or by the follow-up.
PromisedOnce == /\ pendingIds \cap followed = {}
                /\ pc \in {"route", "harvest"} => pendingIds = {} /\ followed = {}

\* Each await past the report ends by the cutoff and what the updates so far have cost.
Late(d) == until <= HardCutoff + Overrun + d
LateWindow ==
    /\ pc = "reanalyse" => Late(SynthBudget)
    /\ pc = "update" => Late(UpdateCost)
    /\ pc \in {"finish", "done"} => Late(0)
    /\ pc \in {"reanalyse", "update"} => late # {}

LEMMA PromisedOnceHolds == Spec => []PromisedOnce
<1>1. Init => PromisedOnce
  BY DEF Init, PromisedOnce
<1>2. TypeOK /\ Structure /\ PromisedOnce /\ [Next]_vars => PromisedOnce'
  <2> SUFFICES ASSUME TypeOK, Structure, PromisedOnce, [Next]_vars
               PROVE  PromisedOnce'
    OBVIOUS
  <2> USE DEF PromisedOnce
  <2>1. CASE Dispatch
    BY <2>1 DEF Dispatch
  <2>2. CASE Harvest
    BY <2>2 DEF Harvest
  <2>3. CASE Followup
    <3>1. pendingIds = pending /\ pendingIds' = pendingIds
      BY <2>3 DEF Followup, Structure, BeforeFollowup
    <3>2. pc' \notin {"route", "harvest"} /\ followed' \cap pending = {}
      BY <2>3 DEF Followup, Candidates, LoopHead
    <3>3. QED
      BY <3>1, <3>2
  <2>4. CASE Analyse \/ PostReport \/ Collect \/ Reanalyse \/ PostUpdate
    BY <2>4 DEF Analyse, PostReport, Collect, Reanalyse, PostUpdate, LoopHead
  <2>5. CASE Finish \/ Abort \/ Tick \/ UNCHANGED vars
    BY <2>5 DEF Finish, Abort, Tick, vars
  <2>6. ASSUME NEW a \in Agents, AgentAnswers(a)
        PROVE  PromisedOnce'
    BY <2>6 DEF AgentAnswers
  <2>7. QED
    BY <2>1, <2>2, <2>3, <2>4, <2>5, <2>6 DEF Next, Master
<1>3. QED
  BY <1>1, <1>2, TypeCorrect, StructureHolds, PTL DEF Spec

LEMMA CostType == UpdateCost \in Nat /\ SynthBudget \in Nat
BY DEF UpdateCost, SynthBudget

LEMMA OverrunType ==
    ASSUME TypeOK
    PROVE  /\ IsFiniteSet(Updated) /\ Cardinality(Updated) \in Nat
           /\ Overrun \in Nat /\ Overrun = Cardinality(Updated) * UpdateCost
<1>1. IsFiniteSet(Updated) /\ Cardinality(Updated) \in Nat
  BY AgentsAssumption, FS_Subset, FS_CardinalityType DEF Updated
<1>2. Overrun = Cardinality(Updated) * UpdateCost
  BY DEF Overrun, Updated, UpdateCost
<1>3. \A u, c \in Nat : u * c \in Nat
  OBVIOUS
<1>4. QED
  BY <1>1, <1>2, <1>3, CostType

\* An update costs its own share.
LEMMA OneMoreUpdate ==
    ASSUME TypeOK, NEW a \in Agents, updates[a] = 0, features' = features,
           updates' = [updates EXCEPT ![a] = @ + 1]
    PROVE  Overrun' = Overrun + UpdateCost
<1>1. Updated' = Updated \cup {a} /\ a \notin Updated
  BY DEF Updated, TypeOK
<1>2. Cardinality(Updated') = Cardinality(Updated) + 1
  BY <1>1, OverrunType, FS_AddElement
<1>3. Overrun' = Cardinality(Updated') * UpdateCost
  BY DEF Overrun, Updated, UpdateCost, SynthBudget
<1>4. \A u, c \in Nat : (u + 1) * c = u * c + c
  OBVIOUS
<1>5. QED
  BY <1>2, <1>3, <1>4, OverrunType, CostType

LEMMA LateWindowStep ==
    ASSUME ReportingFits, TypeOK, Structure, InitialWindow, Schedule, PromisedOnce, LateWindow,
           [Next]_vars
    PROVE  LateWindow'
<1> USE DEF TypeOK, LateWindow, Late
<1>1. Overrun \in Nat /\ UpdateCost \in Nat /\ SynthBudget \in Nat
      /\ UpdateCost = SynthBudget + DeliverTime
  BY OverrunType, CostType DEF UpdateCost
<1>2. ASSUME UNCHANGED <<updates, features>>
      PROVE  Overrun' = Overrun /\ SynthBudget' = SynthBudget /\ UpdateCost' = UpdateCost
  BY <1>2 DEF Overrun, SynthBudget, UpdateCost
<1>3. CASE Dispatch \/ Harvest \/ Analyse
  BY <1>3 DEF Dispatch, Harvest, Analyse
<1>4. CASE PostReport
  <2>1. now <= InitialDeadline + DeliverTime
    BY <1>4 DEF PostReport, Schedule
  <2>2. now <= HardCutoff
    BY <2>1 DEF ReportingFits
  <2>3. pc' \in {"plan", "collect", "finish"} /\ (pc' = "finish" => until' = now)
    BY <1>4 DEF PostReport, LoopHead
  <2>4. UNCHANGED <<updates, features>>
    BY <1>4 DEF PostReport
  <2>5. QED
    BY <1>1, <1>2, <2>2, <2>3, <2>4
<1>5. CASE Followup
  <2>1. now <= HardCutoff
    BY <1>5 DEF Followup, Schedule, ReportingFits
  <2>2. pc' \in {"collect", "finish"} /\ (pc' = "finish" => until' = now)
    BY <1>5 DEF Followup, LoopHead
  <2>3. UNCHANGED <<updates, features>>
    BY <1>5 DEF Followup
  <2>4. QED
    BY <1>1, <1>2, <2>1, <2>2, <2>3
<1>6. CASE Collect
  <2>1. now <= HardCutoff
    BY <1>6 DEF Collect, Schedule
  <2>2. \/ pc' = "reanalyse" /\ until' = now + SynthBudget /\ late' # {}
        \/ pc' = "collect"
        \/ pc' = "finish" /\ until' = now
    BY <1>6 DEF Collect, LoopHead
  <2>3. UNCHANGED <<updates, features>>
    BY <1>6 DEF Collect
  <2>4. QED
    BY <1>1, <1>2, <2>1, <2>2, <2>3
<1>7. CASE Reanalyse
  <2>1. pc = "reanalyse" /\ pc' = "update" /\ until' = now + DeliverTime
        /\ UNCHANGED <<updates, features, late>>
    BY <1>7 DEF Reanalyse
  <2>2. QED
    BY <1>1, <1>2, <2>1
<1>8. CASE PostUpdate
  <2>1. PICK a \in late : updates' = [updates EXCEPT ![a] = @ + 1]
    BY <1>8 DEF PostUpdate
  <2>2. updates[a] = 0
    <3>1. pc = "update" /\ a \in Agents
      BY <1>8 DEF PostUpdate
    <3>2. updates[a] + Owed(a) = Promised(a)
      BY <3>1 DEF Structure, PromisesConserved
    <3>3. Owed(a) \in {1, 2} /\ Promised(a) \in {0, 1}
      BY DEF Owed, Promised, PromisedOnce
    <3>4. updates[a] \in Nat
      BY <3>1
    <3>5. QED
      BY <3>2, <3>3, <3>4
  <2>3. features' = features /\ pc = "update" /\ now' = now /\ a \in Agents
    BY <1>8 DEF PostUpdate
  <2>4. Overrun' = Overrun + UpdateCost /\ SynthBudget' = SynthBudget
    BY <2>1, <2>2, <2>3, OneMoreUpdate DEF SynthBudget
  <2>5. now <= HardCutoff + Overrun'
    BY <1>1, <2>3, <2>4
  <2>6. \/ pc' = "reanalyse" /\ until' = now + SynthBudget /\ late' # {}
        \/ pc' = "collect"
        \/ pc' = "finish" /\ until' = now
    BY <1>8 DEF PostUpdate, LoopHead
  <2>7. QED
    BY <1>1, <2>3, <2>4, <2>5, <2>6
<1>9. CASE Finish \/ Abort
  <2>1. UNCHANGED <<updates, features, until>> /\ pc' \in {"done", "raised"}
        /\ (pc' = "done" => pc = "finish")
    BY <1>9 DEF Finish, Abort
  <2>2. QED
    BY <1>2, <2>1
<1>10. CASE Tick \/ UNCHANGED vars
  <2>1. UNCHANGED <<updates, features, until, pc, late>>
    BY <1>10 DEF Tick, vars
  <2>2. QED
    BY <1>2, <2>1
<1>11. ASSUME NEW a \in Agents, AgentAnswers(a)
       PROVE  LateWindow'
  <2>1. UNCHANGED <<updates, features, until, pc, late>>
    BY <1>11 DEF AgentAnswers
  <2>2. QED
    BY <1>2, <2>1
<1>12. QED
  BY <1>3, <1>4, <1>5, <1>6, <1>7, <1>8, <1>9, <1>10, <1>11 DEF Next, Master

\* With those budgets an investigation ends by the cutoff and one synthesis and one
\* delivery for each agent it updated the thread about.
THEOREM OverrunIsBounded == ASSUME ReportingFits PROVE Spec => []BoundedOverrun
<1>1. Init => Schedule /\ AnswersKept /\ LateWindow
  BY DEF Init, Schedule, AnswersKept, LateWindow
<1>2. TypeOK /\ LateWindow => BoundedOverrun
  <2> SUFFICES ASSUME TypeOK, LateWindow, pc = "done"
               PROVE  now <= HardCutoff + Overrun
    BY DEF BoundedOverrun
  <2>1. Overrun \in Nat
    BY OverrunType
  <2>2. QED
    BY <2>1 DEF TypeOK, LateWindow, Late
<1>3. WithinBudget
  BY DEF ReportingFits
<1>4. QED
  BY <1>1, <1>2, <1>3, AnswersStep, LateWindowStep, TypeCorrect, StructureHolds,
     InitialWindowHolds, PromisedOnceHolds, PTL DEF Spec

-----------------------------------------------------------------------------
(* The steps of the coroutine run out: what is left of its termination when  *)
(* the event loop and the clock go on.                                       *)

\* The late harvests wait for the cutoff and no longer.
UntilCutoff == pc = "collect" => until = HardCutoff

LEMMA UntilCutoffHolds == Spec => []UntilCutoff
<1>1. Init => UntilCutoff
  BY DEF Init, UntilCutoff
<1>2. TypeOK /\ UntilCutoff /\ [Next]_vars => UntilCutoff'
  <2> SUFFICES ASSUME TypeOK, UntilCutoff, [Next]_vars
               PROVE  UntilCutoff'
    OBVIOUS
  <2> USE DEF TypeOK, UntilCutoff
  <2>1. CASE Dispatch \/ Harvest \/ Analyse
    BY <2>1 DEF Dispatch, Harvest, Analyse
  <2>2. CASE PostReport \/ Collect \/ PostUpdate
    BY <2>2 DEF PostReport, Collect, PostUpdate, LoopHead
  <2>3. CASE Followup
    BY <2>3 DEF Followup, LoopHead
  <2>4. CASE Reanalyse \/ Finish \/ Abort \/ Tick
    BY <2>4 DEF Reanalyse, Finish, Abort, Tick
  <2>5. CASE UNCHANGED vars \/ \E a \in Agents : AgentAnswers(a)
    BY <2>5 DEF vars, AgentAnswers
  <2>6. QED
    BY <2>1, <2>2, <2>3, <2>4, <2>5 DEF Next, Master
<1>3. QED
  BY <1>1, <1>2, TypeCorrect, PTL DEF Spec

LEMMA AgentSets ==
    ASSUME NEW S \in SUBSET Agents
    PROVE  /\ IsFiniteSet(S) /\ Cardinality(S) \in Nat
           /\ Cardinality(S) <= Cardinality(Agents) /\ Cardinality(Agents) \in Nat
BY AgentsAssumption, FS_Subset, FS_CardinalityType

\* Striking a set of agents off another.
LEMMA StrikeOff ==
    ASSUME NEW S \in SUBSET Agents, NEW T \in SUBSET S
    PROVE  /\ Cardinality(S \ T) = Cardinality(S) - Cardinality(T)
           /\ T # {} => Cardinality(T) >= 1
<1>1. IsFiniteSet(S) /\ IsFiniteSet(T) /\ T \in SUBSET Agents
  BY AgentSets
<1>2. S \cap T = T
  OBVIOUS
<1>3. Cardinality(S \ T) = Cardinality(S) - Cardinality(S \cap T)
  BY <1>1, FS_Difference
<1>4. T # {} => Cardinality(T) # 0
  BY <1>1, FS_EmptySet
<1>5. QED
  BY <1>1, <1>2, <1>3, <1>4, AgentSets

LEMMA CapType == FollowupCap \in Nat
BY DEF FollowupCap

\* The count in numbers: w agents waited for, l late results, n agents, cap c.
Count(p, w, l, n, c) ==
    4 * w + 2 * l + (CASE p = "route" -> 4 * n + 4 * c + 7
                       [] p = "harvest" -> 4 * c + 6
                       [] p = "analyse" -> 4 * c + 5
                       [] p = "post" -> 4 * c + 4
                       [] p = "plan" -> 4 * c + 3
                       [] p = "reanalyse" -> 3
                       [] p \in {"collect", "update"} -> 2
                       [] p = "finish" -> 1
                       [] OTHER -> 0)

LEMMA StepsCount ==
    ASSUME TypeOK, TypeOK'
    PROVE  \E w, w1, l, l1, n, c \in Nat :
             /\ w = Cardinality(pending) /\ w1 = Cardinality(pending')
             /\ l = Cardinality(late) /\ l1 = Cardinality(late')
             /\ w1 <= n /\ c = FollowupCap
             /\ StepsLeft = Count(pc, w, l, n, c)
             /\ StepsLeft' = Count(pc', w1, l1, n, c)
<1>1. /\ Cardinality(pending) \in Nat /\ Cardinality(late) \in Nat
      /\ Cardinality(pending') \in Nat /\ Cardinality(late') \in Nat
      /\ Cardinality(Agents) \in Nat /\ Cardinality(pending') <= Cardinality(Agents)
  BY AgentSets DEF TypeOK
<1>2. StepsLeft = Count(pc, Cardinality(pending), Cardinality(late),
                        Cardinality(Agents), FollowupCap)
  BY DEF StepsLeft, Ahead, Count
<1>3. StepsLeft' = Count(pc', Cardinality(pending'), Cardinality(late'),
                         Cardinality(Agents), FollowupCap)
  BY DEF StepsLeft, Ahead, Count, FollowupCap
<1>4. QED
  BY <1>1, <1>2, <1>3, CapType

\* A step of the coroutine leaves less to do.
LEMMA MasterStepCounts ==
    ASSUME TypeOK, TypeOK', Structure, UntilCutoff, Master
    PROVE  StepsLeft' < StepsLeft
<1>1. PICK w, w1, l, l1, n, c \in Nat :
             /\ w = Cardinality(pending) /\ w1 = Cardinality(pending')
             /\ l = Cardinality(late) /\ l1 = Cardinality(late')
             /\ w1 <= n /\ c = FollowupCap
             /\ StepsLeft = Count(pc, w, l, n, c)
             /\ StepsLeft' = Count(pc', w1, l1, n, c)
  BY StepsCount
<1>2. Cardinality({}) = 0
  BY FS_EmptySet
<1>3. pc \notin {"reanalyse", "update"} => late = {} /\ l = 0
  BY <1>1, <1>2 DEF Structure, LateResults
<1>4. pending \in SUBSET Agents /\ late \in SUBSET Agents
  BY DEF TypeOK
<1>5. CASE Dispatch
  <2>1. pc = "route" /\ pc' = "harvest" /\ late' = late /\ pending = {}
    BY <1>5 DEF Dispatch, Structure, BeforeDispatch
  <2>2. w = 0 /\ l = 0 /\ l1 = 0
    BY <1>1, <1>2, <1>3, <2>1
  <2>3. Count("harvest", w1, 0, n, c) < Count("route", 0, 0, n, c)
    BY <1>1 DEF Count
  <2>4. QED
    BY <1>1, <2>1, <2>2, <2>3
<1>6. CASE Harvest
  <2>1. pc = "harvest" /\ pc' = "analyse" /\ late' = late
        /\ pending' = pending \ Settled /\ Settled \subseteq pending
    BY <1>6 DEF Harvest, Await, Fold, Settled
  <2>2. w1 <= w
    BY <1>1, <1>4, <2>1, AgentSets, FS_Subset
  <2>3. l1 = l
    BY <1>1, <2>1
  <2>4. Count("analyse", w1, l, n, c) < Count("harvest", w, l, n, c)
    BY <1>1, <2>2 DEF Count
  <2>5. QED
    BY <1>1, <2>1, <2>3, <2>4
<1>7. CASE Analyse \/ PostReport
  <2>1. w1 = w /\ l1 = l
    BY <1>1, <1>7 DEF Analyse, PostReport
  <2>2. \/ pc = "analyse" /\ pc' = "post"
        \/ pc = "post" /\ pc' \in {"plan", "collect", "finish"}
    BY <1>7 DEF Analyse, PostReport, LoopHead, Await
  <2>3. /\ Count("post", w, l, n, c) < Count("analyse", w, l, n, c)
        /\ Count("plan", w, l, n, c) < Count("post", w, l, n, c)
        /\ Count("collect", w, l, n, c) < Count("post", w, l, n, c)
        /\ Count("finish", w, l, n, c) < Count("post", w, l, n, c)
    BY DEF Count
  <2>4. QED
    BY <1>1, <2>1, <2>2, <2>3
<1>8. CASE Followup
  <2>1. PICK F \in SUBSET Agents : Cardinality(F) <= FollowupCap /\ pending' = pending \cup F
    BY <1>8 DEF Followup, Candidates, WithFollowup
  <2>2. pc = "plan" /\ pc' \in {"collect", "finish"} /\ late' = late
    BY <1>8 DEF Followup, LoopHead, Await
  <2>3. w1 <= w + c
    <3>1. IsFiniteSet(pending) /\ IsFiniteSet(F) /\ IsFiniteSet(pending \cap F)
      BY <1>4, AgentSets
    <3>2. Cardinality(pending \cup F)
            = Cardinality(pending) + Cardinality(F) - Cardinality(pending \cap F)
      BY <3>1, FS_Union
    <3>3. Cardinality(pending \cap F) \in Nat /\ Cardinality(F) \in Nat
      BY <3>1, FS_CardinalityType
    <3>4. QED
      BY <1>1, <2>1, <3>2, <3>3
  <2>4. l1 = l
    BY <1>1, <2>2
  <2>5. /\ Count("collect", w1, l, n, c) < Count("plan", w, l, n, c)
        /\ Count("finish", w1, l, n, c) < Count("plan", w, l, n, c)
    BY <1>1, <2>3 DEF Count
  <2>6. QED
    BY <1>1, <2>2, <2>4, <2>5
<1>9. CASE Collect
  <2>1. /\ pc = "collect" /\ HarvestReturns /\ late' = Settled
        /\ pending' = pending \ Settled /\ Settled \in SUBSET pending
        /\ IF Settled # {} THEN pc' = "reanalyse" ELSE LoopHead(pending)
    BY <1>9 DEF Collect, Await, Fold, Settled
  <2>2. l = 0
    BY <1>3, <2>1
  <2>3. CASE Settled # {}
    <3>1. w1 = w - l1 /\ l1 >= 1
      BY <1>1, <1>4, <2>1, <2>3, StrikeOff
    <3>2. Count("reanalyse", w1, l1, n, c) < Count("collect", w, 0, n, c)
      BY <1>1, <3>1 DEF Count
    <3>3. QED
      BY <1>1, <2>1, <2>2, <2>3, <3>2
  <2>4. CASE Settled = {}
    <3>1. pending = {} \/ now >= HardCutoff
      BY <2>1, <2>4 DEF HarvestReturns, UntilCutoff
    <3>2. pc' = "finish"
      BY <2>1, <2>4, <3>1, TimesAssumption DEF LoopHead, Await, TypeOK
    <3>3. w1 = w /\ l1 = 0
      BY <1>1, <1>2, <2>1, <2>4
    <3>4. Count("finish", w, 0, n, c) < Count("collect", w, 0, n, c)
      BY DEF Count
    <3>5. QED
      BY <1>1, <2>1, <2>2, <3>2, <3>3, <3>4
  <2>5. QED
    BY <2>3, <2>4
<1>10. CASE Reanalyse
  <2>1. pc = "reanalyse" /\ pc' = "update" /\ w1 = w /\ l1 = l
    BY <1>1, <1>10 DEF Reanalyse, Await
  <2>2. Count("update", w, l, n, c) < Count("reanalyse", w, l, n, c)
    BY DEF Count
  <2>3. QED
    BY <1>1, <2>1, <2>2
<1>11. CASE PostUpdate
  <2>1. PICK a \in late : late' = late \ {a}
    BY <1>11 DEF PostUpdate
  <2>2. l1 = l - 1
    <3>1. Cardinality({a}) = 1
      BY FS_Singleton
    <3>2. {a} \in SUBSET late
      OBVIOUS
    <3>3. QED
      BY <1>1, <1>4, <2>1, <3>1, <3>2, StrikeOff
  <2>3. pc = "update" /\ pc' \in {"reanalyse", "collect", "finish"} /\ w1 = w
    BY <1>1, <1>11 DEF PostUpdate, LoopHead, Await
  <2>4. /\ Count("reanalyse", w, l1, n, c) < Count("update", w, l, n, c)
        /\ Count("collect", w, l1, n, c) < Count("update", w, l, n, c)
        /\ Count("finish", w, l1, n, c) < Count("update", w, l, n, c)
    BY <2>2 DEF Count
  <2>5. QED
    BY <1>1, <2>3, <2>4
<1>12. CASE Finish \/ Abort
  <2>1. w1 = w /\ l1 = l /\ pc \in {"route", "analyse", "finish"}
        /\ pc' \in {"done", "raised"}
    BY <1>1, <1>12 DEF Finish, Abort
  <2>2. \A p \in {"route", "analyse", "finish"}, q \in {"done", "raised"} :
          Count(q, w, l, n, c) < Count(p, w, l, n, c)
    BY DEF Count
  <2>3. QED
    BY <1>1, <2>1, <2>2
<1>13. QED
  BY <1>5, <1>6, <1>7, <1>8, <1>9, <1>10, <1>11, <1>12 DEF Master

\* However the agents answer, an investigation takes no more steps than StepsLeft says
\* when it starts, four for each agent and for each follow-up and seven besides.
THEOREM CoroutineRunsOut == Spec => StepsRunOut
<1>1. TypeOK /\ TypeOK' /\ Structure /\ UntilCutoff /\ [Next]_vars
        => [StepsLeft' <= StepsLeft /\ (Master => StepsLeft' < StepsLeft)]_vars
  <2> SUFFICES ASSUME TypeOK, TypeOK', Structure, UntilCutoff, Next
               PROVE  StepsLeft' <= StepsLeft /\ (Master => StepsLeft' < StepsLeft)
    OBVIOUS
  <2>1. StepsLeft \in Nat /\ StepsLeft' \in Nat
    <3>1. PICK w, w1, l, l1, n, c \in Nat :
             /\ StepsLeft = Count(pc, w, l, n, c)
             /\ StepsLeft' = Count(pc', w1, l1, n, c)
      BY StepsCount
    <3>2. Count(pc, w, l, n, c) \in Nat /\ Count(pc', w1, l1, n, c) \in Nat
      BY DEF Count
    <3>3. QED
      BY <3>1, <3>2
  <2>2. CASE Master
    BY <2>1, <2>2, MasterStepCounts
  <2>3. CASE ~Master
    <3>1. UNCHANGED <<pc, pending, late>>
      BY <2>3 DEF Next, Tick, AgentAnswers
    <3>2. StepsLeft' = StepsLeft
      BY <3>1 DEF StepsLeft, Ahead, FollowupCap
    <3>3. QED
      BY <2>1, <2>3, <3>2
  <2>4. QED
    BY <2>2, <2>3
<1>2. QED
  BY <1>1, TypeCorrect, StructureHolds, UntilCutoffHolds, PTL DEF Spec, StepsRunOut
=============================================================================
