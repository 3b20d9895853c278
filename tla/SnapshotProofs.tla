--------------------------- MODULE SnapshotProofs ---------------------------
(***************************************************************************)
(* Theorems about Snapshot for every choice of active and disabled         *)
(* specialists, both platforms and any number of delivery retries.         *)
(***************************************************************************)
EXTENDS Snapshot, TLAPS, FiniteSetTheorems

ProbeNames == {"config", "version", "nodes", "pods", "events", "clients", "groups",
               "volumes", "errors", "token", "auth", "channels", "guilds", "store", "count"}
Results == {"clear", "failed", "alarm", "nothing", "unfinished"}
Made == ProbeNames \X Results
Report == [alarms : SUBSET ProbeNames, marks : SUBSET ProbeNames]
Before == {"typed", "acked", "queued", "invoked", "collecting"}

\* The agents' parts of the state.
Types ==
    /\ active \subseteq Specialists /\ disabled \subseteq Specialists \ active
    /\ probed \in [active -> Seq(Made)] /\ report \in [active -> Report]
    /\ answer \in [active -> {"none", "report", "footerless", "raised"}]

\* A capture makes its probes in their order, and a token it cannot read is the
\* last thing it meets.
InOrder(a) ==
    /\ Len(probed[a]) <= Len(Probes[a])
    /\ \A n \in 1..Len(probed[a]) :
         /\ probed[a][n][1] = Probes[a][n]
         /\ probed[a][n] = <<"token", "failed">> => Len(probed[a]) = 1

\* What the probes met is in the report.
InReport(a) ==
    \A n \in 1..Len(probed[a]) :
      LET p == probed[a][n][1]  o == probed[a][n][2] IN
      /\ o = "alarm" => p \in report[a].alarms
      /\ o = "failed" /\ p \notin {"token", "count"} => p \in report[a].marks

\* A report is that of a capture that came to its end, with the token it needs.
InAnswer(a) ==
    answer[a] = "report" => Finished(a) /\ probed[a] # <<<<"token", "failed">>>>

\* Nothing is shown before the harvest, then what the agents had sent by then.
Composed == [a \in active \cup disabled |-> BlockOf(a)]
Shown ==
    /\ phase \in Before => blocks = <<>>
    /\ phase \in {"composed", "posted"} => blocks = Composed
    /\ phase \notin Before => blocks \in {<<>>, Composed}

Inv ==
    /\ Types /\ Shown
    /\ \A a \in active : InOrder(a) /\ InReport(a) /\ InAnswer(a)

-----------------------------------------------------------------------------
(* The probes of each specialist.                                            *)

LEMMA ProbesAre ==
    ASSUME NEW a \in Specialists
    PROVE  /\ Len(Probes[a]) \in Nat
           /\ \A n \in 1..Len(Probes[a]) :
                Probes[a][n] \in ProbeNames /\ (Probes[a][n] = "token" => n = 1)
<1> USE DEF ProbeNames
<1>1. CASE a = "eks"
  BY <1>1 DEF Probes, EksProbes
<1>2. CASE a = "cloudwatch_logs"
  BY <1>2 DEF Probes, LogsProbes
<1>3. CASE a = "slack_scanner"
  BY <1>3 DEF Probes, SlackProbes
<1>4. CASE a = "discord_scanner"
  BY <1>4 DEF Probes, DiscordProbes
<1>5. CASE a = "incident_history"
  BY <1>5 DEF Probes, HistoryProbes
<1>6. CASE a = "prometheus"
  BY <1>6 DEF Probes
<1>7. QED
  BY <1>1, <1>2, <1>3, <1>4, <1>5, <1>6 DEF Specialists

LEMMA OutcomesAre == \A p : Outcomes(p) \subseteq Results
BY DEF Outcomes, Results

LEMMA SingleElement ==
    ASSUME NEW S, NEW s \in Seq(S), NEW x, Len(s) = 1, s[1] = x
    PROVE  s = <<x>>
<1>1. <<x>> \in Seq(S) /\ Len(<<x>>) = 1 /\ <<x>>[1] = x
  <2>1. x \in S
    OBVIOUS
  <2>2. QED
    BY <2>1
<1>2. DOMAIN s = 1..1 /\ DOMAIN <<x>> = 1..1 /\ \A i \in 1..1 : s[i] = <<x>>[i]
  BY <1>1
<1>3. QED
  BY <1>1, <1>2

LEMMA SpecialistsAreFinite == IsFiniteSet(Specialists)
<1>1. /\ IsFiniteSet({"slack_scanner"}) /\ IsFiniteSet({"discord_scanner"})
      /\ IsFiniteSet({"cloudwatch_logs"}) /\ IsFiniteSet({"eks"})
      /\ IsFiniteSet({"prometheus"}) /\ IsFiniteSet({"incident_history"})
  BY FS_Singleton
<1>2. IsFiniteSet(({"slack_scanner"} \cup {"discord_scanner"}) \cup {"cloudwatch_logs"})
  BY <1>1, FS_Union
<1>3. IsFiniteSet(({"eks"} \cup {"prometheus"}) \cup {"incident_history"})
  BY <1>1, FS_Union
<1>4. Specialists = (({"slack_scanner"} \cup {"discord_scanner"}) \cup {"cloudwatch_logs"})
                      \cup (({"eks"} \cup {"prometheus"}) \cup {"incident_history"})
  BY DEF Specialists
<1>5. QED
  BY <1>2, <1>3, <1>4, FS_Union

-----------------------------------------------------------------------------
(* The steps of a specialist.                                                *)

LEMMA InitHolds == Init => Inv
<1> SUFFICES ASSUME Init
             PROVE  Inv
  OBVIOUS
<1>1. active \subseteq Specialists /\ disabled \subseteq Specialists \ active
  BY DEF Init
<1>2. probed = [a \in active |-> <<>>] /\ <<>> \in Seq(Made)
  BY DEF Init
<1>3. report = [a \in active |-> Blank] /\ Blank \in Report
  BY DEF Init, Blank, Report
<1>4. Types
  BY <1>1, <1>2, <1>3 DEF Types, Init
<1>5. Shown
  BY DEF Shown, Before, Init
<1>6. ASSUME NEW a \in active
      PROVE  InOrder(a) /\ InReport(a) /\ InAnswer(a)
  <2>1. probed[a] = <<>> /\ answer[a] = "none" /\ Len(Probes[a]) \in Nat
    BY <1>1, <1>2, ProbesAre DEF Init
  <2>2. QED
    BY <2>1 DEF InOrder, InReport, InAnswer
<1>7. QED
  BY <1>4, <1>5, <1>6 DEF Inv

\* A probe adds what it met to the report of its agent, and leaves the other agents'.
LEMMA ProbeHolds ==
    ASSUME Inv, NEW a \in active, Probe(a)
    PROVE  Inv'
<1> DEFINE k == Len(probed[a]) + 1
           p == Probes[a][k]
<1>1. PICK o \in Outcomes(p) :
        /\ probed' = [probed EXCEPT ![a] = Append(@, <<p, o>>)]
        /\ report' = [report EXCEPT ![a] = Fold(@, p, o)]
  BY DEF Probe
<1>2. /\ active \subseteq Specialists /\ probed[a] \in Seq(Made) /\ Len(probed[a]) \in Nat
      /\ report[a] \in Report /\ Len(probed[a]) <= Len(Probes[a])
  BY DEF Inv, Types, InOrder
<1>3. ~Finished(a) /\ Probes[a] # <<>> /\ phase = "collecting" /\ answer[a] = "none"
      /\ UNCHANGED <<active, disabled, phase, answer, blocks>>
  BY DEF Probe, Open, setting
<1>4. Len(Probes[a]) \in Nat /\ k \in 1..Len(Probes[a])
  <2>1. Len(Probes[a]) \in Nat \ {0}
    BY <1>2, <1>3, ProbesAre DEF Probes, EksProbes, LogsProbes, SlackProbes, DiscordProbes,
         HistoryProbes, Specialists
  <2>2. CASE probed[a] = <<>>
    BY <2>1, <2>2
  <2>3. CASE probed[a] # <<>>
    BY <1>2, <1>3, <2>1, <2>3 DEF Finished
  <2>4. QED
    BY <2>2, <2>3
<1>5. p \in ProbeNames /\ (p = "token" => k = 1) /\ o \in Results
  BY <1>2, <1>4, ProbesAre, OutcomesAre
<1>6. /\ probed'[a] = Append(probed[a], <<p, o>>) /\ Append(probed[a], <<p, o>>) \in Seq(Made)
      /\ report'[a] = Fold(report[a], p, o) /\ Fold(report[a], p, o) \in Report
  BY <1>1, <1>2, <1>5 DEF Inv, Types, Made, Fold, Report
<1>7. \A b \in active \ {a} : probed'[b] = probed[b] /\ report'[b] = report[b]
  BY <1>1 DEF Inv, Types
<1>8. Types'
  BY <1>1, <1>3, <1>6 DEF Inv, Types
<1>9. /\ Len(probed'[a]) = k /\ probed'[a][k] = <<p, o>>
      /\ \A n \in 1..Len(probed[a]) : probed'[a][n] = probed[a][n]
      /\ \A n \in 1..k : n = k \/ n \in 1..Len(probed[a])
  BY <1>2, <1>6
<1>10. \A n \in 1..Len(probed[a]) : probed[a][n] # <<"token", "failed">>
  <2> SUFFICES ASSUME NEW n \in 1..Len(probed[a]), probed[a][n] = <<"token", "failed">>
               PROVE  FALSE
    OBVIOUS
  <2>1. Len(probed[a]) = 1 /\ n = 1
    BY <1>2 DEF Inv, InOrder
  <2>2. Finished(a)
    BY <1>2, <2>1 DEF Finished, Stops
  <2>3. QED
    BY <1>3, <2>2
<1> HIDE DEF k, p
<1>11. InOrder(a)'
  <2>1. ASSUME NEW n \in 1..k
        PROVE  /\ probed'[a][n][1] = Probes[a][n]
               /\ probed'[a][n] = <<"token", "failed">> => k = 1
    <3>1. CASE n = k
      BY <1>5, <1>9, <3>1 DEF p
    <3>2. CASE n # k
      BY <1>9, <1>10, <3>2 DEF Inv, InOrder
    <3>3. QED
      BY <3>1, <3>2
  <2>2. QED
    BY <1>4, <1>9, <2>1 DEF InOrder
<1>12. InReport(a)'
  <2>1. ASSUME NEW n \in 1..k
        PROVE  /\ probed'[a][n][2] = "alarm" => probed'[a][n][1] \in report'[a].alarms
               /\ probed'[a][n][2] = "failed" /\ probed'[a][n][1] \notin {"token", "count"}
                    => probed'[a][n][1] \in report'[a].marks
    <3>1. CASE n = k
      BY <1>6, <1>9, <3>1 DEF Fold
    <3>2. CASE n # k
      BY <1>6, <1>9, <3>2 DEF Inv, InReport, Fold
    <3>3. QED
      BY <3>1, <3>2
  <2>2. QED
    BY <1>9, <2>1 DEF InReport
<1>13. InAnswer(a)'
  BY <1>3 DEF InAnswer
<1>14. \A b \in active \ {a} : InOrder(b)' /\ InReport(b)' /\ InAnswer(b)'
  BY <1>3, <1>7 DEF Inv, InOrder, InReport, InAnswer, Finished
<1>15. Shown'
  BY <1>3 DEF Inv, Shown, Before
<1>16. QED
  BY <1>3, <1>8, <1>11, <1>12, <1>13, <1>14, <1>15 DEF Inv

\* An answer is a report only when the capture is over.
LEMMA AnswerHolds ==
    ASSUME Inv, NEW a \in active, Reply(a) \/ Fails(a)
    PROVE  Inv'
<1>1. /\ phase = "collecting"
      /\ UNCHANGED <<active, disabled, phase, blocks, probed, report>>
      /\ \E how \in {"report", "footerless", "raised"} :
           /\ answer' = [answer EXCEPT ![a] = how]
           /\ how = "report" => Finished(a) /\ probed[a] # <<<<"token", "failed">>>>
  BY DEF Reply, Fails, Open, setting
<1>2. Types' /\ Shown'
  BY <1>1 DEF Inv, Types, Shown, Before
<1>3. ASSUME NEW b \in active
      PROVE  InOrder(b)' /\ InReport(b)' /\ InAnswer(b)'
  <2>1. InOrder(b)' /\ InReport(b)'
    BY <1>1 DEF Inv, InOrder, InReport
  <2>2. InAnswer(b)'
    BY <1>1 DEF Inv, Types, InAnswer, Finished
  <2>3. QED
    BY <2>1, <2>2
<1>4. QED
  BY <1>1, <1>2, <1>3 DEF Inv

\* The command's and the master's steps leave the agents alone.
LEMMA MasterHolds ==
    ASSUME Inv, Master \/ Crash \/ UNCHANGED vars
    PROVE  Inv'
<1>1. UNCHANGED <<active, disabled, probed, report, answer>>
  BY DEF Master, Ack, Status, RunTask, Capture, Cutoff, Harvest, Deliver, Crash, vars,
         agents, setting
<1>2. Types' /\ \A a \in active : InOrder(a)' /\ InReport(a)' /\ InAnswer(a)'
  BY <1>1 DEF Inv, Types, InOrder, InReport, InAnswer, Finished
<1>3. Composed' = Composed
  BY <1>1 DEF Composed, BlockOf
<1>4. Shown'
  <2>1. CASE Harvest
    BY <1>3, <2>1 DEF Harvest, Accounted, Shown, Composed, Before
  <2>2. CASE ~Harvest
    BY <1>3, <2>2 DEF Inv, Shown, Before, Master, Ack, Status, RunTask, Capture, Cutoff,
       Deliver, Crash, Lose, vars
  <2>3. QED
    BY <2>1, <2>2
<1>5. QED
  BY <1>1, <1>2, <1>4 DEF Inv

LEMMA Inductive == Inv /\ [Next]_vars => Inv'
BY ProbeHolds, AnswerHolds, MasterHolds DEF Next

-----------------------------------------------------------------------------
(* What the snapshot shows.                                                  *)

LEMMA ShownAreComposed == Inv /\ blocks # <<>> => blocks = Composed
BY DEF Inv, Shown, Before

\* An ended capture with its token that made not all probes met nothing to look at, or
\* marks the probe that ended it.
LEMMA StoppedSaysWhy ==
    ASSUME Inv, NEW a \in active, answer[a] = "report", Len(probed[a]) < Len(Probes[a])
    PROVE  \/ report[a].marks # {}
           \/ \E n \in DOMAIN probed[a] : probed[a][n][2] = "nothing"
<1> DEFINE k == Len(probed[a])
<1>1. Finished(a) /\ probed[a] # <<<<"token", "failed">>>> /\ probed[a] \in Seq(Made)
  BY DEF Inv, InAnswer, Types
<1>2. k \in Nat \ {0} /\ k \in 1..k /\ k \in DOMAIN probed[a] /\ probed[a][k] \in Made
  BY <1>1 DEF Finished
<1>3. Len(probed[a]) # Len(Probes[a])
  BY <1>2, ProbesAre DEF Inv, Types
<1>4. Stops(probed[a][k][1], probed[a][k][2])
  BY <1>1, <1>3 DEF Finished
<1>5. CASE probed[a][k][2] = "nothing"
  BY <1>2, <1>5
<1>6. CASE probed[a][k][2] = "failed" /\ probed[a][k][1] \notin {"token", "count"}
  BY <1>2, <1>6 DEF Inv, InReport
<1>7. CASE probed[a][k] = <<"token", "failed">>
  <2>1. k = 1
    BY <1>2, <1>7 DEF Inv, InOrder
  <2>2. probed[a] = <<<<"token", "failed">>>>
    BY <1>1, <1>7, <2>1, SingleElement
  <2>3. QED
    BY <1>1, <2>2
<1>8. QED
  BY <1>2, <1>4, <1>5, <1>6, <1>7 DEF Stops, Made

LEMMA NoAlarmIsLost == Inv => NoFalseAllClear
<1> SUFFICES ASSUME Inv, NEW a \in DOMAIN blocks \ disabled, blocks[a].status # "error"
             PROVE  LET shows == blocks[a].shows
                        made == {probed[a][n] : n \in DOMAIN probed[a]}
                    IN  /\ \A m \in made :
                             /\ m[2] = "alarm" => m[1] \in shows.alarms
                             /\ m[2] = "failed" /\ m[1] # "count" => m[1] \in shows.marks
                        /\ (blocks[a].status = "ok") = (shows.alarms = {})
                        /\ Len(probed[a]) < Len(Probes[a]) =>
                             shows.marks # {} \/ \E m \in made : m[2] = "nothing"
  BY DEF NoFalseAllClear
<1>1. blocks = Composed
  BY ShownAreComposed
<1>2. a \in active /\ blocks[a] = BlockOf(a)
  BY <1>1 DEF Composed
<1>3. answer[a] = "report" /\ blocks[a].shows = report[a]
      /\ blocks[a].status = IF report[a].alarms # {} THEN "anomaly" ELSE "ok"
  BY <1>2 DEF BlockOf
<1>4. DOMAIN probed[a] = 1..Len(probed[a]) /\ Len(probed[a]) \in Nat /\ probed[a] \in Seq(Made)
  BY <1>2 DEF Inv, Types
<1>5. ASSUME NEW n \in DOMAIN probed[a]
      PROVE  /\ probed[a][n][2] = "alarm" => probed[a][n][1] \in report[a].alarms
             /\ probed[a][n][2] = "failed" /\ probed[a][n][1] # "count"
                  => probed[a][n][1] \in report[a].marks
  <2>1. probed[a][n] # <<"token", "failed">>
    <3> SUFFICES ASSUME probed[a][n] = <<"token", "failed">>
                 PROVE  FALSE
      OBVIOUS
    <3>1. Len(probed[a]) = 1 /\ n = 1
      BY <1>2, <1>4 DEF Inv, InOrder
    <3>2. probed[a] = <<<<"token", "failed">>>>
      BY <1>4, <3>1, SingleElement
    <3>3. QED
      BY <1>2, <1>3, <3>2 DEF Inv, InAnswer
  <2>2. probed[a][n] \in Made
    BY <1>4
  <2>3. probed[a][n][2] = "failed" => probed[a][n][1] # "token"
    BY <2>1, <2>2 DEF Made
  <2>4. QED
    BY <1>2, <1>4, <2>3 DEF Inv, InReport
<1>6. Len(probed[a]) < Len(Probes[a]) =>
        \/ report[a].marks # {}
        \/ \E n \in DOMAIN probed[a] : probed[a][n][2] = "nothing"
  BY <1>2, <1>3, StoppedSaysWhy
<1>7. QED
  BY <1>3, <1>5, <1>6

LEMMA BlockIs ==
    ASSUME NEW a
    PROVE  /\ a \in disabled => BlockOf(a).status = "disabled"
           /\ a \notin disabled /\ answer[a] # "report" => BlockOf(a).status = "error"
           /\ a \notin disabled /\ answer[a] = "report" =>
                BlockOf(a).status \in {"ok", "anomaly"} /\ BlockOf(a).status # "error"
<1>1. CASE a \in disabled
  BY <1>1 DEF BlockOf
<1>2. CASE a \notin disabled /\ answer[a] # "report"
  BY <1>2 DEF BlockOf
<1>3. CASE a \notin disabled /\ answer[a] = "report"
  <2>1. BlockOf(a).status = IF report[a].alarms # {} THEN "anomaly" ELSE "ok"
    BY <1>3 DEF BlockOf
  <2>2. QED
    BY <1>3, <2>1
<1>4. QED
  BY <1>1, <1>2, <1>3

LEMMA AllAreAccounted == Inv => EveryoneAccounted
<1> SUFFICES ASSUME Inv, phase \in {"composed", "posted"}
             PROVE  /\ DOMAIN blocks = active \cup disabled
                    /\ Attempted = 1 + Cardinality(active)
                    /\ Responded = 1 + Cardinality({a \in active : answer[a] = "report"})
  BY DEF EveryoneAccounted
<1> DEFINE Good == {a \in active : answer[a] = "report"}
           Bad == {a \in active : answer[a] # "report"}
<1>1. blocks = Composed /\ active \cap disabled = {}
  BY DEF Inv, Types, Shown
<1>2. DOMAIN blocks = active \cup disabled /\ \A a \in DOMAIN blocks : blocks[a] = BlockOf(a)
  BY <1>1 DEF Composed
<1>3. \A a \in active : blocks[a].status \in {"ok", "anomaly"} <=> answer[a] = "report"
  BY <1>1, <1>2, BlockIs
<1>4. \A a \in active : blocks[a].status = "error" <=> answer[a] # "report"
  BY <1>1, <1>2, BlockIs
<1>5. \A a \in disabled : blocks[a].status = "disabled"
  BY <1>2, BlockIs
<1>6. {a \in DOMAIN blocks : blocks[a].status \in {"ok", "anomaly"}} = Good
  BY <1>2, <1>3, <1>5
<1>7. {a \in DOMAIN blocks : blocks[a].status = "error"} = Bad
  BY <1>2, <1>4, <1>5
<1>8. IsFiniteSet(active) /\ Good \in SUBSET active /\ Bad \in SUBSET active
      /\ Good \cup Bad = active /\ Good \cap Bad = {}
  BY SpecialistsAreFinite, FS_Subset DEF Inv, Types
<1> HIDE DEF Good, Bad
<1>9. IsFiniteSet(Good) /\ IsFiniteSet(Bad)
  BY <1>8, FS_Subset
<1>10. Cardinality(Good) \in Nat /\ Cardinality(Bad) \in Nat
  BY <1>9, FS_CardinalityType
<1>11. Cardinality(active) = Cardinality(Good) + Cardinality(Bad)
  <2>1. Cardinality(Good \cup Bad)
          = Cardinality(Good) + Cardinality(Bad) - Cardinality(Good \cap Bad)
    BY <1>9, FS_Union
  <2>2. Cardinality(Good \cap Bad) = 0
    BY <1>8, FS_EmptySet
  <2>3. Cardinality(active) = Cardinality(Good \cup Bad)
    BY <1>8, Zenon
  <2>4. QED
    BY <1>10, <2>1, <2>2, <2>3
<1>12. Responded = 1 + Cardinality(Good)
  BY <1>6 DEF Responded
<1>13. Attempted = Responded + Cardinality(Bad)
  BY <1>7 DEF Attempted
<1>14. QED
  BY <1>2, <1>10, <1>11, <1>12, <1>13 DEF Good

\* The state of the probes, the reports and the answers agree (capture_snapshot), and
\* the blocks are what the agents had sent by the harvest (_block_from_report).
THEOREM Captures == Spec => []Inv
<1>1. QED
  BY InitHolds, Inductive, PTL DEF Spec

\* Of an agent that reported, the snapshot names every anomaly its probes met and
\* marks every probe that failed; a capture that left out a probe says why.
THEOREM NothingIsGlossedOver == Spec => []NoFalseAllClear
<1>1. QED
  BY Captures, NoAlarmIsLost, PTL

\* Every active and every disabled specialist has its block, and the summary line
\* counts them (_build_summary_line), whoever was silent, failed or was disabled.
THEOREM EveryoneIsAccounted == Spec => []EveryoneAccounted
<1>1. QED
  BY Captures, AllAreAccounted, PTL
=============================================================================
