------------------------- MODULE MasterRuntimeProofs -------------------------
(***************************************************************************)
(* Theorems about MasterRuntime for every set of requests, every number of *)
(* retries and every number of decision calls.                             *)
(***************************************************************************)
EXTENDS MasterRuntime, TLAPS

USE RuntimeAssumption DEF Is

Phases == Live \cup {"waiting", "aborted", "done", "died", "reclaimed", "crashed"}

-----------------------------------------------------------------------------
(* What a step does to the phase and to the deliveries of one request, and   *)
(* that it does nothing to those of another.                                 *)

LEMMA GoToEffect ==
    ASSUME phase \in [Requests -> Phases], NEW r \in Requests, NEW p \in Phases, GoTo(r, p)
    PROVE  /\ phase' \in [Requests -> Phases] /\ phase'[r] = p
           /\ \A q \in Requests \ {r} : phase'[q] = phase[q]
BY DEF GoTo

LEMMA Becomes ==
    ASSUME job \in [Requests -> [Jobs -> Job]], NEW r \in Requests, NEW k \in Jobs,
           NEW new \in Job, job' = [job EXCEPT ![r][k] = new]
    PROVE  /\ job' \in [Requests -> [Jobs -> Job]] /\ job'[r][k] = new
           /\ \A j \in Jobs \ {k} : job'[r][j] = job[r][j]
           /\ \A q \in Requests \ {r} : job'[q] = job[q]
<1>1. job[r] \in [Jobs -> Job]
  OBVIOUS
<1>2. [job[r] EXCEPT ![k] = new] \in [Jobs -> Job]
  BY <1>1
<1>3. job' = [job EXCEPT ![r] = [job[r] EXCEPT ![k] = new]]
  OBVIOUS
<1>4. QED
  BY <1>1, <1>2, <1>3

LEMMA SendEffect ==
    ASSUME job \in [Requests -> [Jobs -> Job]], NEW r \in Requests, NEW k \in Jobs, Send(r, k)
    PROVE  /\ job' \in [Requests -> [Jobs -> Job]]
           /\ job'[r][k].state = "sending" /\ job'[r][k].failed = job[r][k].failed
           /\ \A j \in Jobs \ {k} : job'[r][j] = job[r][j]
           /\ \A q \in Requests \ {r} : job'[q] = job[q]
<1> DEFINE new == [job[r][k] EXCEPT !.state = "sending"]
<1>1. new \in Job /\ new.state = "sending" /\ new.failed = job[r][k].failed
  BY DEF Job
<1>2. job' = [job EXCEPT ![r][k] = new]
  BY DEF Send
<1> HIDE DEF new
<1>3. QED
  BY <1>1, <1>2, Becomes

LEMMA AttemptEffect ==
    ASSUME job \in [Requests -> [Jobs -> Job]], NEW r \in Requests, NEW k \in Jobs,
           Attempt(r, k), job[r][k].failed < Limit(r, k)
    PROVE  /\ job' \in [Requests -> [Jobs -> Job]]
           /\ \A j \in Jobs \ {k} : job'[r][j] = job[r][j]
           /\ \A q \in Requests \ {r} : job'[q] = job[q]
           /\ \/ job'[r][k].state = "ok" /\ job'[r][k].shown
              \/ job'[r][k].state = "sending" /\ job'[r][k].failed < Limit(r, k)
              \/ job'[r][k].state = "raised" /\ job'[r][k].failed = Limit(r, k)
<1> DEFINE sent == job[r][k]
           failed == sent.failed + 1
           retried == IF failed < Limit(r, k) THEN "sending" ELSE "raised"
           OkJob == [sent EXCEPT !.state = "ok", !.shown = TRUE]
           FailedJob(p) == [state |-> retried, failed |-> failed, shown |-> sent.shown \/ p]
<1>1. Limit(r, k) \in Nat /\ Limit(r, k) <= MaxRetries + 1
  BY DEF Limit
<1>2. sent \in Job
  OBVIOUS
<1>3. OkJob \in Job /\ OkJob.state = "ok" /\ OkJob.shown
  BY <1>2 DEF Job
<1>4. ASSUME NEW p \in BOOLEAN
      PROVE  FailedJob(p) \in Job
  <2>1. failed \in 0..(MaxRetries + 1)
    BY <1>1, <1>2 DEF Job
  <2>2. (sent.shown \/ p) \in BOOLEAN
    OBVIOUS
  <2> HIDE DEF sent
  <2>3. QED
    BY <2>1, <2>2 DEF Job
<1>5. ASSUME NEW p \in BOOLEAN
      PROVE  \/ FailedJob(p).state = "sending" /\ FailedJob(p).failed < Limit(r, k)
             \/ FailedJob(p).state = "raised" /\ FailedJob(p).failed = Limit(r, k)
  BY <1>1, <1>2 DEF Job
<1>6. CASE job' = [job EXCEPT ![r][k] = OkJob]
  <2> HIDE DEF OkJob
  <2>1. QED
    BY <1>3, <1>6, Becomes
<1>7. ASSUME NEW p \in BOOLEAN, job' = [job EXCEPT ![r][k] = FailedJob(p)]
      PROVE  /\ job' \in [Requests -> [Jobs -> Job]]
             /\ \A j \in Jobs \ {k} : job'[r][j] = job[r][j]
             /\ \A q \in Requests \ {r} : job'[q] = job[q]
             /\ \/ job'[r][k].state = "sending" /\ job'[r][k].failed < Limit(r, k)
                \/ job'[r][k].state = "raised" /\ job'[r][k].failed = Limit(r, k)
  <2> HIDE DEF FailedJob
  <2>1. /\ job' \in [Requests -> [Jobs -> Job]] /\ job'[r][k] = FailedJob(p)
        /\ \A j \in Jobs \ {k} : job'[r][j] = job[r][j]
        /\ \A q \in Requests \ {r} : job'[q] = job[q]
    BY <1>4, <1>7, Becomes
  <2>2. QED
    BY <1>5, <2>1
<1>8. \/ job' = [job EXCEPT ![r][k] = OkJob]
      \/ \E p \in BOOLEAN : job' = [job EXCEPT ![r][k] = FailedJob(p)]
  BY DEF Attempt
<1>9. QED
  BY <1>6, <1>7, <1>8

-----------------------------------------------------------------------------
(* What has been said by when: the invariant behind the notices.             *)

\* A delivery goes on only below its limit; one that succeeded was seen; one that
\* gave up used all of its attempts.
Honest(r) ==
    \A k \in Jobs :
        /\ job[r][k].state = "sending" => job[r][k].failed < Limit(r, k)
        /\ job[r][k].state = "ok" => job[r][k].shown
        /\ job[r][k].state = "raised" => job[r][k].failed = Limit(r, k)
        /\ job[r][k].state = "idle" => job[r][k].failed = 0

Main(r) == job[r]["main"].state
Notice(r) == job[r]["notice"].state

\* Who sends when: the report while its task is posting, the notice of a review while
\* its task waits for it, that of a dead investigation after its end.
Staged(r) ==
    /\ phase[r] \in {"waiting", "created", "working", "fanned", "aborted"}
         => Main(r) = "idle" /\ Notice(r) = "idle"
    /\ phase[r] = "posting" => Main(r) \in {"sending", "ok", "raised"} /\ Notice(r) = "idle"
    /\ Main(r) = "sending" => phase[r] = "posting"
    /\ phase[r] = "after" => /\ Main(r) \in {"ok", "raised"} /\ Notice(r) = "idle"
                             /\ Is(r, "pir") => Main(r) = "ok"
    /\ phase[r] = "notifying" => /\ Is(r, "pir") /\ Main(r) \in {"idle", "raised"}
                                 /\ Notice(r) \in {"sending", "ok", "raised"}
    /\ phase[r] = "done" => IF Is(r, "pir")
                            THEN Main(r) = "ok" \/ Notice(r) \in {"ok", "raised"}
                            ELSE Main(r) \in {"ok", "raised"}
    /\ phase[r] = "died" /\ Is(r, "investigate") =>
         Notice(r) \in {"sending", "ok", "raised", "lost"}
    /\ Is(r, "pir") /\ Main(r) = "ok" => Notice(r) = "idle"

Deliveries == /\ kind \in [Requests -> Kinds]
              /\ phase \in [Requests -> Phases]
              /\ job \in [Requests -> [Jobs -> Job]]
              /\ \A r \in Requests : Honest(r) /\ Staged(r)

\* A step that keeps the records in their type and its own request in order keeps
\* the others in order.
LEMMA OthersKeep ==
    ASSUME Deliveries, NEW r \in Requests, kind' = kind,
           phase' \in [Requests -> Phases], job' \in [Requests -> [Jobs -> Job]],
           \A q \in Requests \ {r} : phase'[q] = phase[q] /\ job'[q] = job[q],
           Honest(r)', Staged(r)'
    PROVE  Deliveries'
<1>1. ASSUME NEW q \in Requests \ {r}
      PROVE  Honest(q)' /\ Staged(q)'
  BY <1>1 DEF Deliveries, Honest, Staged, Main, Notice, Limit
<1>2. QED
  BY <1>1 DEF Deliveries

\* A step that leaves the deliveries of r as they are leaves them honest.
LEMMA HonestKeeps ==
    ASSUME Deliveries, NEW r \in Requests, kind' = kind, job' = job
    PROVE  Honest(r)'
BY DEF Deliveries, Honest, Limit

\* A step that starts a delivery of r that was idle leaves them honest.
LEMMA HonestSends ==
    ASSUME Deliveries, NEW r \in Requests, NEW k \in Jobs, kind' = kind,
           job[r][k].state = "idle", Send(r, k)
    PROVE  Honest(r)'
<1>1. job \in [Requests -> [Jobs -> Job]]
  BY DEF Deliveries
<1>2. /\ job'[r][k].state = "sending" /\ job'[r][k].failed = job[r][k].failed
      /\ \A j \in Jobs \ {k} : job'[r][j] = job[r][j]
  BY <1>1, SendEffect
<1>3. job[r][k].failed = 0 /\ 0 < Limit(r, k)
  BY DEF Deliveries, Honest, Limit
<1>4. QED
  BY <1>2, <1>3 DEF Deliveries, Honest, Limit

LEMMA DeliveriesInit == Init => Deliveries
<1> SUFFICES ASSUME Init
             PROVE  Deliveries
  OBVIOUS
<1>1. Idle \in Job /\ Idle.state = "idle" /\ Idle.failed = 0
  BY DEF Idle, Job
<1>2. \A r \in Requests, k \in Jobs : job[r][k] = Idle
  BY DEF Init
<1>3. job \in [Requests -> [Jobs -> Job]]
  BY <1>1 DEF Init
<1>4. phase \in [Requests -> Phases] /\ \A r \in Requests : phase[r] = "waiting"
  BY DEF Init, Phases
<1>5. ASSUME NEW r \in Requests
      PROVE  Honest(r) /\ Staged(r)
  BY <1>1, <1>2, <1>4 DEF Honest, Staged, Main, Notice, Jobs
<1>6. QED
  BY <1>3, <1>4, <1>5 DEF Init, Deliveries

\* A step that moves r to another phase and touches no delivery.
LEMMA MovesOn ==
    ASSUME Deliveries, NEW r \in Requests, NEW p \in Phases, GoTo(r, p),
           kind' = kind, job' = job, Staged(r)'
    PROVE  Deliveries'
<1>1. Honest(r)'
  BY HonestKeeps
<1>2. /\ phase' \in [Requests -> Phases]
      /\ \A q \in Requests \ {r} : phase'[q] = phase[q]
  BY GoToEffect DEF Deliveries
<1>3. QED
  BY <1>1, <1>2, OthersKeep DEF Deliveries

\* A step that moves r to another phase and starts one of its deliveries.
LEMMA MovesAndSends ==
    ASSUME Deliveries, NEW r \in Requests, NEW p \in Phases, NEW k \in Jobs, GoTo(r, p),
           kind' = kind, job[r][k].state = "idle", Send(r, k),
           phase'[r] = p /\ job'[r][k].state = "sending"
             /\ (\A j \in Jobs \ {k} : job'[r][j] = job[r][j]) => Staged(r)'
    PROVE  Deliveries'
<1>1. Honest(r)'
  BY HonestSends
<1>2. /\ phase' \in [Requests -> Phases] /\ phase'[r] = p
      /\ \A q \in Requests \ {r} : phase'[q] = phase[q]
  BY GoToEffect DEF Deliveries
<1>3. /\ job' \in [Requests -> [Jobs -> Job]] /\ job'[r][k].state = "sending"
      /\ \A j \in Jobs \ {k} : job'[r][j] = job[r][j]
      /\ \A q \in Requests \ {r} : job'[q] = job[q]
  BY SendEffect DEF Deliveries
<1>4. QED
  BY <1>1, <1>2, <1>3, OthersKeep

\* What is lost of a delivery is its end.
LEMMA LostRecord ==
    ASSUME NEW j \in Job
    PROVE  /\ [j EXCEPT !.state = "lost"].state = "lost"
           /\ [j EXCEPT !.state = "lost"].failed = j.failed
BY DEF Job

LEMMA DeliveriesStep == Deliveries /\ [Next]_vars => Deliveries'
<1> SUFFICES ASSUME Deliveries, [Next]_vars
             PROVE  Deliveries'
  OBVIOUS
<1> USE DEF Live, Jobs, Phases
<1>a. phase \in [Requests -> Phases] /\ \A r \in Requests : Staged(r) /\ Honest(r)
  BY DEF Deliveries
<1>b. ASSUME NEW r \in Requests, NEW p \in Phases, GoTo(r, p)
      PROVE  phase'[r] = p
  BY <1>a, <1>b, GoToEffect
<1>1. ASSUME NEW r \in Requests, Invoke(r)
      PROVE  Deliveries'
  <2>1. PICK p \in {"created", "aborted"} : GoTo(r, p)
    BY <1>1 DEF Invoke
  <2>2. Staged(r)'
    BY <1>1, <1>a, <1>b, <2>1 DEF Invoke, Staged, Main, Notice
  <2>3. QED
    BY <1>1, <2>1, <2>2, MovesOn DEF Invoke
<1>2. ASSUME NEW r \in Requests, Begin(r)
      PROVE  Deliveries'
  <2>1. Staged(r)'
    BY <1>2, <1>a, <1>b DEF Begin, Staged, Main, Notice
  <2>2. QED
    BY <1>2, <2>1, MovesOn DEF Begin
<1>3. ASSUME NEW r \in Requests, Decide(r)
      PROVE  Deliveries'
  BY <1>3 DEF Decide, Deliveries, Honest, Staged, Main, Notice, Limit
<1>4. ASSUME NEW r \in Requests, Fan(r)
      PROVE  Deliveries'
  <2>1. Staged(r)'
    BY <1>4, <1>a, <1>b DEF Fan, Staged, Main, Notice
  <2>2. QED
    BY <1>4, <2>1, MovesOn DEF Fan
<1>5. ASSUME NEW r \in Requests, Post(r)
      PROVE  Deliveries'
  <2>1. /\ phase[r] \in {"working", "fanned"} /\ kind' = kind
        /\ GoTo(r, "posting") /\ Send(r, "main")
    BY <1>5 DEF Post
  <2>2. Main(r) = "idle" /\ Notice(r) = "idle"
    BY <1>a, <2>1 DEF Staged
  <2>3. QED
    BY <2>1, <2>2, MovesAndSends DEF Staged, Main, Notice
<1>6. ASSUME NEW r \in Requests, Posted(r)
      PROVE  Deliveries'
  <2>1. phase[r] = "posting" /\ Main(r) \in {"ok", "raised"} /\ Notice(r) = "idle" /\ kind' = kind
    BY <1>6, <1>a DEF Posted, Staged, Main
  <2>2. CASE GoTo(r, "notifying") /\ Send(r, "notice") /\ Is(r, "pir") /\ Main(r) = "raised"
    BY <2>1, <2>2, MovesAndSends DEF Staged, Main, Notice
  <2>3. ASSUME NEW p \in {"after", "done"}, GoTo(r, p), job' = job,
               Is(r, "pir") => p = "after" /\ Main(r) = "ok"
        PROVE  Deliveries'
    <3>1. Staged(r)'
      BY <1>b, <2>1, <2>3 DEF Staged, Main, Notice
    <3>2. QED
      BY <2>1, <2>3, <3>1, MovesOn
  <2>4. CASE Is(r, "investigate")
    BY <1>6, <2>3, <2>4 DEF Posted
  <2>5. CASE Is(r, "snapshot")
    BY <1>6, <2>3, <2>5 DEF Posted
  <2>6. CASE Is(r, "pir")
    BY <1>6, <2>1, <2>2, <2>3, <2>6 DEF Posted, Main
  <2>7. kind[r] \in Kinds
    BY DEF Deliveries
  <2>8. QED
    BY <2>4, <2>5, <2>6, <2>7 DEF Kinds
<1>7. ASSUME NEW r \in Requests, Miss(r)
      PROVE  Deliveries'
  <2>1. /\ phase[r] = "working" /\ Is(r, "pir") /\ kind' = kind
        /\ GoTo(r, "notifying") /\ Send(r, "notice")
    BY <1>7 DEF Miss
  <2>2. Main(r) = "idle" /\ Notice(r) = "idle"
    BY <1>a, <2>1 DEF Staged
  <2>3. QED
    BY <2>1, <2>2, MovesAndSends DEF Staged, Main, Notice
<1>8. ASSUME NEW r \in Requests, Reviewed(r)
      PROVE  Deliveries'
  <2>1. Staged(r)'
    BY <1>8, <1>a, <1>b DEF Reviewed, ClosePage, Staged, Main, Notice
  <2>2. QED
    BY <1>8, <2>1, MovesOn DEF Reviewed, ClosePage
<1>9. ASSUME NEW r \in Requests, Notified(r)
      PROVE  Deliveries'
  <2>1. Staged(r)'
    BY <1>9, <1>a, <1>b DEF Notified, Staged, Main, Notice
  <2>2. QED
    BY <1>9, <2>1, MovesOn DEF Notified
<1>10. ASSUME NEW r \in Requests, Finish(r)
       PROVE  Deliveries'
  <2>1. Staged(r)'
    BY <1>10, <1>a, <1>b DEF Finish, Staged, Main, Notice
  <2>2. QED
    BY <1>10, <2>1, MovesOn DEF Finish
<1>11. ASSUME NEW r \in Requests, Raise(r)
       PROVE  Deliveries'
  <2>1. GoTo(r, "died") /\ kind' = kind
    BY <1>11 DEF Raise
  <2>2. CASE Is(r, "investigate")
    <3>1. phase[r] \in {"working", "fanned", "after"} /\ Send(r, "notice")
      BY <1>11, <2>2 DEF Raise, Dies
    <3>2. Main(r) \in {"idle", "ok", "raised"} /\ Notice(r) = "idle"
      BY <1>a, <3>1 DEF Staged
    <3>3. QED
      BY <2>1, <2>2, <3>1, <3>2, MovesAndSends DEF Staged, Main, Notice
  <2>3. CASE Is(r, "snapshot")
    <3>1. Staged(r)'
      BY <1>11, <1>a, <1>b, <2>3 DEF Raise, Dies, Staged, Main, Notice
    <3>2. QED
      BY <1>11, <2>1, <2>3, <3>1, MovesOn DEF Dies, Raise
  <2>4. QED
    BY <1>11, <2>2, <2>3 DEF Raise
<1>12. ASSUME NEW r \in Requests, NEW k \in Jobs, Attempt(r, k)
       PROVE  Deliveries'
  <2>1. job[r][k].state = "sending" /\ phase' = phase /\ kind' = kind
    BY <1>12 DEF Attempt
  <2>2. job[r][k].failed < Limit(r, k)
    BY <1>a, <2>1 DEF Honest
  <2>3. /\ job' \in [Requests -> [Jobs -> Job]]
        /\ \A j \in Jobs \ {k} : job'[r][j] = job[r][j]
        /\ \A q \in Requests \ {r} : job'[q] = job[q]
        /\ \/ job'[r][k].state = "ok" /\ job'[r][k].shown
           \/ job'[r][k].state = "sending" /\ job'[r][k].failed < Limit(r, k)
           \/ job'[r][k].state = "raised" /\ job'[r][k].failed = Limit(r, k)
    BY <1>12, <2>2, AttemptEffect DEF Deliveries
  <2>4. Honest(r)'
    BY <1>a, <2>1, <2>3 DEF Honest, Limit
  <2>5. Staged(r)'
    <3>1. CASE k = "main"
      BY <1>a, <2>1, <2>3, <3>1 DEF Staged, Main, Notice
    <3>2. CASE k = "notice"
      BY <1>a, <2>1, <2>3, <3>2 DEF Staged, Main, Notice
    <3>3. QED
      BY <3>1, <3>2
  <2>6. QED
    BY <1>a, <2>1, <2>3, <2>4, <2>5, OthersKeep
<1>13. ASSUME NEW label \in {"reclaimed", "crashed"}, Gone(label)
       PROVE  Deliveries'
  <2>1. phase' \in [Requests -> Phases] /\ kind' = kind
    BY <1>13, <1>a DEF Gone
  <2>2. ASSUME NEW r \in Requests, NEW k \in Jobs
        PROVE  /\ job'[r][k] = IF job[r][k].state = "sending"
                               THEN [job[r][k] EXCEPT !.state = "lost"] ELSE job[r][k]
               /\ job'[r][k] \in Job
    BY <1>13 DEF Gone, Deliveries, Job
  <2>3. job' \in [Requests -> [Jobs -> Job]]
    BY <1>13, <2>2 DEF Gone
  <2>4. ASSUME NEW r \in Requests, NEW k \in Jobs
        PROVE  /\ job'[r][k].state = IF job[r][k].state = "sending" THEN "lost"
                                                                 ELSE job[r][k].state
               /\ job'[r][k].failed = job[r][k].failed
               /\ job[r][k].state # "sending" => job'[r][k].shown = job[r][k].shown
    <3>1. job[r][k] \in Job
      BY DEF Deliveries
    <3>2. CASE job[r][k].state = "sending"
      <4>1. job'[r][k] = [job[r][k] EXCEPT !.state = "lost"]
        BY <2>2, <3>2
      <4>2. QED
        BY <3>1, <3>2, <4>1, LostRecord
    <3>3. CASE job[r][k].state # "sending"
      BY <2>2, <3>3
    <3>4. QED
      BY <3>2, <3>3
  <2>5. ASSUME NEW r \in Requests
        PROVE  Honest(r)' /\ Staged(r)'
    <3>1. Honest(r)'
      BY <1>a, <2>1, <2>4 DEF Honest, Limit
    <3>2. phase'[r] = IF phase[r] \in Live THEN label ELSE phase[r]
      BY <1>13 DEF Gone
    <3>3. Staged(r)'
      BY <1>a, <2>1, <2>4, <3>2 DEF Staged, Main, Notice
    <3>4. QED
      BY <3>1, <3>3
  <2>6. QED
    BY <2>1, <2>3, <2>5 DEF Deliveries
<1>14. CASE UNCHANGED vars
  BY <1>14 DEF vars, Deliveries, Honest, Staged, Main, Notice, Limit
<1>15. QED
  BY <1>1, <1>2, <1>3, <1>4, <1>5, <1>6, <1>7, <1>8, <1>9, <1>10, <1>11, <1>12, <1>13, <1>14
     DEF Next, Step, Reclaim, Crash

LEMMA DeliveriesHold == Spec => []Deliveries
BY DeliveriesInit, DeliveriesStep, PTL DEF Spec

\* Whatever an investigation or a review that is over did not say, the platform or
\* the end of the container kept it from saying.
THEOREM SilenceIsExplained == Spec => []SilenceExplained
<1>1. Deliveries => SilenceExplained
  <2> SUFFICES ASSUME Deliveries, NEW r \in Requests
               PROVE  /\ phase[r] = "done" =>
                           \/ Shown(r, "main")
                           \/ Refused(r, "main") /\ ~Is(r, "pir")
                           \/ Is(r, "pir") /\ (Shown(r, "notice") \/ Refused(r, "notice"))
                      /\ phase[r] = "died" /\ Is(r, "investigate") =>
                           \/ Shown(r, "main") \/ Shown(r, "notice") \/ Refused(r, "notice")
                           \/ job[r]["notice"].state \in {"sending", "lost"}
    BY DEF SilenceExplained
  <2>1. Honest(r) /\ Staged(r)
    BY DEF Deliveries
  <2>2. ASSUME NEW k \in Jobs
        PROVE  /\ job[r][k].state = "ok" => Shown(r, k)
               /\ job[r][k].state = "raised" => Refused(r, k)
    BY <2>1 DEF Honest, Shown, Refused
  <2>3. "main" \in Jobs /\ "notice" \in Jobs
    BY DEF Jobs
  <2>4. QED
    BY <2>1, <2>2, <2>3 DEF Staged, Main, Notice
<1>2. QED
  BY <1>1, DeliveriesHold, PTL

\* After a review that was posted nobody is told that it failed.
THEOREM NoticesAreTrue == Spec => []NoticeIsTrue
<1>1. Deliveries => NoticeIsTrue
  BY DEF Deliveries, Staged, Main, Notice, NoticeIsTrue
<1>2. QED
  BY <1>1, DeliveriesHold, PTL

-----------------------------------------------------------------------------
(* The busy state.                                                           *)

\* A task that has not ended is tracked.
Tracked == /\ phase \in [Requests -> Phases]
           /\ \A r \in Requests : phase[r] \in Live => r \in tracked
           /\ ReclaimSparesWork

\* No container is reclaimed with unfinished work.
THEOREM WorkIsSpared == Spec => []ReclaimSparesWork
<1> USE DEF Tracked, ReclaimSparesWork, Phases, Live
<1>1. Init => Tracked
  BY DEF Init
<1>2. Tracked /\ [Next]_vars => Tracked'
  <2> SUFFICES ASSUME Tracked, [Next]_vars
               PROVE  Tracked'
    OBVIOUS
  <2>1. ASSUME NEW r \in Requests, Invoke(r)
        PROVE  Tracked'
    BY <2>1 DEF Invoke, GoTo
  <2>2. ASSUME NEW r \in Requests, Begin(r) \/ Decide(r) \/ Fan(r) \/ Post(r) \/ Miss(r)
        PROVE  Tracked'
    BY <2>2 DEF Begin, Decide, Fan, Post, Miss, GoTo
  <2>3. ASSUME NEW r \in Requests, Posted(r)
        PROVE  Tracked'
    BY <2>3 DEF Posted, GoTo, Ended
  <2>4. ASSUME NEW r \in Requests,
               Reviewed(r) \/ Notified(r) \/ Finish(r) \/ Raise(r)
        PROVE  Tracked'
    BY <2>4 DEF Reviewed, ClosePage, Notified, Finish, Raise, GoTo, Ended
  <2>5. ASSUME NEW r \in Requests, NEW k \in Jobs, Attempt(r, k)
        PROVE  Tracked'
    BY <2>5 DEF Attempt
  <2>6. CASE Reclaim
    BY <2>6 DEF Reclaim, Busy, Gone
  <2>7. CASE Crash
    BY <2>7 DEF Crash, Gone
  <2>8. CASE UNCHANGED vars
    BY <2>8 DEF vars
  <2>9. QED
    BY <2>1, <2>2, <2>3, <2>4, <2>5, <2>6, <2>7, <2>8 DEF Next, Step
<1>3. QED
  BY <1>1, <1>2, PTL DEF Spec

-----------------------------------------------------------------------------
(* The account of the decision calls.                                        *)

AccountTypes ==
    /\ kind \in [Requests -> Kinds] /\ phase \in [Requests -> Phases]
    /\ decisions \in [Requests -> Nat]
    /\ charged \in [Requests -> SUBSET [of : Requests, call : Nat]]
    /\ prior \in [Requests -> SUBSET [of : Requests, call : Nat]]
    /\ usage \subseteq [of : Requests, call : Nat]

\* A call in the account or remembered from before has been made; only
\* investigations under way or over have made any.
Made ==
    /\ \A c \in usage : c.call <= decisions[c.of]
    /\ \A r \in Requests : \A c \in prior[r] : c.call <= decisions[c.of]
    /\ \A r \in Requests : phase[r] \in {"waiting", "created"} => decisions[r] = 0

\* While r investigates the account holds nothing older than r; if nobody runs beside
\* it, just its own.  Two that investigate at once know it.
Charges ==
    /\ \A r \in Investigating :
         /\ usage \cap prior[r] = {}
         /\ r \notin overlapped => usage = CallsOf(r)
         /\ \A q \in Investigating : q # r => r \in overlapped
    /\ ChargedToOwnRun

Books == AccountTypes /\ Made /\ Charges

\* A step that keeps the books and begins nothing leaves them in order.
LEMMA BooksKeep ==
    ASSUME Books, kind' = kind, UNCHANGED account, phase' \in [Requests -> Phases],
           Investigating' \subseteq Investigating,
           \A r \in Requests :
               /\ phase'[r] = "done" /\ Is(r, "investigate") => phase[r] = "done"
               /\ phase'[r] \in {"waiting", "created"} => phase[r] \in {"waiting", "created"}
    PROVE  Books'
<1> USE DEF account
<1>1. AccountTypes'
  BY DEF Books, AccountTypes
<1>2. Made'
  BY DEF Books, Made
<1>3. \A r \in Requests : CallsOf(r)' = CallsOf(r)
  BY DEF CallsOf
<1>4. ChargedToOwnRun'
  BY <1>3 DEF Books, Charges, ChargedToOwnRun
<1>5. ASSUME NEW r \in Investigating'
      PROVE  /\ usage' \cap prior'[r] = {}
             /\ r \notin overlapped' => usage' = CallsOf(r)'
             /\ \A q \in Investigating' : q # r => r \in overlapped'
  <2>1. r \in Investigating /\ r \in Requests
    BY <1>5 DEF Investigating
  <2>2. QED
    BY <1>3, <2>1 DEF Books, Charges
<1>6. QED
  BY <1>1, <1>2, <1>4, <1>5 DEF Books, Charges

\* A step of one request that goes on, or ends otherwise than as a finished
\* investigation.
LEMMA BooksMove ==
    ASSUME Books, kind' = kind, UNCHANGED account, NEW r \in Requests, NEW p \in Phases,
           GoTo(r, p), p = "done" => ~Is(r, "investigate"),
           p \in {"waiting", "created"} => phase[r] = "waiting",
           p \in Live \ {"created"} /\ Is(r, "investigate") => r \in Investigating
    PROVE  Books'
<1>1. /\ phase' \in [Requests -> Phases] /\ phase'[r] = p
      /\ \A q \in Requests \ {r} : phase'[q] = phase[q]
  BY GoToEffect DEF Books, AccountTypes
<1>2. Investigating' \subseteq Investigating
  BY <1>1 DEF Investigating
<1>3. \A q \in Requests :
        /\ phase'[q] = "done" /\ Is(q, "investigate") => phase[q] = "done"
        /\ phase'[q] \in {"waiting", "created"} => phase[q] \in {"waiting", "created"}
  BY <1>1
<1>4. QED
  BY <1>1, <1>2, <1>3, BooksKeep

LEMMA BooksStep == Deliveries /\ Books /\ [Next]_vars => Books'
<1> SUFFICES ASSUME Deliveries, Books, [Next]_vars
             PROVE  Books'
  OBVIOUS
<1> USE DEF Phases, Live
<1>1. ASSUME NEW r \in Requests, Invoke(r)
      PROVE  Books'
  <2>1. PICK p \in {"created", "aborted"} : GoTo(r, p)
    BY <1>1 DEF Invoke
  <2>2. QED
    BY <1>1, <2>1, BooksMove DEF Invoke
<1>2. ASSUME NEW r \in Requests, Begin(r), Is(r, "investigate")
      PROVE  Books'
  <2>1. /\ phase[r] = "created" /\ kind' = kind
        /\ usage' = {} /\ decisions' = decisions /\ charged' = charged
        /\ prior' = [prior EXCEPT ![r] = UNION {CallsOf(q) : q \in Requests}]
        /\ overlapped' = overlapped \cup
               IF Investigating = {} THEN {} ELSE Investigating \cup {r}
    BY <1>2 DEF Begin, Reset
  <2>2. /\ phase' \in [Requests -> Phases] /\ phase'[r] = "working"
        /\ \A q \in Requests \ {r} : phase'[q] = phase[q]
    BY <1>2, GoToEffect DEF Begin, Books, AccountTypes
  <2>3. Investigating' = Investigating \cup {r} /\ r \notin Investigating
    BY <1>2, <2>1, <2>2 DEF Investigating
  <2>4. ASSUME NEW q \in Requests
        PROVE  /\ CallsOf(q)' = CallsOf(q)
               /\ CallsOf(q) \subseteq [of : Requests, call : Nat]
               /\ \A c \in CallsOf(q) : c.of = q /\ c.call <= decisions[q]
    BY <2>1 DEF CallsOf, Books, AccountTypes
  <2>5. AccountTypes'
    <3>1. UNION {CallsOf(q) : q \in Requests} \in SUBSET [of : Requests, call : Nat]
      BY <2>4
    <3>2. QED
      BY <2>1, <2>2, <3>1 DEF Books, AccountTypes
  <2>6. Made'
    BY <2>1, <2>2, <2>4 DEF Books, Made, AccountTypes
  <2>7. decisions[r] = 0 /\ CallsOf(r) = {}
    BY <2>1 DEF Books, Made, CallsOf
  <2>8. ASSUME NEW q \in Investigating'
        PROVE  /\ usage' \cap prior'[q] = {}
               /\ q \notin overlapped' => usage' = CallsOf(q)'
               /\ \A o \in Investigating' : o # q => q \in overlapped'
    <3>1. CASE q = r
      BY <2>1, <2>3, <2>4, <2>7, <3>1
    <3>2. CASE q # r
      BY <2>1, <2>3, <2>8, <3>2
    <3>3. QED
      BY <3>1, <3>2
  <2>9. ChargedToOwnRun'
    <3> SUFFICES ASSUME NEW q \in Requests, phase'[q] = "done", Is(q, "investigate")'
                 PROVE  /\ charged'[q] \cap prior'[q] = {}
                        /\ q \notin overlapped' => charged'[q] = CallsOf(q)'
      BY DEF ChargedToOwnRun
    <3>1. q # r /\ phase[q] = "done" /\ Is(q, "investigate")
      BY <2>1, <2>2
    <3>2. prior'[q] = prior[q]
      BY <2>1, <3>1 DEF Books, AccountTypes
    <3>3. QED
      BY <2>1, <2>4, <3>1, <3>2 DEF Books, Charges, ChargedToOwnRun
  <2>10. QED
    BY <2>5, <2>6, <2>8, <2>9 DEF Books, Charges
<1>3. ASSUME NEW r \in Requests, Begin(r), ~Is(r, "investigate")
      PROVE  Books'
  BY <1>3, BooksMove DEF Begin, account
<1>4. ASSUME NEW r \in Requests, Decide(r)
      PROVE  Books'
  <2> DEFINE call == [of |-> r, call |-> decisions[r] + 1]
  <2>1. /\ phase' = phase /\ kind' = kind /\ prior' = prior /\ charged' = charged
        /\ overlapped' = overlapped /\ usage' = usage \cup {call}
        /\ decisions' = [decisions EXCEPT ![r] = @ + 1]
        /\ phase[r] \in {"working", "fanned", "after"} /\ Is(r, "investigate")
    BY <1>4 DEF Decide, RecordUsage
  <2>2. /\ decisions[r] \in Nat /\ decisions'[r] = decisions[r] + 1
        /\ \A q \in Requests \ {r} : decisions'[q] = decisions[q]
        /\ decisions' \in [Requests -> Nat]
    BY <2>1 DEF Books, AccountTypes
  <2>3. call \in [of : Requests, call : Nat] /\ call.of = r /\ call.call = decisions[r] + 1
    BY <2>2
  <2>4. r \in Investigating /\ Investigating' = Investigating
    BY <2>1 DEF Investigating
  <2>5. CallsOf(r)' = CallsOf(r) \cup {call}
        /\ \A q \in Requests \ {r} : CallsOf(q)' = CallsOf(q)
    BY <2>2 DEF CallsOf
  <2> HIDE DEF call
  <2>6. AccountTypes'
    BY <2>1, <2>2, <2>3 DEF Books, AccountTypes
  <2>7. \A c \in [of : Requests, call : Nat] : c.call <= decisions[c.of] => c.call <= decisions'[c.of]
    BY <2>2 DEF Books, AccountTypes
  <2>8. Made'
    BY <2>1, <2>2, <2>3, <2>7 DEF Books, Made, AccountTypes
  <2>9. ASSUME NEW q \in Investigating
        PROVE  /\ usage' \cap prior'[q] = {}
               /\ q \notin overlapped' => usage' = CallsOf(q)'
               /\ \A o \in Investigating' : o # q => q \in overlapped'
    <3>1. q \in Requests /\ usage \cap prior[q] = {}
          /\ (q \notin overlapped => usage = CallsOf(q))
          /\ \A o \in Investigating : o # q => q \in overlapped
      BY <2>9 DEF Books, Charges, Investigating
    <3>2. call \notin prior[q]
      BY <2>2, <2>3, <3>1 DEF Books, Made
    <3>3. q # r => q \in overlapped
      BY <2>4, <3>1
    <3>4. QED
      BY <2>1, <2>4, <2>5, <3>1, <3>2, <3>3
  <2>10. ChargedToOwnRun'
    BY <2>1, <2>5 DEF Books, Charges, ChargedToOwnRun
  <2>11. QED
    BY <2>4, <2>6, <2>8, <2>9, <2>10 DEF Books, Charges
<1>5. ASSUME NEW r \in Requests, Fan(r)
      PROVE  Books'
  BY <1>5, BooksMove DEF Fan, Investigating
<1>6. ASSUME NEW r \in Requests, Post(r)
      PROVE  Books'
  BY <1>6, BooksMove DEF Post, Investigating
<1>7. ASSUME NEW r \in Requests, Posted(r)
      PROVE  Books'
  <2>1. PICK p \in {"after", "done", "notifying"} :
          GoTo(r, p) /\ (Is(r, "investigate") => p = "after")
    BY <1>7 DEF Posted
  <2>2. phase[r] = "posting" /\ kind' = kind /\ UNCHANGED account
    BY <1>7 DEF Posted
  <2>3. QED
    BY <2>1, <2>2, BooksMove DEF Investigating
<1>8. ASSUME NEW r \in Requests, Miss(r) \/ Reviewed(r) \/ Notified(r)
      PROVE  Books'
  <2>1. CASE Miss(r)
    BY <2>1, BooksMove DEF Miss
  <2>2. CASE Reviewed(r)
    BY <2>2, BooksMove DEF Reviewed, ClosePage
  <2>3. CASE Notified(r)
    <3>1. ~Is(r, "investigate")
      BY <2>3 DEF Notified, Deliveries, Staged
    <3>2. QED
      BY <2>3, <3>1, BooksMove DEF Notified
  <2>4. QED
    BY <1>8, <2>1, <2>2, <2>3
<1>9. ASSUME NEW r \in Requests, Finish(r)
      PROVE  Books'
  <2>1. /\ phase[r] = "after" /\ Is(r, "investigate") /\ kind' = kind
        /\ charged' = [charged EXCEPT ![r] = usage]
        /\ UNCHANGED <<usage, decisions, prior, overlapped>>
    BY <1>9 DEF Finish
  <2>2. /\ phase' \in [Requests -> Phases] /\ phase'[r] = "done"
        /\ \A q \in Requests \ {r} : phase'[q] = phase[q]
    BY <1>9, GoToEffect DEF Finish, Books, AccountTypes
  <2>3. r \in Investigating /\ Investigating' \subseteq Investigating
    BY <2>1, <2>2 DEF Investigating
  <2>4. \A q \in Requests : CallsOf(q)' = CallsOf(q)
    BY <2>1 DEF CallsOf
  <2>5. /\ charged' \in [Requests -> SUBSET [of : Requests, call : Nat]]
        /\ charged'[r] = usage /\ \A q \in Requests \ {r} : charged'[q] = charged[q]
    BY <2>1 DEF Books, AccountTypes
  <2>6. AccountTypes' /\ Made'
    BY <2>1, <2>2, <2>5 DEF Books, AccountTypes, Made
  <2>7. ASSUME NEW q \in Investigating'
        PROVE  /\ usage' \cap prior'[q] = {}
               /\ q \notin overlapped' => usage' = CallsOf(q)'
               /\ \A o \in Investigating' : o # q => q \in overlapped'
    <3>1. q \in Investigating /\ q \in Requests
      BY <2>3, <2>7 DEF Investigating
    <3>2. QED
      BY <2>1, <2>3, <2>4, <3>1 DEF Books, Charges
  <2>8. ASSUME NEW q \in Requests, phase'[q] = "done", Is(q, "investigate")'
        PROVE  /\ charged'[q] \cap prior'[q] = {}
               /\ q \notin overlapped' => charged'[q] = CallsOf(q)'
    <3>1. CASE q = r
      BY <2>1, <2>3, <2>4, <2>5, <3>1 DEF Books, Charges
    <3>2. CASE q # r
      BY <2>1, <2>2, <2>4, <2>5, <2>8, <3>2 DEF Books, Charges, ChargedToOwnRun
    <3>3. QED
      BY <3>1, <3>2
  <2>9. QED
    BY <2>6, <2>7, <2>8 DEF Books, Charges, ChargedToOwnRun
<1>10. ASSUME NEW r \in Requests, Raise(r)
       PROVE  Books'
  BY <1>10, BooksMove DEF Raise
<1>11. ASSUME NEW r \in Requests, NEW k \in Jobs, Attempt(r, k)
       PROVE  Books'
  BY <1>11, BooksKeep DEF Attempt, Books, AccountTypes, Investigating
<1>12. ASSUME NEW label \in {"reclaimed", "crashed"}, Gone(label)
       PROVE  Books'
  <2>1. /\ phase' = [r \in Requests |-> IF phase[r] \in Live THEN label ELSE phase[r]]
        /\ kind' = kind /\ UNCHANGED account
    BY <1>12 DEF Gone
  <2>2. phase' \in [Requests -> Phases] /\ Investigating' \subseteq Investigating
    BY <2>1 DEF Books, AccountTypes, Investigating
  <2>3. \A q \in Requests :
          /\ phase'[q] = "done" /\ Is(q, "investigate") => phase[q] = "done"
          /\ phase'[q] \in {"waiting", "created"} => phase[q] \in {"waiting", "created"}
    BY <2>1
  <2>4. QED
    BY <2>1, <2>2, <2>3, BooksKeep
<1>13. CASE UNCHANGED vars
  BY <1>13, BooksKeep DEF vars, account, Books, AccountTypes, Investigating
<1>14. QED
  BY <1>1, <1>2, <1>3, <1>4, <1>5, <1>6, <1>7, <1>8, <1>9, <1>10, <1>11, <1>12, <1>13
     DEF Next, Step, Reclaim, Crash

\* No scorecard is charged with calls older than its investigation, and one that ran
\* alone with exactly its own.
THEOREM ChargesAreOwn == Spec => []ChargedToOwnRun
<1>1. Init => Books
  BY DEF Init, Books, AccountTypes, Made, Charges, ChargedToOwnRun, Investigating, Phases, Live
<1>2. Books => ChargedToOwnRun
  BY DEF Books, Charges
<1>3. QED
  BY <1>1, <1>2, BooksStep, DeliveriesHold, PTL DEF Spec

\* Every execution is type-correct.
THEOREM TypeCorrect == Spec => []TypeOK
<1> DEFINE Rest ==
      /\ up \in BOOLEAN /\ tracked \subseteq Requests /\ overlapped \subseteq Requests
      /\ decisions \in [Requests -> 0..MaxDecisions]
      /\ usage \subseteq CallIds
      /\ charged \in [Requests -> SUBSET CallIds] /\ prior \in [Requests -> SUBSET CallIds]
<1>1. Init => Rest
  BY DEF Init
<1>2. Rest /\ [Next]_vars => Rest'
  <2> SUFFICES ASSUME Rest, [Next]_vars
               PROVE  Rest'
    OBVIOUS
  <2>1. ASSUME NEW r \in Requests,
               Invoke(r) \/ Fan(r) \/ Post(r) \/ Posted(r) \/ Miss(r) \/ Reviewed(r)
               \/ Notified(r) \/ Raise(r) \/ \E k \in Jobs : Attempt(r, k)
        PROVE  Rest'
    BY <2>1 DEF Invoke, Fan, Post, Posted, Miss, Reviewed, Notified, Raise, Attempt, Ended,
                account
  <2>2. ASSUME NEW r \in Requests, Begin(r)
        PROVE  Rest'
    <3>1. UNION {CallsOf(q) : q \in Requests} \in SUBSET CallIds
      BY DEF CallsOf, CallIds
    <3>2. QED
      BY <2>2, <3>1 DEF Begin, Reset, Investigating
  <2>3. ASSUME NEW r \in Requests, Decide(r)
        PROVE  Rest'
    <3>1. [of |-> r, call |-> decisions[r] + 1] \in CallIds
      BY <2>3 DEF Decide, CallIds
    <3>2. QED
      BY <2>3, <3>1 DEF Decide, RecordUsage
  <2>4. ASSUME NEW r \in Requests, Finish(r)
        PROVE  Rest'
    BY <2>4 DEF Finish, Ended
  <2>5. CASE Reclaim \/ Crash
    BY <2>5 DEF Reclaim, Crash, Gone, account
  <2>6. CASE UNCHANGED vars
    BY <2>6 DEF vars, account
  <2>7. QED
    BY <2>1, <2>2, <2>3, <2>4, <2>5, <2>6 DEF Next, Step
<1>3. Rest /\ Deliveries => TypeOK
  BY DEF Deliveries, TypeOK, Phases
<1>4. QED
  BY <1>1, <1>2, <1>3, DeliveriesHold, PTL DEF Spec
=============================================================================
