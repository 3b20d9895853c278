---------------------------- MODULE IntakeProofs ----------------------------
(***************************************************************************)
(* Proofs about the webhook intake, for any alerts, messages, platform     *)
(* retries, faults and record expiries.                                    *)
(***************************************************************************)
EXTENDS Intake, TLAPS

\* A decision is taken only by a delivery that owns, or owned, the record.
DecidersOwn ==
    \A d \in Deliveries : outcome[d] \in {"gated", "investigated"} => Owner(d)

\* How far a delivery has got, and what it has sent by then.
Undecided(d) == outcome[d] = "none" /\ Sent(d) = {}
Sending(d) == /\ outcome[d] = "investigated"
              /\ \/ todo[d] = <<"only">> /\ Sent(d) = {}
                 \/ todo[d] = <<"A", "B">> /\ Sent(d) = {}
                 \/ todo[d] = <<"B">> /\ Sent(d) = {"A"}
ProgressOf(d) ==
    /\ pc[d] \in {"idle", "ingest", "record", "gate"} => Undecided(d)
    /\ pc[d] = "dispatch" => Sending(d)
    /\ Sent(d) # {} => outcome[d] = "investigated"
    /\ pc[d] \in {"ok", "late"} /\ outcome[d] = "investigated"
          => Sent(d) \in {{"only"}, {"A", "B"}}
Progress == \A d \in Deliveries : ProgressOf(d)

IInv == TypeOK /\ WorkingAlone /\ DecidersOwn /\ Progress

\* Every delivery is about a message.
LEMMA MsgType == \A d \in Deliveries : Msg(d) \in Messages /\ Event(d) \in Alerts
BY IntakeAssumption DEF Msg, Event, Deliveries

\* The initial states satisfy the invariant: nothing has been decided or sent.
LEMMA InitKeeps == ASSUME Init PROVE IInv
<1>1. TypeOK
  <2>1. << >> \in Seq(Variants)
    OBVIOUS
  <2>2. faults \in 0 .. MaxFaults
    BY IntakeAssumption DEF Init
  <2> QED BY <2>1, <2>2 DEF Init, TypeOK, Running
<1>2. \A d \in Deliveries : Sent(d) = {}
  BY DEF Init, Sent
<1> QED BY <1>1, <1>2
        DEF Init, IInv, WorkingAlone, BehindRecord, DecidersOwn, Progress, ProgressOf, Undecided

\* A step that leaves what was sent alone.
LEMMA SentUnchanged == ASSUME tasks' = tasks PROVE \A d \in Deliveries : Sent(d)' = Sent(d)
BY DEF Sent

\* Every step preserves the types.
LEMMA TypeStep == ASSUME IInv, [Next]_vars PROVE TypeOK'
<1> USE DEF IInv, TypeOK, Running, BehindRecord, Goto, Answer, setting
<1>1. ASSUME NEW d \in Deliveries, Handler(d) \/ Deliver(d) \/ Ignore(d)
                                   \/ RecordResent(d) \/ Fail(d)
      PROVE TypeOK'
  <2>1. CASE Ingest(d)
    BY <2>1 DEF Ingest
  <2>2. CASE RecordNew(d)
    BY <2>2 DEF RecordNew
  <2>3. CASE RecordDuplicate(d)
    BY <2>3 DEF RecordDuplicate
  <2>4. CASE Gate(d)
    <3>1. <<"only">> \in Seq(Variants) /\ <<"A", "B">> \in Seq(Variants)
      BY DEF Variants
    <3>2. \A plan \in Plans : plan \in Seq(Variants)
      BY <3>1 DEF Plans
    <3>3. ASSUME NEW plan \in Plans, todo' = [todo EXCEPT ![d] = plan]
          PROVE todo' \in [Deliveries -> Seq(Variants)]
      BY <3>2, <3>3
    <3>4. todo' \in [Deliveries -> Seq(Variants)]
      BY <2>4, <3>3 DEF Gate
    <3>5. /\ setting' = setting /\ past' = past /\ tasks' = tasks /\ faults' = faults
          /\ dedup' = dedup
      BY <2>4 DEF Gate, GateOut
    <3>6. /\ pc' \in [Deliveries -> Running \cup {"idle", "ok", "late", "failed"}]
          /\ outcome' \in [Deliveries ->
                {"none", "ignored", "duplicate", "gated", "investigated"}]
      BY <2>4 DEF Gate, GateOut
    <3> QED BY <3>4, <3>5, <3>6
  <2>5. CASE Dispatch(d)
    <3>1. todo[d] \in {<<"only">>, <<"A", "B">>, <<"B">>}
      BY <2>5 DEF Dispatch, Progress, ProgressOf, Sending
    <3>2. Head(todo[d]) \in Variants /\ Tail(todo[d]) \in Seq(Variants)
      BY <3>1 DEF Variants
    <3>3. <<d, Head(todo[d])>> \in Deliveries \X Variants
      BY <3>2
    <3> QED BY <2>5, <3>2, <3>3 DEF Dispatch
  <2>6. CASE Deliver(d)
    BY <2>6 DEF Deliver
  <2>7. CASE Ignore(d)
    <3>1. faults' \in 0 .. MaxFaults
      BY <2>7, IntakeAssumption DEF Ignore, Fault
    <3> QED BY <2>7, <3>1 DEF Ignore
  <2>8. CASE RecordResent(d)
    <3>1. faults' \in 0 .. MaxFaults
      BY <2>8, IntakeAssumption DEF RecordResent, Fault
    <3> QED BY <2>8, <3>1 DEF RecordResent
  <2>9. CASE Fail(d)
    BY <2>9, IntakeAssumption DEF Fail, Fault
  <2> QED BY <1>1, <2>1, <2>2, <2>3, <2>4, <2>5, <2>6, <2>7, <2>8, <2>9 DEF Handler
<1>2. ASSUME NEW t \in Deliveries \X Variants, RunTask(t) PROVE TypeOK'
  <2>1. faults' \in 0 .. MaxFaults
    BY <1>2, IntakeAssumption DEF RunTask, Fault
  <2>2. tasks' \in [Deliveries \X Variants -> {"none", "queued", "started", "lost"}]
    BY <1>2 DEF RunTask
  <2> QED BY <1>2, <2>1, <2>2 DEF RunTask
<1>3. ASSUME NEW m \in Messages, Expire(m) PROVE TypeOK'
  <2>1. dedup[m] \in Deliveries
    BY <1>3 DEF Expire, IsRecorded
  <2> QED BY <1>3, <2>1 DEF Expire
<1>4. CASE UNCHANGED vars
  BY <1>4 DEF vars
<1> QED BY <1>1, <1>2, <1>3, <1>4 DEF Next

\* Every step keeps deliveries alone behind their record, and decisions with the
\* record's owner.
LEMMA RecordStep == ASSUME IInv, [Next]_vars PROVE WorkingAlone' /\ DecidersOwn'
<1> USE MsgType DEF IInv, TypeOK, BehindRecord, Goto, Answer, WorkingAlone,
                    DecidersOwn, Owner
<1>1. ASSUME NEW d \in Deliveries, Handler(d) \/ Deliver(d) \/ Ignore(d)
                                   \/ RecordResent(d) \/ Fail(d)
      PROVE WorkingAlone' /\ DecidersOwn'
  <2>1. CASE Ingest(d)
    BY <2>1 DEF Ingest
  <2>2. CASE RecordNew(d) \/ RecordResent(d)
    <3>1. dedup[Msg(d)] = NoRecord /\ NoRecord \notin Deliveries
      BY <2>2, IntakeAssumption DEF RecordNew, RecordResent, IsRecorded
    <3>2. \A c \in Deliveries : dedup'[Msg(c)] = IF Msg(c) = Msg(d) THEN d ELSE dedup[Msg(c)]
      BY <2>2 DEF RecordNew, RecordResent
    <3>3. \A c \in Deliveries : c # d => pc'[c] = pc[c] /\ outcome'[c] = outcome[c]
      BY <2>2 DEF RecordNew, RecordResent
    <3>4. outcome'[d] \in {"none", "duplicate"}
      BY <2>2 DEF RecordNew, RecordResent, Progress, ProgressOf, Undecided
    <3>5. WorkingAlone'
      <4> SUFFICES ASSUME NEW c \in Deliveries, pc'[c] \in {"gate", "dispatch"}
                   PROVE dedup'[Msg(c)] = c
        BY DEF Msg, Event
      <4>1. CASE c = d
        BY <4>1, <3>2
      <4>2. CASE c # d
        <5>1. dedup[Msg(c)] = c
          BY <4>2, <3>3
        <5> QED BY <5>1, <3>1, <3>2
      <4> QED BY <4>1, <4>2
    <3>6. past' = past
      BY <2>2 DEF RecordNew, RecordResent
    <3>7. DecidersOwn'
      BY <3>1, <3>2, <3>3, <3>4, <3>6
    <3> QED BY <3>5, <3>7
  <2>3. CASE RecordDuplicate(d)
    BY <2>3 DEF RecordDuplicate
  <2>4. CASE Gate(d)
    BY <2>4 DEF Gate, GateOut
  <2>5. CASE Dispatch(d)
    BY <2>5 DEF Dispatch
  <2>6. CASE Deliver(d)
    BY <2>6 DEF Deliver
  <2>7. CASE Ignore(d)
    BY <2>7 DEF Ignore
  <2>8. CASE Fail(d)
    BY <2>8 DEF Fail
  <2> QED BY <1>1, <2>1, <2>2, <2>3, <2>4, <2>5, <2>6, <2>7, <2>8 DEF Handler
<1>2. ASSUME NEW t \in Deliveries \X Variants, RunTask(t)
      PROVE WorkingAlone' /\ DecidersOwn'
  BY <1>2 DEF RunTask
<1>3. ASSUME NEW m \in Messages, Expire(m) PROVE WorkingAlone' /\ DecidersOwn'
  <2>1. \A d \in Deliveries : Msg(d) = m => pc[d] \notin BehindRecord
    BY <1>3 DEF Expire, Running
  <2> QED BY <1>3, <2>1 DEF Expire
<1>4. CASE UNCHANGED vars
  BY <1>4 DEF vars
<1> QED BY <1>1, <1>2, <1>3, <1>4 DEF Next

\* A delivery that stays where it is, and sends nothing, keeps its progress.
LEMMA ProgressKept ==
    ASSUME NEW d \in Deliveries, ProgressOf(d), pc'[d] = pc[d], todo'[d] = todo[d],
           outcome'[d] = outcome[d], Sent(d)' = Sent(d)
    PROVE  ProgressOf(d)'
BY DEF ProgressOf, Undecided, Sending

\* A delivery's decision and what it sends advance together.
LEMMA ProgressStep == ASSUME IInv, [Next]_vars PROVE Progress'
<1> USE DEF IInv, TypeOK, Running, BehindRecord, Goto, Answer, setting
<1>1. ASSUME NEW d \in Deliveries, Handler(d) \/ Deliver(d) \/ Ignore(d)
                                   \/ RecordResent(d) \/ Fail(d)
      PROVE Progress'
  <2> USE DEF Undecided, Sending
  <2>2. ASSUME Dispatch(d) PROVE Progress'
    <3>1. Sending(d) /\ Head(todo[d]) \in Variants
      BY <2>2 DEF Dispatch, Progress, ProgressOf, Variants
    <3>2. \A c \in Deliveries : Sent(c)' = IF c = d THEN Sent(d) \cup {Head(todo[d])}
                                           ELSE Sent(c)
      BY <2>2, <3>1 DEF Dispatch, Sent
    <3>3. outcome'[d] = "investigated" /\ todo'[d] = Tail(todo[d])
      BY <2>2, <3>1 DEF Dispatch
    <3>4. CASE todo[d] = <<"A", "B">>
      <4>1. Len(todo[d]) # 1 /\ Head(todo[d]) = "A" /\ Tail(todo[d]) = <<"B">>
        BY <3>4
      <4>2. pc'[d] = "dispatch"
        BY <2>2, <4>1 DEF Dispatch
      <4>3. Sent(d) = {}
        BY <3>1, <3>4
      <4>4. ProgressOf(d)'
        BY <3>2, <3>3, <4>1, <4>2, <4>3 DEF ProgressOf
      <4>5. \A c \in Deliveries : c # d => pc'[c] = pc[c] /\ todo'[c] = todo[c]
                                        /\ outcome'[c] = outcome[c] /\ Sent(c)' = Sent(c)
        BY <2>2, <3>2 DEF Dispatch
      <4> QED BY <4>4, <4>5, ProgressKept DEF Progress
    <3>5. CASE todo[d] # <<"A", "B">>
      <4>1. \/ todo[d] = <<"only">> /\ Sent(d) = {}
            \/ todo[d] = <<"B">> /\ Sent(d) = {"A"}
        BY <3>1, <3>5
      <4>2. Len(todo[d]) = 1
        <5>1. Len(<<"only">>) = 1 /\ Len(<<"B">>) = 1
          OBVIOUS
        <5> QED BY <4>1, <5>1
      <4>3. pc'[d] \in {"ok", "late"}
        BY <2>2, <4>2 DEF Dispatch
      <4>4. Sent(d)' \in {{"only"}, {"A", "B"}}
        BY <3>2, <4>1
      <4>5. ProgressOf(d)'
        BY <3>3, <4>3, <4>4 DEF ProgressOf
      <4>6. \A c \in Deliveries : c # d => pc'[c] = pc[c] /\ todo'[c] = todo[c]
                                        /\ outcome'[c] = outcome[c] /\ Sent(c)' = Sent(c)
        BY <2>2, <3>2 DEF Dispatch
      <4> QED BY <4>5, <4>6, ProgressKept DEF Progress
    <3> QED BY <3>4, <3>5
  <2>3. ASSUME ~Dispatch(d) PROVE Progress'
    <3>1. \A c \in Deliveries : Sent(c)' = Sent(c)
      BY <1>1, <2>3 DEF Handler, Ingest, RecordNew, RecordDuplicate, Gate, GateOut,
                        Deliver, Ignore, RecordResent, Fail, Sent
    <3>2. \A c \in Deliveries : c # d => pc'[c] = pc[c] /\ todo'[c] = todo[c]
                                      /\ outcome'[c] = outcome[c]
      BY <1>1, <2>3 DEF Handler, Ingest, RecordNew, RecordDuplicate, Gate, GateOut,
                        Deliver, Ignore, RecordResent, Fail
    <3>3. ProgressOf(d)'
      <4>1. CASE Gate(d)
        <5>1. Undecided(d)
          BY <4>1 DEF Gate, Progress, ProgressOf
        <5>2. \/ outcome'[d] = "gated" /\ pc'[d] \in {"ok", "late"}
              \/ /\ pc'[d] = "dispatch" /\ outcome'[d] = "investigated"
                 /\ todo'[d] \in {<<"only">>, <<"A", "B">>}
          <6>1. CASE GateOut(d)
            BY <6>1 DEF GateOut
          <6>2. CASE ~GateOut(d)
            <7>1. pc' = [pc EXCEPT ![d] = "dispatch"]
                  /\ outcome' = [outcome EXCEPT ![d] = "investigated"]
              BY <4>1, <6>2 DEF Gate
            <7>2. PICK plan \in Plans : todo' = [todo EXCEPT ![d] = plan]
              BY <4>1, <6>2 DEF Gate
            <7>3. todo'[d] \in Plans
              BY <7>2
            <7> QED BY <7>1, <7>3 DEF Plans
          <6> QED BY <6>1, <6>2
        <5> QED BY <5>1, <5>2, <3>1 DEF ProgressOf
      <4>2. CASE Ingest(d) \/ Deliver(d)
        BY <3>1, <4>2 DEF Ingest, Deliver, Progress, ProgressOf
      <4>3. CASE RecordNew(d)
        BY <3>1, <4>3 DEF RecordNew, Progress, ProgressOf
      <4>4. CASE RecordDuplicate(d) \/ RecordResent(d) \/ Ignore(d)
        <5>1. Undecided(d) /\ pc'[d] \in {"ok", "late"}
              /\ outcome'[d] \in {"duplicate", "ignored"}
          BY <4>4 DEF RecordDuplicate, RecordResent, Ignore, Progress, ProgressOf
        <5> QED BY <3>1, <5>1 DEF ProgressOf
      <4>5. CASE Fail(d)
        BY <3>1, <4>5 DEF Fail, Progress, ProgressOf
      <4> QED BY <1>1, <2>3, <4>1, <4>2, <4>3, <4>4, <4>5 DEF Handler
    <3> QED BY <3>1, <3>2, <3>3, ProgressKept DEF Progress
  <2> QED BY <2>2, <2>3
<1>2. ASSUME NEW t \in Deliveries \X Variants, RunTask(t) PROVE Progress'
  <2>1. \A c \in Deliveries : Sent(c)' = Sent(c)
    BY <1>2 DEF RunTask, Sent
  <2>2. pc' = pc /\ todo' = todo /\ outcome' = outcome
    BY <1>2 DEF RunTask
  <2> QED BY <2>1, <2>2, ProgressKept DEF Progress
<1>3. ASSUME NEW m \in Messages, Expire(m) PROVE Progress'
  <2>1. pc' = pc /\ todo' = todo /\ outcome' = outcome /\ tasks' = tasks
    BY <1>3 DEF Expire
  <2> QED BY <2>1, SentUnchanged, ProgressKept DEF Progress
<1>4. CASE UNCHANGED vars
  <2>1. pc' = pc /\ todo' = todo /\ outcome' = outcome /\ tasks' = tasks
    BY <1>4 DEF vars
  <2> QED BY <2>1, SentUnchanged, ProgressKept DEF Progress
<1> QED BY <1>1, <1>2, <1>3, <1>4 DEF Next

\* The invariant holds in every reachable state.
LEMMA InvariantHolds == Spec => []IInv
<1>1. Init => IInv
  BY InitKeeps
<1>2. IInv /\ [Next]_vars => IInv'
  BY TypeStep, RecordStep, ProgressStep DEF IInv
<1> QED BY <1>1, <1>2, PTL DEF Spec

\* Every variable of the intake keeps its type.
THEOREM TypeCorrect == Spec => []TypeOK
<1>1. IInv => TypeOK
  BY DEF IInv
<1> QED BY <1>1, InvariantHolds, PTL

\* However many deliveries race, one at a time works behind a message's record.
THEOREM AloneBehindRecord == Spec => []WorkingAlone
<1>1. IInv => WorkingAlone
  BY DEF IInv
<1> QED BY <1>1, InvariantHolds, PTL

\* While its record lasts a message gets one notice or one investigation.
THEOREM MessageDecidedOnce == Spec => []OneDecision
<1>1. IInv => OneDecision
  <2> SUFFICES ASSUME IInv PROVE OneDecision
    OBVIOUS
  <2>1. \A d \in Deliveries : outcome[d] = "gated" => Sent(d) = {}
    BY DEF IInv, Progress, ProgressOf
  <2>2. \A d \in Deliveries : Handled(d) => Owner(d)
    BY DEF IInv, Progress, ProgressOf, DecidersOwn, Handled
  <2> QED BY <2>1, <2>2 DEF OneDecision, About, Owner
<1> QED BY <1>1, InvariantHolds, PTL

\* An answered alert was dispatched to the control, or to both variants.
THEOREM ExperimentDispatchedWhole == Spec => []WholeExperiment
<1>1. IInv => WholeExperiment
  BY DEF IInv, Progress, ProgressOf, WholeExperiment
<1> QED BY <1>1, InvariantHolds, PTL

-----------------------------------------------------------------------------
(* The deliveries implement one case at a time.                              *)

\* A delivery that has not reached the record has never owned one.
Fresh == \A d \in Deliveries : pc[d] \in {"idle", "ingest", "record"} =>
            \A m \in Messages : dedup[m] # d /\ d \notin past[m]
CaseInv == IInv /\ Fresh

LEMMA FreshStep == ASSUME CaseInv, [Next]_vars PROVE Fresh'
<1> SUFFICES ASSUME NEW c \in Deliveries, pc'[c] \in {"idle", "ingest", "record"},
                    NEW m \in Messages
             PROVE  dedup'[m] # c /\ c \notin past'[m]
  BY DEF Fresh
<1> USE DEF CaseInv, IInv, TypeOK, Goto, Answer
<1>1. pc[c] \in {"idle", "ingest", "record"}
  <2>1. ASSUME NEW d \in Deliveries, Handler(d) \/ Deliver(d) \/ Ignore(d)
                                     \/ RecordResent(d) \/ Fail(d)
        PROVE  pc[c] \in {"idle", "ingest", "record"}
    BY <2>1 DEF Handler, Ingest, RecordNew, RecordDuplicate, Gate, GateOut, Dispatch,
                Deliver, Ignore, RecordResent, Fail
  <2>2. QED
    BY <2>1 DEF Next, RunTask, Expire, vars
<1>2. dedup[m] # c /\ c \notin past[m]
  BY <1>1 DEF Fresh
<1>3. ASSUME NEW d \in Deliveries, RecordNew(d) \/ RecordResent(d)
      PROVE  dedup'[m] # c /\ c \notin past'[m]
  <2>1. pc'[d] \in {"gate", "ok", "late"} /\ past' = past
    BY <1>3 DEF RecordNew, RecordResent
  <2>2. c # d
    BY <2>1
  <2>3. dedup' = [dedup EXCEPT ![Msg(d)] = d]
    BY <1>3 DEF RecordNew, RecordResent
  <2>4. QED
    BY <1>2, <2>1, <2>2, <2>3
<1>4. ASSUME NEW n \in Messages, Expire(n)
      PROVE  dedup'[m] # c /\ c \notin past'[m]
  <2>1. c # NoRecord
    BY IntakeAssumption
  <2>2. QED
    BY <1>2, <1>4, <2>1 DEF Expire
<1>5. CASE /\ \A d \in Deliveries : ~RecordNew(d) /\ ~RecordResent(d)
           /\ \A n \in Messages : ~Expire(n)
  <2>1. dedup' = dedup /\ past' = past
    BY <1>5 DEF Next, Handler, Ingest, RecordDuplicate, Gate, GateOut, Dispatch, Deliver,
                Ignore, Fail, RunTask, vars
  <2>2. QED
    BY <1>2, <2>1
<1>6. QED
  BY <1>3, <1>4, <1>5

LEMMA CaseInvariant == Spec => []CaseInv
<1>1. Init => Fresh
  BY IntakeAssumption DEF Init, Fresh
<1>2. CaseInv /\ [Next]_vars => Fresh'
  BY FreshStep
<1>3. QED
  BY <1>1, <1>2, InvariantHolds, PTL DEF Spec, CaseInv

\* The variants a delivery still owes, and the hand-overs so far.
Owed(d) == {todo[d][i] : i \in DOMAIN todo[d]}
Handed == {[case |-> t[1], variant |-> t[2]] :
              t \in {t \in Deliveries \X Variants : tasks[t] # "none"}}
Verdict(d) == IF outcome[d] \in {"gated", "investigated"} THEN outcome[d] ELSE "none"

LEMMA HandedIs == \A d \in Deliveries, v \in Variants :
                     [case |-> d, variant |-> v] \in Handed <=> v \in Sent(d)
<1>1. TAKE d \in Deliveries, v \in Variants
<1>2. ASSUME v \in Sent(d) PROVE [case |-> d, variant |-> v] \in Handed
  <2> DEFINE t == <<d, v>>
  <2>1. t \in Deliveries \X Variants /\ tasks[t] # "none" /\ t[1] = d /\ t[2] = v
    BY <1>2 DEF Sent
  <2> HIDE DEF t
  <2>2. QED
    BY <2>1 DEF Handed
<1>3. ASSUME [case |-> d, variant |-> v] \in Handed PROVE v \in Sent(d)
  <2>1. PICK t \in Deliveries \X Variants :
          tasks[t] # "none" /\ [case |-> d, variant |-> v] = [case |-> t[1], variant |-> t[2]]
    BY <1>3 DEF Handed
  <2>2. t = <<d, v>>
    BY <2>1
  <2>3. QED
    BY <2>1, <2>2 DEF Sent
<1>4. QED
  BY <1>2, <1>3

\* A plan is owed whole.
LEMMA PlansOwed ==
    /\ {<<"only">>[i] : i \in DOMAIN <<"only">>} = {"only"}
    /\ {<<"A", "B">>[i] : i \in DOMAIN <<"A", "B">>} = {"A", "B"}
    /\ {<<"B">>[i] : i \in DOMAIN <<"B">>} = {"B"}
    /\ \A f : f = <<>> => {f[i] : i \in DOMAIN f} = {}
<1>1. DOMAIN <<"only">> = {1} /\ DOMAIN <<"B">> = {1} /\ DOMAIN <<"A", "B">> = {1, 2}
  OBVIOUS
<1>2. <<"only">>[1] = "only" /\ <<"B">>[1] = "B" /\ <<"A", "B">>[1] = "A" /\ <<"A", "B">>[2] = "B"
  OBVIOUS
<1>3. {<<"only">>[i] : i \in DOMAIN <<"only">>} = {"only"}
  BY <1>1, <1>2
<1>4. {<<"A", "B">>[i] : i \in DOMAIN <<"A", "B">>} = {"A", "B"}
  <2> DEFINE ab == <<"A", "B">>
  <2>1. DOMAIN ab = {1, 2} /\ ab[1] = "A" /\ ab[2] = "B"
    BY <1>1, <1>2
  <2> HIDE DEF ab
  <2>2. {ab[i] : i \in DOMAIN ab} = {"A", "B"}
    BY <2>1
  <2>3. QED
    BY <2>2 DEF ab
<1>5. {<<"B">>[i] : i \in DOMAIN <<"B">>} = {"B"}
  BY <1>1, <1>2
<1>6. \A f : f = <<>> => {f[i] : i \in DOMAIN f} = {}
  OBVIOUS
<1>7. QED
  BY <1>3, <1>4, <1>5, <1>6

\* What is owed after a hand-over.
LEMMA DispatchOwes ==
    ASSUME CaseInv, NEW d \in Deliveries, Dispatch(d)
    PROVE  /\ Head(todo[d]) \in Owed(d) \ Sent(d) /\ Head(todo[d]) \in Variants
           /\ Owed(d)' = Owed(d) \ {Head(todo[d])}
           /\ Owed(d) \in SUBSET {"only"} \/ Owed(d) \in SUBSET {"A", "B"}
<1>1. Sending(d) /\ todo'[d] = Tail(todo[d])
  BY DEF Dispatch, CaseInv, IInv, TypeOK, Progress, ProgressOf
<1>2. CASE todo[d] = <<"only">> /\ Sent(d) = {}
  <2>1. Head(todo[d]) = "only" /\ Tail(todo[d]) = <<>>
    BY <1>2
  <2>2. QED
    BY <1>1, <1>2, <2>1, PlansOwed DEF Owed, Variants
<1>3. CASE todo[d] = <<"A", "B">> /\ Sent(d) = {}
  <2>1. Head(todo[d]) = "A" /\ Tail(todo[d]) = <<"B">>
    BY <1>3
  <2>2. QED
    BY <1>1, <1>3, <2>1, PlansOwed DEF Owed, Variants
<1>4. CASE todo[d] = <<"B">> /\ Sent(d) = {"A"}
  <2>1. Head(todo[d]) = "B" /\ Tail(todo[d]) = <<>>
    BY <1>4
  <2>2. QED
    BY <1>1, <1>4, <2>1, PlansOwed DEF Owed, Variants
<1>5. QED
  BY <1>1, <1>2, <1>3, <1>4 DEF Sending

\* Every step of the intake is one of a message's case, or none of its.
LEMMA StepIsCase == ASSUME CaseInv, CaseInv', [Next]_vars PROVE [Case!Next]_(Case!caseVars)
<1> DEFINE verdict == [d \in Deliveries |-> IF outcome[d] \in {"gated", "investigated"}
                                            THEN outcome[d] ELSE "none"]
           owed == [d \in Deliveries |-> {todo[d][i] : i \in DOMAIN todo[d]}]
           handed == {[case |-> t[1], variant |-> t[2]] :
                         t \in {t \in Deliveries \X Variants : tasks[t] # "none"}}
           Steps == Case!Next \/ UNCHANGED Case!caseVars
<1> USE MsgType DEF CaseInv, IInv, TypeOK
<1>1. (UNCHANGED <<dedup, past, verdict, owed, handed>>) => Steps
  BY DEF Case!caseVars
<1>2. owed = [d \in Deliveries |-> Owed(d)] /\ owed' = [d \in Deliveries |-> Owed(d)']
  BY DEF Owed
<1>3. ASSUME NEW d \in Deliveries, RecordNew(d) \/ RecordResent(d)
      PROVE  Steps
  <2>1. dedup[Msg(d)] = NoRecord /\ dedup' = [dedup EXCEPT ![Msg(d)] = d] /\ pc[d] = "record"
    BY <1>3 DEF RecordNew, RecordResent, IsRecorded
  <2>2. \A n \in Messages : dedup[n] # d /\ d \notin past[n]
    BY <2>1 DEF Fresh
  <2>3. verdict' = verdict
    <3>1. outcome[d] = "none"
      BY <2>1 DEF Progress, ProgressOf, Undecided
    <3>2. QED
      BY <1>3, <3>1 DEF RecordNew, RecordResent
  <2>4. UNCHANGED <<past, todo, tasks>>
    BY <1>3 DEF RecordNew, RecordResent
  <2>5. Case!Open(Msg(d), d)
    BY <2>1, <2>2, <2>3, <2>4 DEF Case!Open
  <2>6. QED
    BY <2>5 DEF Case!Next
<1>4. ASSUME NEW d \in Deliveries, Gate(d)
      PROVE  Steps
  <2>1. dedup[Msg(d)] = d /\ d # NoRecord /\ outcome[d] = "none"
    BY <1>4, IntakeAssumption
       DEF Gate, WorkingAlone, BehindRecord, Progress, ProgressOf, Undecided
  <2>2. UNCHANGED <<dedup, past, tasks>>
    BY <1>4 DEF Gate, GateOut
  <2>3. CASE outcome' = [outcome EXCEPT ![d] = "gated"] /\ todo' = todo
    <3>1. verdict[d] = "none" /\ verdict' = [verdict EXCEPT ![d] = "gated"]
      BY <2>1, <2>3
    <3>2. Case!Gate(Msg(d))
      BY <2>1, <2>2, <2>3, <3>1 DEF Case!Gate
    <3>3. QED
      BY <3>2 DEF Case!Next
  <2>4. ASSUME NEW plan \in Plans, todo' = [todo EXCEPT ![d] = plan],
               outcome' = [outcome EXCEPT ![d] = "investigated"]
        PROVE  Steps
    <3>1. verdict[d] = "none" /\ verdict' = [verdict EXCEPT ![d] = "investigated"]
      BY <2>1, <2>4
    <3> DEFINE experiment == {plan[i] : i \in DOMAIN plan}
    <3>2. experiment \in {{"only"}, {"A", "B"}}
      <4>1. CASE plan = <<"only">>
        BY <4>1, PlansOwed
      <4>2. CASE plan = <<"A", "B">>
        BY <4>2, PlansOwed
      <4>3. QED
        BY <4>1, <4>2 DEF Plans
    <3>3. owed' = [owed EXCEPT ![d] = experiment]
      <4>1. \A c \in Deliveries : Owed(c)' = IF c = d THEN experiment ELSE Owed(c)
        BY <2>4 DEF Owed
      <4> HIDE DEF experiment, owed
      <4>2. QED
        BY <4>1, <1>2
    <3> HIDE DEF experiment
    <3>4. Case!Accept(Msg(d), experiment)
      BY <2>1, <2>2, <3>1, <3>3 DEF Case!Accept
    <3>5. QED
      BY <3>2, <3>4 DEF Case!Next
  <2>5. QED
    BY <1>4, <2>3, <2>4 DEF Gate, GateOut
<1>5. ASSUME NEW d \in Deliveries, Dispatch(d)
      PROVE  Steps
  <2>0. PICK v \in Variants : v = Head(todo[d])
    BY <1>5, DispatchOwes
  <2>1. dedup[Msg(d)] = d /\ d # NoRecord /\ outcome[d] = "investigated"
    BY <1>5, IntakeAssumption
       DEF Dispatch, WorkingAlone, BehindRecord, Progress, ProgressOf, Sending
  <2>2. /\ v \in Owed(d) \ Sent(d) /\ v \in Variants
        /\ Owed(d)' = Owed(d) \ {v}
        /\ Owed(d) \in SUBSET {"only"} \/ Owed(d) \in SUBSET {"A", "B"}
    BY <1>5, <2>0, DispatchOwes
  <2>3. owed' = [owed EXCEPT ![d] = @ \ {v}]
    <3>1. \A c \in Deliveries \ {d} : todo'[c] = todo[c]
      BY <1>5 DEF Dispatch
    <3>2. \A c \in Deliveries : Owed(c)' = IF c = d THEN Owed(d) \ {v} ELSE Owed(c)
      <4>1. \A c \in Deliveries \ {d} : Owed(c)' = Owed(c)
        BY <3>1 DEF Owed
      <4>2. QED
        BY <2>2, <4>1
    <3> HIDE DEF owed
    <3>3. QED
      BY <3>2, <1>2
  <2>4. handed' = handed \cup {[case |-> d, variant |-> v]}
    <3>1. tasks' = [tasks EXCEPT ![<<d, v>>] = "queued"]
      BY <1>5, <2>0 DEF Dispatch
    <3>2. \A t \in Deliveries \X Variants :
            tasks'[t] # "none" <=> tasks[t] # "none" \/ t = <<d, v>>
      BY <3>1
    <3>3. <<d, v>> \in Deliveries \X Variants
      BY <2>2
    <3>4. QED
      BY <3>2, <3>3
  <2>5. [case |-> d, variant |-> v] \notin handed
    BY <2>2, HandedIs DEF Handed
  <2>6. v \in owed[d] /\ verdict[d] = "investigated" /\ UNCHANGED <<dedup, past, verdict>>
    BY <1>5, <2>1, <2>2 DEF Dispatch, Owed
  <2>7. Case!HandOver(Msg(d), v)
    BY <2>1, <2>3, <2>4, <2>5, <2>6 DEF Case!HandOver
  <2>8. PICK experiment \in {{"only"}, {"A", "B"}} : v \in experiment
    BY <2>2
  <2>9. Msg(d) \in Messages
    OBVIOUS
  <2>10. QED
    BY <2>7, <2>8, <2>9 DEF Case!Next
<1>6. ASSUME NEW m \in Messages, Expire(m)
      PROVE  Steps
  <2>1. Case!Close(m)
    BY <1>6 DEF Expire, IsRecorded, Case!Close
  <2>2. QED
    BY <2>1 DEF Case!Next
<1>7. ASSUME NEW d \in Deliveries, Ingest(d) \/ RecordDuplicate(d) \/ Deliver(d)
                                   \/ Ignore(d) \/ Fail(d)
      PROVE  Steps
  <2>1. UNCHANGED <<dedup, past, todo, tasks>>
    BY <1>7 DEF Ingest, RecordDuplicate, Deliver, Ignore, Fail
  <2>2. verdict' = verdict
    <3>1. CASE RecordDuplicate(d) \/ Ignore(d)
      <4>1. outcome[d] = "none"
        BY <3>1 DEF RecordDuplicate, Ignore, Progress, ProgressOf, Undecided
      <4>2. QED
        BY <3>1, <4>1 DEF RecordDuplicate, Ignore
    <3>2. CASE Ingest(d) \/ Deliver(d) \/ Fail(d)
      BY <3>2 DEF Ingest, Deliver, Fail
    <3>3. QED
      BY <1>7, <3>1, <3>2
  <2>3. QED
    BY <1>1, <2>1, <2>2
<1>8. ASSUME NEW t \in Deliveries \X Variants, RunTask(t)
      PROVE  Steps
  <2>1. UNCHANGED <<dedup, past, todo, outcome>>
    BY <1>8 DEF RunTask
  <2>2. \A u \in Deliveries \X Variants : tasks'[u] # "none" <=> tasks[u] # "none"
    BY <1>8 DEF RunTask
  <2>3. handed' = handed
    BY <2>2
  <2>4. verdict' = verdict /\ owed' = owed
    BY <2>1
  <2>5. QED
    BY <1>1, <2>1, <2>3, <2>4
<1>9. UNCHANGED vars => Steps
  BY <1>1 DEF vars
<1>10. QED
  BY <1>3, <1>4, <1>5, <1>6, <1>7, <1>8, <1>9 DEF Next, Handler

\* However many deliveries of however many events race, with whatever faults and
\* expiries, a message has one case at a time.
THEOREM DeliveriesAreOneCase == Spec => ImplementsMessageCase
<1>1. Init => Case!Init
  <2>1. ASSUME Init
        PROVE  [d \in Deliveries |-> {todo[d][i] : i \in DOMAIN todo[d]}] = [d \in Deliveries |-> {}]
    <3>1. \A d \in Deliveries : todo[d] = <<>>
      BY <2>1 DEF Init
    <3>2. \A d \in Deliveries : {todo[d][i] : i \in DOMAIN todo[d]} = {}
      BY <3>1, PlansOwed
    <3>3. QED
      BY <3>2
  <2>2. QED
    BY <2>1 DEF Init, Case!Init
<1>2. CaseInv /\ CaseInv' /\ [Next]_vars => [Case!Next]_(Case!caseVars)
  BY StepIsCase
<1>3. QED
  BY <1>1, <1>2, CaseInvariant, PTL DEF Spec, ImplementsMessageCase, Case!Spec
=============================================================================
