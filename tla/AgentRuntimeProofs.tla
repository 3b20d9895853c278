------------------------- MODULE AgentRuntimeProofs -------------------------
(***************************************************************************)
(* Proofs about a specialized agent's container, for any requests, budgets *)
(* and limits.                                                             *)
(***************************************************************************)
EXTENDS AgentRuntime, FiniteSetTheorems, TLAPS

\* The lock has one holder.
OneHolder == \A q, r \in Requests : state[q] = "running" /\ state[r] = "running" => q = r

\* A request that has not run yet has made nothing; one that ended keeps no calls.
Quiet(r) ==
    /\ state[r] = "waiting" => turns[r] = 0 /\ spent[r] = 0
    /\ state[r] # "running" => calls[r] = {}

\* What the hook and the counters hold is about the holder of the lock: the open
\* cycles are the turns it made calls in, all but the last of them over.
Holds(r) ==
    state[r] = "running" =>
        /\ usage = spent[r]
        /\ deadline = IF budget[r] = NoBudget THEN NoBudget ELSE armed[r] + budget[r]
        /\ cycles = Cardinality(Turns(calls[r]))
        /\ \A c \in calls[r] : c.turn <= turns[r]
        /\ IF turnOpen \/ turns[r] = 0
           THEN \A c \in calls[r] : c.turn # turns[r]
           ELSE \E c \in calls[r] : c.turn = turns[r]

Inner == /\ TypeOK /\ OneHolder
         /\ \A r \in Requests : Quiet(r) /\ Holds(r) /\ IsFiniteSet(Turns(calls[r]))
Verdicts == CeilingHolds /\ FirstPassRuns /\ NoLatePass /\ RefusedForOwnReasons
IInv == Inner /\ Verdicts /\ CostIsOwn

LEMMA NoTurns == Turns({}) = {} /\ IsFiniteSet({}) /\ Cardinality({}) = 0
BY FS_EmptySet DEF Turns

\* One more call is at most one more turn with calls.
LEMMA TurnsAdd == ASSUME NEW cs, NEW c PROVE Turns(cs \cup {c}) = Turns(cs) \cup {c.turn}
BY DEF Turns

\* The sets of turns after a step are those of the calls after it.
LEMMA TurnsNext ==
    \A r \in Requests : /\ Turns(calls[r])' = Turns(calls'[r])
                        /\ Turns(Ran(r))' = Turns(Ran(r)')
                        /\ \A n : PassesUpTo(r, n)' = {t \in Turns(calls'[r]) : t <= n}
BY DEF Turns, PassesUpTo

\* The initial states satisfy the invariant: no request has run.
LEMMA InitKeeps == ASSUME Init PROVE IInv
<1>1. Inner
  BY NoTurns, LoopAssumption DEF Init, Inner, TypeOK, OneHolder, Quiet, Holds
<1>2. \A r \in Requests : calls[r] = {} /\ Ran(r) = {} /\ Refused(r) = {}
  BY DEF Init, Ran, Refused
<1>3. CeilingHolds
  <2>1. \A r \in Requests : Turns(Ran(r)) = {}
    BY <1>2, NoTurns
  <2> QED BY <2>1, NoTurns, LoopAssumption DEF CeilingHolds
<1>4. FirstPassRuns /\ NoLatePass /\ RefusedForOwnReasons
  BY <1>2 DEF FirstPassRuns, NoLatePass, RefusedForOwnReasons
<1> QED BY <1>1, <1>3, <1>4 DEF IInv, Verdicts, CostIsOwn, Init

\* Nothing is said of requests without calls, and what was said of calls stays
\* true when no request but a finished one changes: the steps that only drop
\* calls, or leave them alone, keep the verdicts.
LEMMA VerdictsKept ==
    ASSUME IInv,
           \A r \in Requests :
              \/ calls'[r] = {}
              \/ calls'[r] = calls[r] /\ budget'[r] = budget[r] /\ armed'[r] = armed[r]
    PROVE  Verdicts'
<1>1. \A r \in Requests : calls'[r] = {} => Ran(r)' = {} /\ Refused(r)' = {}
  BY DEF Ran, Refused
<1>2. \A r \in Requests : calls'[r] = calls[r] => Ran(r)' = Ran(r) /\ Refused(r)' = Refused(r)
  BY DEF Ran, Refused
<1>3. CeilingHolds'
  <2>1. ASSUME NEW r \in Requests PROVE Cardinality(Turns(Ran(r)')) <= MaxCycles
    <3>1. CASE calls'[r] = {}
      <4>1. Cardinality(Turns(Ran(r)')) = 0
        BY <3>1, <1>1, NoTurns
      <4> QED BY <4>1, LoopAssumption
    <3>2. CASE calls'[r] = calls[r]
      BY <3>2, <1>2 DEF IInv, Verdicts, CeilingHolds
    <3> QED BY <3>1, <3>2
  <2> QED BY <2>1, TurnsNext DEF CeilingHolds
<1>4. FirstPassRuns'
  BY <1>1, <1>2 DEF IInv, Verdicts, FirstPassRuns
<1>5. NoLatePass'
  BY <1>1, <1>2 DEF IInv, Verdicts, NoLatePass
<1>6. RefusedForOwnReasons'
  <2>1. \A r \in Requests : calls'[r] = calls[r] =>
           \A n : PassesUpTo(r, n)' = PassesUpTo(r, n)
    BY TurnsNext DEF PassesUpTo
  <2> QED BY <1>1, <1>2, <2>1 DEF IInv, Verdicts, RefusedForOwnReasons
<1> QED BY <1>3, <1>4, <1>5, <1>6 DEF Verdicts

\* The step that matters: a tool call of the request that holds the lock.
LEMMA ToolCallKeeps == ASSUME IInv, NEW r \in Requests, ToolCall(r) PROVE IInv'
<1> DEFINE t == turns[r]
           call == [turn |-> t, at |-> now, vetoed |-> Vetoed(cycles')]
<1> USE DEF IInv, Inner
<1>0. /\ state[r] = "running" /\ t \in Nat /\ t > 0
      /\ calls' = [calls EXCEPT ![r] = @ \cup {call}]
      /\ call \in Calls
  BY DEF ToolCall, TypeOK, Calls, Vetoed
<1>1. /\ calls'[r] = calls[r] \cup {call}
      /\ \A q \in Requests \ {r} : calls'[q] = calls[q]
      /\ \A q \in Requests : state'[q] = state[q] /\ turns'[q] = turns[q]
                             /\ budget'[q] = budget[q] /\ armed'[q] = armed[q]
  BY <1>0 DEF ToolCall, TypeOK
<1>2. TypeOK'
  <2>1. calls' \in [Requests -> SUBSET Calls]
    BY <1>0 DEF TypeOK
  <2>2. cycles' \in Nat /\ usage' \in Nat /\ spent' \in [Requests -> Nat]
    BY DEF ToolCall, TypeOK
  <2> QED BY <2>1, <2>2 DEF ToolCall, TypeOK
<1>3. \A q \in Requests \ {r} : state[q] # "running" /\ calls[q] = {} /\ calls'[q] = {}
  BY <1>0, <1>1 DEF OneHolder, Quiet
<1>4. Turns(calls'[r]) = Turns(calls[r]) \cup {t}
  <2>1. Turns(calls[r] \cup {call}) = Turns(calls[r]) \cup {call.turn}
    BY TurnsAdd
  <2>2. call.turn = t
    OBVIOUS
  <2> QED BY <1>1, <2>1, <2>2
<1>5. /\ IsFiniteSet(Turns(calls'[r]))
      /\ cycles' = Cardinality(Turns(calls'[r]))
  <2>1. cycles = Cardinality(Turns(calls[r])) /\ IsFiniteSet(Turns(calls[r]))
    BY <1>0 DEF Holds
  <2>2. IF turnOpen THEN t \notin Turns(calls[r]) ELSE t \in Turns(calls[r])
    <3>1. IF turnOpen THEN \A c \in calls[r] : c.turn # t ELSE \E c \in calls[r] : c.turn = t
      BY <1>0 DEF Holds
    <3> QED BY <3>1 DEF Turns
  <2>3. cycles' = IF turnOpen THEN cycles + 1 ELSE cycles
    BY DEF ToolCall
  <2> QED BY <2>1, <2>2, <2>3, <1>4, FS_AddElement
<1>6. \A c \in calls'[r] : c \in Calls /\ c.turn <= t
  BY <1>0, <1>1 DEF Holds, TypeOK
<1>7. Inner'
  <2>1. usage' = spent'[r]
    BY <1>0 DEF ToolCall, Holds, TypeOK
  <2>2. Holds(r)'
    <3>1. cycles' = Cardinality(Turns(calls[r])')
      BY <1>5, TurnsNext
    <3>2. turns'[r] = t /\ turnOpen' = FALSE /\ call \in calls'[r] /\ call.turn = t
      BY <1>1 DEF ToolCall
    <3>3. deadline' = deadline
      BY DEF ToolCall
    <3>4. deadline' = IF budget'[r] = NoBudget THEN NoBudget ELSE armed'[r] + budget'[r]
      BY <3>3, <1>0, <1>1 DEF Holds
    <3>5. \A c \in calls'[r] : c.turn <= turns'[r]
      BY <3>2, <1>6
    <3>6. ~(turnOpen' \/ turns'[r] = 0) /\ \E c \in calls'[r] : c.turn = turns'[r]
      BY <3>2, <1>0
    <3> HIDE DEF call, t
    <3> QED BY <2>1, <3>1, <3>4, <3>5, <3>6 DEF Holds
  <2>3. \A q \in Requests \ {r} : Holds(q)' /\ Quiet(q)'
    BY <1>1, <1>3 DEF Holds, Quiet, ToolCall
  <2>4. Quiet(r)'
    BY <1>0, <1>1 DEF Quiet
  <2>5. OneHolder'
    BY <1>1 DEF OneHolder
  <2>6. \A q \in Requests \ {r} : IsFiniteSet(Turns(calls'[q]))
    BY <1>3, NoTurns
  <2> QED BY <1>2, <1>5, <2>2, <2>3, <2>4, <2>5, <2>6
<1>8. /\ Ran(r)' = Ran(r) \cup (IF Vetoed(cycles') THEN {} ELSE {call})
      /\ Refused(r)' = Refused(r) \cup (IF Vetoed(cycles') THEN {call} ELSE {})
      /\ \A q \in Requests \ {r} : Ran(q)' = {} /\ Refused(q)' = {}
  BY <1>1, <1>3 DEF Ran, Refused
<1>9. CeilingHolds'
  <2>1. CASE Vetoed(cycles')
    <3>1. \A q \in Requests : Ran(q)' = Ran(q)
      BY <2>1, <1>8, <1>3 DEF Ran
    <3> QED BY <3>1, TurnsNext DEF CeilingHolds, Verdicts
  <2>2. CASE ~Vetoed(cycles')
    <3>1. Turns(Ran(r)') \in SUBSET Turns(calls'[r])
      BY DEF Turns, Ran
    <3>2. cycles' <= MaxCycles
      BY <2>2, <1>2, LoopAssumption DEF Vetoed, TypeOK
    <3>3. Cardinality(Turns(Ran(r)')) <= MaxCycles
      <4>1. /\ IsFiniteSet(Turns(Ran(r)'))
            /\ Cardinality(Turns(Ran(r)')) <= Cardinality(Turns(calls'[r]))
        BY <3>1, <1>5, FS_Subset
      <4>2. Cardinality(Turns(Ran(r)')) \in Nat
        BY <4>1, FS_CardinalityType
      <4> QED BY <4>1, <4>2, <3>2, <1>5, <1>2, LoopAssumption DEF TypeOK
    <3>4. \A q \in Requests \ {r} : Cardinality(Turns(Ran(q)')) <= MaxCycles
      <4>1. \A q \in Requests \ {r} : Cardinality(Turns(Ran(q)')) = 0
        BY <1>8, NoTurns
      <4> QED BY <4>1, LoopAssumption
    <3> QED BY <3>3, <3>4, TurnsNext DEF CeilingHolds
  <2> QED BY <2>1, <2>2
\* Two open cycles are two turns with calls.
<1>10. cycles' >= 2 <=> \E b \in calls[r] : b.turn < t
  <2>1. ASSUME cycles' >= 2 PROVE \E b \in calls[r] : b.turn < t
    <3>1. Turns(calls'[r]) # {t}
      BY <2>1, <1>5, FS_Singleton
    <3>2. PICK b \in calls[r] : b.turn # t
      BY <3>1, <1>4 DEF Turns
    <3> QED BY <3>2, <1>6, <1>1, <1>0 DEF Calls
  <2>2. ASSUME NEW b \in calls[r], b.turn < t PROVE cycles' >= 2
    <3>1. {b.turn, t} \in SUBSET Turns(calls'[r])
      BY <1>4 DEF Turns
    <3>2. IsFiniteSet({b.turn, t}) /\ Cardinality({b.turn, t}) = 2
      <4>1. {b.turn, t} = {b.turn} \cup {t} /\ t \notin {b.turn}
        BY <2>2, <1>6, <1>1, <1>0 DEF Calls
      <4>2. IsFiniteSet({b.turn}) /\ Cardinality({b.turn}) = 1
        BY FS_Singleton
      <4>3. Cardinality({b.turn} \cup {t}) = 1 + 1 /\ IsFiniteSet({b.turn} \cup {t})
        BY <4>1, <4>2, FS_AddElement
      <4> QED BY <4>1, <4>3
    <3>3. 2 <= Cardinality(Turns(calls'[r]))
      BY <3>1, <3>2, <1>5, FS_Subset
    <3> QED BY <3>3, <1>5, <1>2 DEF TypeOK
  <2> QED BY <2>1, <2>2
<1>11. FirstPassRuns'
  <2>1. Vetoed(cycles') => cycles' >= 2
    BY <1>2, LoopAssumption DEF Vetoed, TypeOK
  <2>2. ASSUME NEW c \in Refused(r)' PROVE \E b \in calls'[r] : b.turn < c.turn
    <3>1. CASE c \in Refused(r)
      BY <3>1, <1>1 DEF FirstPassRuns, Verdicts
    <3>2. CASE c = call /\ Vetoed(cycles')
      BY <3>2, <2>1, <1>10, <1>1
    <3> QED BY <3>1, <3>2, <2>2, <1>8
  <2> QED BY <2>2, <1>8 DEF FirstPassRuns
<1>12. deadline = IF budget[r] = NoBudget THEN NoBudget ELSE armed[r] + budget[r]
  BY <1>0 DEF Holds
<1>13. NoLatePass'
  <2>1. ASSUME budget[r] # NoBudget, NEW b \in Ran(r)', NEW c \in Ran(r)', b.turn < c.turn
        PROVE  c.at + EmitReserve <= armed[r] + budget[r]
    <3>0. b \in calls'[r] /\ c \in calls'[r]
      BY <2>1 DEF Ran
    <3>1. CASE b \in Ran(r) /\ c \in Ran(r)
      BY <3>1, <2>1 DEF NoLatePass, Verdicts
    <3>2. CASE b = call
      BY <3>2, <3>0, <2>1, <1>6, <1>0 DEF Calls
    <3>3. CASE c = call /\ b # call
      <4>1. b \in calls[r] /\ ~Vetoed(cycles')
        BY <3>3, <3>0, <2>1, <1>1 DEF Ran
      <4>2. cycles' >= 2
        BY <4>1, <3>3, <2>1, <1>10
      <4>3. deadline # NoBudget /\ deadline = armed[r] + budget[r] /\ armed[r] + budget[r] \in Nat
        BY <2>1, <1>12, LoopAssumption DEF TypeOK
      <4> QED BY <4>1, <4>2, <4>3, <3>3, LoopAssumption DEF Vetoed, TypeOK
    <3> QED BY <3>1, <3>2, <3>3, <2>1, <1>8
  <2> QED BY <2>1, <1>1, <1>8 DEF NoLatePass
<1>14. RefusedForOwnReasons'
  <2>0. \A n : PassesUpTo(r, n) \in SUBSET PassesUpTo(r, n)'
    BY <1>4 DEF PassesUpTo
  <2>1. \A n : IsFiniteSet(PassesUpTo(r, n)')
    BY <1>5, FS_Subset DEF PassesUpTo
  <2>2. ASSUME NEW c \in Refused(r)'
        PROVE  \/ Cardinality(PassesUpTo(r, c.turn)') > MaxCycles
               \/ budget[r] # NoBudget /\ c.at + EmitReserve > armed[r] + budget[r]
    <3>1. CASE c \in Refused(r)
      <4>1. /\ Cardinality(PassesUpTo(r, c.turn)) <= Cardinality(PassesUpTo(r, c.turn)')
            /\ Cardinality(PassesUpTo(r, c.turn)) \in Nat
            /\ Cardinality(PassesUpTo(r, c.turn)') \in Nat
        BY <2>0, <2>1, FS_Subset, FS_CardinalityType
      <4> QED BY <4>1, <3>1, LoopAssumption DEF RefusedForOwnReasons, Verdicts
    <3>2. CASE c = call /\ Vetoed(cycles')
      <4>1. PassesUpTo(r, c.turn)' = Turns(calls'[r])
        <5>1. \A n \in Turns(calls'[r]) : n <= t
          BY <1>6 DEF Turns
        <5>2. c.turn = t
          BY <3>2
        <5> HIDE DEF t
        <5> QED BY <5>1, <5>2, TurnsNext
      <4>2. CASE cycles' > MaxCycles
        <5> HIDE DEF call, t
        <5> QED BY <4>1, <4>2, <1>5
      <4>3. CASE ~(cycles' > MaxCycles)
        <5>1. deadline # NoBudget /\ now > deadline - EmitReserve
          BY <4>3, <3>2 DEF Vetoed
        <5>2. budget[r] # NoBudget /\ deadline = armed[r] + budget[r]
          BY <5>1, <1>12
        <5> QED BY <5>1, <5>2, <3>2, LoopAssumption DEF TypeOK
      <4> QED BY <4>2, <4>3
    <3> QED BY <3>1, <3>2, <2>2, <1>8
  <2> QED BY <2>2, <1>1, <1>8 DEF RefusedForOwnReasons
<1>15. CostIsOwn'
  BY <1>0, <1>1 DEF ToolCall, CostIsOwn, TypeOK
<1> QED BY <1>7, <1>9, <1>11, <1>13, <1>14, <1>15 DEF Verdicts

\* Every step preserves the invariant.
LEMMA NextKeeps == ASSUME IInv, [Next]_vars PROVE IInv'
<1> USE DEF IInv, Inner
<1>1. ASSUME NEW r \in Requests, Start(r) PROVE IInv'
  <2>1. \A q \in Requests : state[q] # "running" /\ calls[q] = {}
    BY <1>1 DEF Start, LockFree, Quiet
  <2>2. PICK b \in Budgets \cup {NoBudget} : Arm(b) /\ budget' = [budget EXCEPT ![r] = b]
    BY <1>1 DEF Start
  <2>3. TypeOK'
    <3>1. deadline' \in Nat \cup {NoBudget} /\ cycles' \in Nat /\ turnOpen' \in BOOLEAN
      <4>1. CASE b = NoBudget
        BY <4>1, <2>2 DEF Arm
      <4>2. CASE b \in Nat
        <5>1. now + b \in Nat
          BY <4>2 DEF TypeOK
        <5> QED BY <5>1, <2>2 DEF Arm
      <4> QED BY <4>1, <4>2, LoopAssumption
    <3>2. budget' \in [Requests -> Budgets \cup {NoBudget}]
      BY <2>2 DEF TypeOK
    <3> QED BY <1>1, <3>1, <3>2 DEF Start, TypeOK
  <2>4. Holds(r)'
    BY <1>1, <2>1, <2>2, NoTurns DEF Start, Arm, Holds, Quiet, TypeOK
  <2>5. \A q \in Requests \ {r} : Holds(q)'
    BY <1>1, <2>1 DEF Start, Holds, TypeOK
  <2>6. \A q \in Requests : Quiet(q)' /\ IsFiniteSet(Turns(calls'[q]))
    BY <1>1, <2>1, NoTurns DEF Start, Quiet, TypeOK
  <2>7. OneHolder'
    BY <1>1, <2>1 DEF Start, OneHolder, TypeOK
  <2>8. Verdicts'
    BY <1>1, <2>1, VerdictsKept DEF Start
  <2>9. CostIsOwn'
    BY <1>1 DEF Start, CostIsOwn, TypeOK
  <2> QED BY <2>3, <2>4, <2>5, <2>6, <2>7, <2>8, <2>9
<1>2. ASSUME NEW r \in Requests, ModelTurn(r) PROVE IInv'
  <2>1. TypeOK'
    BY <1>2 DEF ModelTurn, TypeOK
  <2>2. Holds(r)'
    <3>1. \A c \in calls[r] : c \in Calls /\ c.turn <= turns[r]
      BY <1>2 DEF ModelTurn, Holds, TypeOK
    <3>2. turns'[r] = turns[r] + 1 /\ turns[r] \in Nat /\ turnOpen' = TRUE
      BY <1>2 DEF ModelTurn, TypeOK
    <3>3. \A c \in calls[r] : c.turn < turns'[r]
      BY <3>1, <3>2 DEF Calls
    <3> QED BY <1>2, <3>1, <3>2, <3>3 DEF ModelTurn, Holds, Calls
  <2>3. \A q \in Requests \ {r} : Holds(q)'
    BY <1>2 DEF ModelTurn, OneHolder, Holds
  <2>4. OneHolder' /\ \A q \in Requests : Quiet(q)' /\ IsFiniteSet(Turns(calls'[q]))
    BY <1>2 DEF ModelTurn, OneHolder, Quiet, TypeOK
  <2>5. Verdicts'
    BY <1>2, VerdictsKept DEF ModelTurn
  <2> QED BY <1>2, <2>1, <2>2, <2>3, <2>4, <2>5 DEF ModelTurn, CostIsOwn
<1>3. ASSUME NEW r \in Requests, Reply(r) \/ Raise(r) PROVE IInv'
  <2>1. TypeOK'
    BY <1>3 DEF Reply, Raise, TypeOK, hook
  <2>2. /\ calls'[r] = {} /\ state'[r] # "running" /\ state'[r] # "waiting"
        /\ \A q \in Requests \ {r} : calls'[q] = calls[q] /\ state'[q] = state[q]
        /\ UNCHANGED <<now, hook, usage, budget, turns, armed, spent>>
    BY <1>3 DEF Reply, Raise, TypeOK
  <2>3. \A q \in Requests : Holds(q)' /\ Quiet(q)'
    BY <2>2 DEF Holds, Quiet, hook
  <2>4. OneHolder' /\ \A q \in Requests : IsFiniteSet(Turns(calls'[q]))
    BY <2>2, NoTurns DEF OneHolder
  <2>5. Verdicts'
    BY <2>2, VerdictsKept
  <2>6. CostIsOwn'
    BY <1>3 DEF Reply, Raise, CostIsOwn, Holds, TypeOK
  <2> QED BY <2>1, <2>3, <2>4, <2>5, <2>6
<1>4. CASE Tick \/ UNCHANGED vars
  <2>1. TypeOK'
    BY <1>4 DEF Tick, TypeOK, vars, hook
  <2>2. OneHolder' /\ \A q \in Requests : Quiet(q)' /\ Holds(q)' /\ IsFiniteSet(Turns(calls'[q]))
    BY <1>4 DEF Tick, vars, hook, OneHolder, Quiet, Holds
  <2>3. Verdicts'
    BY <1>4, VerdictsKept DEF Tick, vars
  <2> QED BY <1>4, <2>1, <2>2, <2>3 DEF Tick, vars, CostIsOwn
<1> QED BY <1>1, <1>2, <1>3, <1>4, ToolCallKeeps DEF Next

LEMMA Invariant == Spec => []IInv
<1>1. Init => IInv
  BY InitKeeps
<1>2. IInv /\ [Next]_vars => IInv'
  BY NextKeeps
<1> QED BY <1>1, <1>2, PTL DEF Spec

\* Every variable holds a value of its kind, in every execution.
THEOREM TypeCorrect == Spec => []TypeOK
<1>1. IInv => TypeOK
  BY DEF IInv, Inner
<1> QED BY <1>1, Invariant, PTL

\* For any cap and any number of requests, calls and turns, a request's tools run
\* in at most MaxCycles of its model turns.
THEOREM CeilingIsHard == Spec => []CeilingHolds
<1>1. IInv => CeilingHolds
  BY DEF IInv, Verdicts
<1> QED BY <1>1, Invariant, PTL

\* For any budget, even none left, the first pass of a request runs.
THEOREM FirstPassAlwaysRuns == Spec => []FirstPassRuns
<1>1. IInv => FirstPassRuns
  BY DEF IInv, Verdicts
<1> QED BY <1>1, Invariant, PTL

\* For any budget and reserve, a later pass runs before the request's own deadline
\* less the reserve, or not at all.
THEOREM DeadlineGates == Spec => []NoLatePass
<1>1. IInv => NoLatePass
  BY DEF IInv, Verdicts
<1> QED BY <1>1, Invariant, PTL

\* The one hook an agent shares among its requests never refuses one of them a
\* tool because of another.
THEOREM SharedHookIsSafe == Spec => []RefusedForOwnReasons
<1>1. IInv => RefusedForOwnReasons
  BY DEF IInv, Verdicts
<1> QED BY <1>1, Invariant, PTL

\* The process-wide token counters are billed to the request that spent them.
THEOREM CostIsBilledRight == Spec => []CostIsOwn
<1>1. IInv => CostIsOwn
  BY DEF IInv
<1> QED BY <1>1, Invariant, PTL

-----------------------------------------------------------------------------
(* The shared hook implements a loop of one's own.                           *)

\* The cycles a call leaves open are the passes of its own request.
LEMMA OwnPasses == ASSUME IInv, NEW r \in Requests, ToolCall(r)
                   PROVE  cycles' = Private!Passes(r)
<1> DEFINE t == turns[r]
           call == [turn |-> t, at |-> now, vetoed |-> Vetoed(cycles')]
<1>1. state[r] = "running" /\ calls'[r] = calls[r] \cup {call} /\ call.turn = t
  BY DEF ToolCall, IInv, Inner, TypeOK
<1> HIDE DEF call, t
<1>2. state'[r] = "running" /\ IInv'
  BY <1>1, ToolCallKeeps DEF ToolCall
<1>3. cycles' = Cardinality(Turns(calls'[r]))
  BY <1>2, TurnsNext DEF IInv, Inner, Holds
<1>4. Turns(calls'[r]) = Turns(calls[r]) \cup {t}
  BY <1>1, TurnsAdd
<1>5. Private!Passes(r) = Private!Cardinality(Turns(calls'[r]))
  BY <1>4 DEF Turns, Private!Passes, t
<1>6. QED
  BY <1>3, <1>5 DEF Cardinality, Private!Cardinality

\* The verdict on a call is that of its request's own loop.
LEMMA OwnVerdict == ASSUME IInv, NEW r \in Requests, ToolCall(r)
                    PROVE  Vetoed(cycles') <=> Private!Refuses(r)
<1>1. deadline = IF budget[r] = NoBudget THEN NoBudget ELSE armed[r] + budget[r]
  BY DEF ToolCall, IInv, Inner, Holds
<1>2. QED
  BY <1>1, OwnPasses DEF Vetoed, Private!Refuses

\* Every step of the container is one of the lone loops, or none of theirs.
LEMMA StepIsPrivate == ASSUME IInv, IInv', [Next]_vars PROVE [Private!Next]_(Private!loopVars)
<1> DEFINE phase == [r \in Requests |-> IF state[r] \in {"replied", "raised"} THEN "over" ELSE state[r]]
           due == [r \in Requests |-> IF budget[r] = NoBudget THEN NoBudget ELSE armed[r] + budget[r]]
           bill == [r \in Requests |-> IF state[r] = "replied" THEN reported[r] ELSE spent[r]]
<1> USE DEF IInv, Inner
<1>1. ASSUME NEW r \in Requests, Start(r) PROVE Private!Begin(r)
  <2>1. PICK b \in Budgets \cup {NoBudget} : budget' = [budget EXCEPT ![r] = b]
    BY <1>1 DEF Start
  <2> DEFINE d == IF b = NoBudget THEN NoBudget ELSE now + b
  <2>2. d \in {NoBudget} \cup {now + a : a \in Budgets}
    OBVIOUS
  <2>3. due' = [due EXCEPT ![r] = d]
    BY <1>1, <2>1 DEF Start, TypeOK
  <2>4. phase[r] = "waiting" /\ phase' = [phase EXCEPT ![r] = "running"]
    BY <1>1 DEF Start, TypeOK
  <2>5. bill' = bill
    BY <1>1 DEF Start, TypeOK
  <2>6. UNCHANGED <<now, turns, calls>>
    BY <1>1 DEF Start
  <2> HIDE DEF d
  <2>7. QED
    BY <2>2, <2>3, <2>4, <2>5, <2>6 DEF Private!Begin
<1>2. ASSUME NEW r \in Requests, ModelTurn(r) PROVE Private!Turn(r)
  BY <1>2 DEF ModelTurn, Private!Turn
<1>3. ASSUME NEW r \in Requests, ToolCall(r) PROVE Private!Call(r)
  <2>1. PICK n \in {0, 1} : /\ n = 1 => ~Vetoed(cycles')
                            /\ spent' = [spent EXCEPT ![r] = @ + n]
    BY <1>3 DEF ToolCall
  <2>2. UNCHANGED <<now, phase, due, turns>> /\ phase[r] = "running" /\ turns[r] > 0
    BY <1>3 DEF ToolCall
  <2>3. calls' = [calls EXCEPT ![r] = @ \cup
                    {[turn |-> turns[r], at |-> now, vetoed |-> Private!Refuses(r)]}]
    <3>1. Vetoed(cycles') = Private!Refuses(r)
      BY <1>3, OwnVerdict DEF Vetoed, Private!Refuses
    <3>2. QED
      BY <1>3, <3>1 DEF ToolCall
  <2>4. \/ bill' = bill
        \/ ~Private!Refuses(r) /\ bill' = [bill EXCEPT ![r] = @ + 1]
    <3>1. CASE n = 0
      <4>1. spent' = spent
        BY <2>1, <3>1 DEF TypeOK
      <4>2. QED
        BY <1>3, <4>1 DEF ToolCall
    <3>2. CASE n = 1
      <4>1. ~Private!Refuses(r)
        BY <1>3, <2>1, <3>2, OwnVerdict
      <4>2. bill' = [bill EXCEPT ![r] = @ + 1]
        BY <1>3, <2>1, <3>2 DEF ToolCall, TypeOK
      <4>3. QED
        BY <4>1, <4>2
    <3>3. QED
      BY <3>1, <3>2
  <2>5. QED
    BY <2>2, <2>3, <2>4 DEF Private!Call
<1>4. ASSUME NEW r \in Requests, Reply(r) \/ Raise(r) PROVE Private!End(r)
  <2>1. phase[r] = "running" /\ phase' = [phase EXCEPT ![r] = "over"]
    BY <1>4 DEF Reply, Raise, TypeOK
  <2>2. bill' = bill
    BY <1>4 DEF Reply, Raise, Holds, TypeOK
  <2>3. calls' = [calls EXCEPT ![r] = {}] /\ UNCHANGED <<now, due, turns>>
    BY <1>4 DEF Reply, Raise
  <2>4. QED
    BY <2>1, <2>2, <2>3 DEF Private!End
<1>5. Tick => Private!Tick
  BY DEF Tick, Private!Tick
<1>6. UNCHANGED vars => UNCHANGED Private!loopVars
  BY DEF vars, Private!loopVars
<1>7. QED
  BY <1>1, <1>2, <1>3, <1>4, <1>5, <1>6 DEF Next, Private!Next

\* Whatever the number of requests and the order in which they get the lock, the
\* container is to each of them a loop and a bill of its own.
THEOREM HookIsPrivate == Spec => ImplementsPrivateLoop
<1>1. Init => Private!Init
  BY DEF Init, Private!Init
<1>2. IInv /\ IInv' /\ [Next]_vars => [Private!Next]_(Private!loopVars)
  BY StepIsPrivate
<1>3. QED
  BY <1>1, <1>2, Invariant, PTL DEF Spec, ImplementsPrivateLoop, Private!Spec
=============================================================================
