---------------------------- MODULE AgentRuntime ----------------------------
(***************************************************************************)
(* A specialized agent's container serving A2A requests                    *)
(* (shared/a2a_factory.py, shared/bounded_loop.py, shared/log_summarizer): *)
(* the executor's lock serialises the requests; the one that holds it      *)
(* zeroes the process-wide token counters and arms the one shared hook,    *)
(* which then allows or vetoes every tool call of the model. The model is  *)
(* free to take turns and to call tools as it likes, at any time.          *)
(***************************************************************************)
EXTENDS Integers, FiniteSets

CONSTANTS
    Requests,     \* the requests queued on the executor's lock
    Budgets,      \* possible values of deadline_seconds
    NoBudget,     \* deadline_seconds absent: no deadline gate
    MaxCycles,    \* max_tool_cycles of the agent
    EmitReserve,  \* emit_reserve_seconds
    MaxTurns,     \* bound on the model turns of a request
    MaxUsage,     \* bound on the summarizer calls of a request
    MaxTime       \* bound on the clock

ASSUME LoopAssumption ==
    /\ Budgets \subseteq Nat /\ NoBudget \notin Int
    /\ MaxCycles \in Nat \ {0} /\ EmitReserve \in Nat
    /\ MaxTurns \in Nat /\ MaxUsage \in Nat /\ MaxTime \in Nat

VARIABLES
    now,        \* time.monotonic()
    state,      \* per request: "waiting", "running", "replied" or "raised"
    cycles,     \* BoundedLoopHook._cycles
    turnOpen,   \* BoundedLoopHook._turn_open
    deadline,   \* BoundedLoopHook._deadline
    usage,      \* _usage_calls of the summarizer
    \* What the requests asked for and got, for the properties:
    budget,     \* per request: its deadline_seconds
    turns,      \* per request: its model turns
    armed,      \* per request: when it got the lock
    calls,      \* per running request: its tool calls [turn, at, vetoed]
    spent,      \* per request: the summarizer calls its tools made
    reported    \* per request: the summarizer calls its reply accounts for

hook == <<cycles, turnOpen, deadline>>
vars == <<now, state, hook, usage, budget, turns, armed, calls, spent, reported>>

-----------------------------------------------------------------------------
(* Faulty variants of the definitions below.                                 *)

\* arm() that keeps the cycles of the request before.
ArmKeepsCycles(b) ==
    /\ cycles' = cycles /\ turnOpen' = FALSE
    /\ deadline' = IF b = NoBudget THEN NoBudget ELSE now + b
\* arm() that does not drop the deadline of the request before.
ArmKeepsDeadline(b) ==
    /\ cycles' = 0 /\ turnOpen' = FALSE
    /\ deadline' = IF b = NoBudget THEN deadline ELSE now + b
\* The cap off by one.
VetoedLate(c) ==
    \/ c > MaxCycles + 1
    \/ c >= 2 /\ deadline # NoBudget /\ now > deadline - EmitReserve
\* The deadline gate without the emit reserve.
VetoedWithoutReserve(c) ==
    \/ c > MaxCycles
    \/ c >= 2 /\ deadline # NoBudget /\ now > deadline
\* A request that does not wait for the lock.
LockFreeIgnored == TRUE
-----------------------------------------------------------------------------

\* BoundedLoopHook.arm
Arm(b) ==
    /\ cycles' = 0 /\ turnOpen' = FALSE
    /\ deadline' = IF b = NoBudget THEN NoBudget ELSE now + b

\* _cancel_reason, with c cycles opened: past the cap, or a pass after the first
\* when all that is left of the budget is the reserve.
Vetoed(c) ==
    \/ c > MaxCycles
    \/ c >= 2 /\ deadline # NoBudget /\ now > deadline - EmitReserve

\* _invocation_lock is free.
LockFree == \A r \in Requests : state[r] # "running"

Init ==
    /\ now = 0
    /\ state = [r \in Requests |-> "waiting"]
    /\ cycles = 0 /\ turnOpen = FALSE /\ deadline = NoBudget
    /\ usage = 0
    /\ budget = [r \in Requests |-> NoBudget]
    /\ turns = [r \in Requests |-> 0] /\ armed = [r \in Requests |-> 0]
    /\ calls = [r \in Requests |-> {}]
    /\ spent = [r \in Requests |-> 0] /\ reported = [r \in Requests |-> 0]

\* execute() got the lock: zero the counters, read the budget, arm the hook.
Start(r) ==
    /\ state[r] = "waiting" /\ LockFree
    /\ state' = [state EXCEPT ![r] = "running"]
    /\ usage' = 0
    /\ \E b \in Budgets \cup {NoBudget} :
         /\ Arm(b)
         /\ budget' = [budget EXCEPT ![r] = b]
    /\ armed' = [armed EXCEPT ![r] = now]
    /\ UNCHANGED <<now, turns, calls, spent, reported>>

\* _on_before_model
ModelTurn(r) ==
    /\ state[r] = "running" /\ turns[r] < MaxTurns
    /\ turns' = [turns EXCEPT ![r] = @ + 1]
    /\ turnOpen' = TRUE
    /\ UNCHANGED <<now, state, cycles, deadline, usage, budget, armed, calls, spent, reported>>

\* _on_before_tool: the first call of a turn opens a cycle; a call that is not
\* vetoed runs, and may have bulk text summarised (record_usage).
ToolCall(r) ==
    /\ state[r] = "running" /\ turns[r] > 0
    /\ cycles' = IF turnOpen THEN cycles + 1 ELSE cycles
    /\ turnOpen' = FALSE
    /\ calls' = [calls EXCEPT ![r] = @ \cup
                   {[turn |-> turns[r], at |-> now, vetoed |-> Vetoed(cycles')]}]
    /\ \E n \in {0, 1} :
         /\ n = 1 => ~Vetoed(cycles') /\ spent[r] < MaxUsage
         /\ usage' = usage + n
         /\ spent' = [spent EXCEPT ![r] = @ + n]
    /\ UNCHANGED <<now, state, deadline, budget, turns, armed, reported>>

\* The model is done: the reply carries the drained counters; the lock is freed.
Reply(r) ==
    /\ state[r] = "running" /\ turns[r] > 0
    /\ state' = [state EXCEPT ![r] = "replied"]
    /\ reported' = [reported EXCEPT ![r] = usage]
    /\ calls' = [calls EXCEPT ![r] = {}]
    /\ UNCHANGED <<now, hook, usage, budget, turns, armed, spent>>

\* The agent raised: the lock is freed, counters and hook stay as they are.
Raise(r) ==
    /\ state[r] = "running"
    /\ state' = [state EXCEPT ![r] = "raised"]
    /\ calls' = [calls EXCEPT ![r] = {}]
    /\ UNCHANGED <<now, hook, usage, budget, turns, armed, spent, reported>>

Tick ==
    /\ now < MaxTime
    /\ now' = now + 1
    /\ UNCHANGED <<state, hook, usage, budget, turns, armed, calls, spent, reported>>

Next == \/ \E r \in Requests : Start(r) \/ ModelTurn(r) \/ ToolCall(r) \/ Reply(r) \/ Raise(r)
        \/ Tick

Spec == Init /\ [][Next]_vars

-----------------------------------------------------------------------------
(* Properties.                                                               *)

\* Every variable holds a value of its kind: the hook's deadline is an instant of
\* the monotonic clock, or absent.
Calls == [turn : Nat, at : Nat, vetoed : BOOLEAN]
TypeOK ==
    /\ now \in Nat
    /\ state \in [Requests -> {"waiting", "running", "replied", "raised"}]
    /\ cycles \in Nat /\ turnOpen \in BOOLEAN /\ deadline \in Nat \cup {NoBudget}
    /\ usage \in Nat
    /\ budget \in [Requests -> Budgets \cup {NoBudget}]
    /\ turns \in [Requests -> Nat] /\ armed \in [Requests -> Nat]
    /\ calls \in [Requests -> SUBSET Calls]
    /\ spent \in [Requests -> Nat] /\ reported \in [Requests -> Nat]

Turns(cs) == {c.turn : c \in cs}
Ran(r) == {c \in calls[r] : ~c.vetoed}
Refused(r) == {c \in calls[r] : c.vetoed}
PassesUpTo(r, n) == {t \in Turns(calls[r]) : t <= n}

\* "A hard ceiling of max_cycles tool-use cycles" (shared/bounded_loop.py): the
\* tool calls that ran for one request come from at most MaxCycles model turns,
\* whatever the model asks for and whoever used the shared hook before.
CeilingHolds == \A r \in Requests : Cardinality(Turns(Ran(r))) <= MaxCycles

\* "The first pass always runs": a refused call has an earlier pass of the same
\* request before it, even when the request starts with its budget spent.
FirstPassRuns ==
    \A r \in Requests : \A c \in Refused(r) : \E b \in calls[r] : b.turn < c.turn

\* Past its first pass, a request runs no tool once all that is left of its own
\* budget, counted from when it got the lock, is the emit reserve.
NoLatePass ==
    \A r \in Requests : budget[r] # NoBudget =>
        \A b, c \in Ran(r) :
            b.turn < c.turn => c.at + EmitReserve <= armed[r] + budget[r]

\* A request is refused tools for its own reasons only, never for the cycles or
\* the deadline the shared hook was left with by another: past the ceiling, or
\* past its own deadline less the reserve.
RefusedForOwnReasons ==
    \A r \in Requests : \A c \in Refused(r) :
        \/ Cardinality(PassesUpTo(r, c.turn)) > MaxCycles
        \/ budget[r] # NoBudget /\ c.at + EmitReserve > armed[r] + budget[r]

\* A reply accounts for the summarizer calls of its own tools: all of them, and
\* none of a request that ran, or raised, before it.
CostIsOwn == \A r \in Requests : state[r] = "replied" => reported[r] = spent[r]

\* "Never cancelling a pass mid-flight" (shared/bounded_loop.py): a pass whose
\* tools were allowed to run is not refused another one.
PassNeverCut ==
    \A r \in Requests : \A b \in Ran(r), c \in Refused(r) : b.turn # c.turn

\* To each request the shared hook, armed anew behind the executor's lock, and the
\* process-wide counters, zeroed with it, are a loop and a bill of its own: the
\* container implements the one of PrivateLoop, where nothing is shared.
Private == INSTANCE PrivateLoop WITH
    phase <- [r \in Requests |-> IF state[r] \in {"replied", "raised"} THEN "over" ELSE state[r]],
    due   <- [r \in Requests |-> IF budget[r] = NoBudget THEN NoBudget ELSE armed[r] + budget[r]],
    bill  <- [r \in Requests |-> IF state[r] = "replied" THEN reported[r] ELSE spent[r]]
ImplementsPrivateLoop == Private!Spec
=============================================================================
