---------------------------- MODULE PrivateLoop ----------------------------
(***************************************************************************)
(* What a request to a specialized agent may count on: a bounded loop and  *)
(* a bill of its own. Requests run side by side here; there is no lock, no *)
(* hook and no counter. A tool call is refused, or not, by what this very  *)
(* request did before it and when it started, and the bill is for its own  *)
(* calls.                                                                  *)
(***************************************************************************)
EXTENDS Integers, FiniteSets

CONSTANTS Requests, Budgets, NoBudget, MaxCycles, EmitReserve

VARIABLES
    now,      \* the time
    phase,    \* per request: "waiting", "running" or "over"
    due,      \* per request: the instant its budget ends, or NoBudget
    turns,    \* per request: model turns
    calls,    \* per running request: its tool calls [turn, at, vetoed]
    bill      \* per request: summarizer calls charged to it

loopVars == <<now, phase, due, turns, calls, bill>>

\* The passes of a request so far: its turns with calls, the present one included.
Passes(r) == Cardinality({c.turn : c \in calls[r]} \cup {turns[r]})

Refuses(r) ==
    \/ Passes(r) > MaxCycles
    \/ Passes(r) >= 2 /\ due[r] # NoBudget /\ now > due[r] - EmitReserve

Init ==
    /\ now = 0
    /\ phase = [r \in Requests |-> "waiting"]
    /\ due = [r \in Requests |-> NoBudget]
    /\ turns = [r \in Requests |-> 0]
    /\ calls = [r \in Requests |-> {}]
    /\ bill = [r \in Requests |-> 0]

Begin(r) ==
    /\ phase[r] = "waiting"
    /\ phase' = [phase EXCEPT ![r] = "running"]
    /\ \E d \in {NoBudget} \cup {now + b : b \in Budgets} : due' = [due EXCEPT ![r] = d]
    /\ UNCHANGED <<now, turns, calls, bill>>

Turn(r) ==
    /\ phase[r] = "running"
    /\ turns' = [turns EXCEPT ![r] = @ + 1]
    /\ UNCHANGED <<now, phase, due, calls, bill>>

\* A tool call; one that is not refused may cost a summarizer call.
Call(r) ==
    /\ phase[r] = "running" /\ turns[r] > 0
    /\ calls' = [calls EXCEPT ![r] = @ \cup
                   {[turn |-> turns[r], at |-> now, vetoed |-> Refuses(r)]}]
    /\ \/ bill' = bill
       \/ ~Refuses(r) /\ bill' = [bill EXCEPT ![r] = @ + 1]
    /\ UNCHANGED <<now, phase, due, turns>>

\* The end, with a reply or not.
End(r) ==
    /\ phase[r] = "running"
    /\ phase' = [phase EXCEPT ![r] = "over"]
    /\ calls' = [calls EXCEPT ![r] = {}]
    /\ UNCHANGED <<now, due, turns, bill>>

Tick == now' = now + 1 /\ UNCHANGED <<phase, due, turns, calls, bill>>

Next == (\E r \in Requests : Begin(r) \/ Turn(r) \/ Call(r) \/ End(r)) \/ Tick

Spec == Init /\ [][Next]_loopVars
=============================================================================
