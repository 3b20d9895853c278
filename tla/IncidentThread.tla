---------------------------- MODULE IncidentThread ----------------------------
(***************************************************************************)
(* What the people in an incident's thread are promised, whatever the      *)
(* orchestrator does inside: at most one Incident Report; after it, one    *)
(* update for each agent the report (or a follow-up round) told them to    *)
(* wait for and for no other; and no message once the investigation is     *)
(* closed, when the agents still owed an update were cut off.  A message   *)
(* here is the orchestrator's delivery of it, retries included; the chat   *)
(* platform may still refuse it.                                           *)
(***************************************************************************)
EXTENDS FiniteSets, Naturals

CONSTANTS Agents, Cap     \* Cap: the most agents a follow-up round may add

VARIABLES
    stage,   \* "investigating", "reported" or "closed"
    owed,    \* agents the thread is waiting to hear about
    rounds   \* follow-up rounds so far

threadVars == <<stage, owed, rounds>>

Init == stage = "investigating" /\ owed = {} /\ rounds = 0

\* The report names the agents that are still investigating.
Report(P) ==
    /\ stage = "investigating"
    /\ stage' = "reported" /\ owed' = P /\ rounds' = rounds

\* The one follow-up round: agents nobody is waiting for.
Engage(F) ==
    /\ stage = "reported" /\ rounds = 0
    /\ F # {} /\ F \cap owed = {} /\ Cardinality(F) <= Cap
    /\ owed' = owed \cup F /\ rounds' = 1
    /\ stage' = stage

\* An enrichment update about agent a.
Update(a) ==
    /\ stage = "reported" /\ a \in owed
    /\ owed' = owed \ {a}
    /\ UNCHANGED <<stage, rounds>>

\* The end, normal or not.  What is still owed was cut off.
Close ==
    /\ stage # "closed"
    /\ stage' = "closed"
    /\ UNCHANGED <<owed, rounds>>

Next == \/ \E P \in SUBSET Agents : Report(P) \/ Engage(P)
        \/ \E a \in Agents : Update(a)
        \/ Close

Spec == Init /\ [][Next]_threadVars
=============================================================================
