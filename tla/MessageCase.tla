---------------------------- MODULE MessageCase ----------------------------
(***************************************************************************)
(* What a channel is promised of each message it brings up: one case at a  *)
(* time, opened for good, decided once, and handed to the master - or to   *)
(* each variant of an experiment - once. There are no events, deliveries   *)
(* or retries here: the case of a message is the only one to act on it.    *)
(***************************************************************************)
CONSTANTS
    Messages, Cases,
    NoCase,          \* no case of the message is open
    Experiments      \* the sets of variants a case may be handed over to

VARIABLES
    open,      \* per message: its open case
    closed,    \* per message: its former cases
    verdict,   \* per case: "none", "gated" or "investigated"
    owed,      \* per case: variants it is still to be handed over to
    handed     \* the hand-overs: [case, variant]

caseVars == <<open, closed, verdict, owed, handed>>

Init ==
    /\ open = [m \in Messages |-> NoCase]
    /\ closed = [m \in Messages |-> {}]
    /\ verdict = [c \in Cases |-> "none"]
    /\ owed = [c \in Cases |-> {}]
    /\ handed = {}

\* A case is opened for a message that has none; it has never been open before.
Open(m, c) ==
    /\ open[m] = NoCase
    /\ \A n \in Messages : open[n] # c /\ c \notin closed[n]
    /\ open' = [open EXCEPT ![m] = c]
    /\ UNCHANGED <<closed, verdict, owed, handed>>

\* The message is no alert.
Gate(m) ==
    /\ open[m] # NoCase /\ verdict[open[m]] = "none"
    /\ verdict' = [verdict EXCEPT ![open[m]] = "gated"]
    /\ UNCHANGED <<open, closed, owed, handed>>

\* The message is an alert, of an experiment or not.
Accept(m, experiment) ==
    /\ open[m] # NoCase /\ verdict[open[m]] = "none"
    /\ verdict' = [verdict EXCEPT ![open[m]] = "investigated"]
    /\ owed' = [owed EXCEPT ![open[m]] = experiment]
    /\ UNCHANGED <<open, closed, handed>>

HandOver(m, v) ==
    LET c == open[m] IN
    /\ c # NoCase /\ verdict[c] = "investigated"
    /\ v \in owed[c] /\ [case |-> c, variant |-> v] \notin handed
    /\ handed' = handed \cup {[case |-> c, variant |-> v]}
    /\ owed' = [owed EXCEPT ![c] = @ \ {v}]
    /\ UNCHANGED <<open, closed, verdict>>

\* The message may be brought up anew.
Close(m) ==
    /\ open[m] # NoCase
    /\ closed' = [closed EXCEPT ![m] = @ \cup {open[m]}]
    /\ open' = [open EXCEPT ![m] = NoCase]
    /\ UNCHANGED <<verdict, owed, handed>>

Next == \E m \in Messages :
            \/ \E c \in Cases : Open(m, c)
            \/ Gate(m) \/ Close(m)
            \/ \E experiment \in Experiments :
                  Accept(m, experiment) \/ \E v \in experiment : HandOver(m, v)

Spec == Init /\ [][Next]_caseVars
=============================================================================
