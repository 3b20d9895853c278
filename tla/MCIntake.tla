------------------------------ MODULE MCIntake ------------------------------
(* Intake for TLC: a mention and a later reply to it that calls the bot again *)
(* are about one message (thread); further alerts have a message each.        *)
EXTENDS Intake

CONSTANTS mention, reply, thread

MCTarget == [e \in Alerts |-> IF e \in {mention, reply} THEN thread ELSE e]
=============================================================================
