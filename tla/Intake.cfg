SPECIFICATION FairSpec
CONSTANTS
    mention = mention
    reply = reply
    thread = thread
    Alerts = {mention, reply}
    Messages = {thread}
    Target <- MCTarget
    Rereads = {reply}
    MaxDeliveries = 2
    MaxFaults = 1
    MaxExpiries = 1
CHECK_DEADLOCK FALSE
INVARIANTS
    OneDecision
    WholeExperiment
PROPERTIES
    AlertsAreHeard
    ImplementsMessageCase
