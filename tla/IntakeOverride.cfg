SPECIFICATION FairSpec
CONSTANTS
    mention = mention
    reply = reply
    thread = thread
    Alerts = {mention, reply}
    Messages = {thread}
    Target <- MCTarget
    Rereads = {reply}
    MaxDeliveries = 2
    MaxFaults = 0
    MaxExpiries = 0
CHECK_DEADLOCK FALSE
INVARIANT
    OverrideForcesAlert
