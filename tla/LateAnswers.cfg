SPECIFICATION FairSpec
CONSTANTS
    Agents = {eks, logs, history}
    Unconfigured = {history}
    InitialDeadline = 2
    HardCutoff = 5
    RouteTimeout = 1
    SynthTimeout = 1
    PlanTimeout = 1
    MinFollowupBudget = 1
    MaxFollowup = 1
    DeliverTime = 1
CHECK_DEADLOCK FALSE
PROPERTY
    LateAnswersPostedAsTheyArrive
