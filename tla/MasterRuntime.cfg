SPECIFICATION Spec
CONSTANTS
    first = first
    second = second
    Requests <- MCRequests
    MaxRetries = 3
    MaxDecisions = 2
SYMMETRY MCSymmetry
CHECK_DEADLOCK FALSE
INVARIANTS
    SilenceExplained
    NoticeIsTrue
    ReclaimSparesWork
    ChargedToOwnRun
