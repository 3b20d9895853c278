SPECIFICATION FairSpec
CONSTANTS
    Platforms = {"slack", "discord"}
    MaxActive = 2
    MaxRetries = 1
CHECK_DEADLOCK FALSE
INVARIANTS
    NoFalseAllClear
    EveryoneAccounted
PROPERTIES
    SnapshotArrives
