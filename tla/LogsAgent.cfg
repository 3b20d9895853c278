SPECIFICATION FairSpec
CONSTANTS
    app = app
    proxy = proxy
    gone = gone
    Groups <- MCGroups
    Listing <- MCListing
    Rows <- MCRows
    DiscoverLimit = 1
    PollTimeout = 2
    ChunkSize = 2
    MinLines = 3
    ExemplarCount = 1
    MaxPoints = 4
    Requests = 2
    MaxCalls = 2
CHECK_DEADLOCK FALSE
INVARIANTS
    OnlyCompleteIsUnqualified
    RowsCovered
    OwnAnswer
PROPERTY
    RequestsEnd
