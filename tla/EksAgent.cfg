SPECIFICATION Spec
CONSTANTS
    api = api
    gateway = gateway
    node = node
    Deployments <- MCDeployments
    Daemons <- MCDaemons
    Selectors <- MCSelectors
    Payloads <- MCPayloads
    Host <- MCHost
    MaxChanges = 3
    MaxFaults = 1
CHECK_DEADLOCK FALSE
INVARIANTS
    ScopeAdmitted
    WorstSurvives
    TailSurvives
    NeverSilent
