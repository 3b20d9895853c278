SPECIFICATION Spec
CONSTANTS
    api = api
    gateway = gateway
    node = node
    Deployments <- MCDeployments
    Daemons <- MCDaemons
    Selectors <- MCSelectors
    Payloads <- MCPayloads
    Host <- MCHost
    MaxChanges = 2
    MaxFaults = 1
CHECK_DEADLOCK FALSE
INVARIANT
    RolloutIsOwn
