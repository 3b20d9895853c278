SPECIFICATION Spec
CONSTANTS
    Requests = {r1}
    Budgets = {0, 3}
    NoBudget = none
    MaxCycles = 2
    EmitReserve = 1
    MaxTurns = 3
    MaxUsage = 1
    MaxTime = 3
CHECK_DEADLOCK FALSE
INVARIANTS
    PassNeverCut
