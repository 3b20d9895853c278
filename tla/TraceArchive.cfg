SPECIFICATION Spec
CONSTANTS
    Runs = {w1, w2}
    Commands = {c1}
    Retention = 1
    LastDay = 1
    MaxFaults = 1
SYMMETRY Alike
CHECK_DEADLOCK FALSE
INVARIANTS
    RecordIsFound
    ReviewIsOfTheLast
    PageIsClosed
    ChartsBeforePage
