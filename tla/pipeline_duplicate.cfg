SPECIFICATION Spec
CONSTANTS
    Workers = {w1}
    Length = 1
    Alerts = {a1}
    Categories = {"generic"}
    Critical = {}
    Limits = {1}
    MaxFaults = 1
INVARIANT DuplicateMeansProcessed
CHECK_DEADLOCK FALSE
