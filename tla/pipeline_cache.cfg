SPECIFICATION Spec
CONSTANTS
    Workers = {w1, w2}
    Length = 1
    Alerts = {a1, a2}
    Categories = {"generic"}
    Critical = {}
    Limits = {1}
    MaxFaults = 0
INVARIANT PlaybookIsTailored
CHECK_DEADLOCK FALSE
