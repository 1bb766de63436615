SPECIFICATION FairSpec
CONSTANTS
    Workers = {w1, w2}
    Length = 1
    Alerts = {a1, a2}
    Categories = {"recon", "malware"}
    Critical = {a2}
    Limits = {1, 2}
    MaxFaults = 1
INVARIANTS
    TypeOK
    SlotsAccounted
    LaunchedOnce
    MessagesAccounted
    EndsOnRecord
PROPERTY AlertEnds
\* The system stops when the topic is read to its end.
CHECK_DEADLOCK FALSE
