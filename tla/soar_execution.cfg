SPECIFICATION FairSpec
CONSTANTS
    Executions = {x1}
    Requests = {q1, q2, q3}
    ExecutionTimeout = 2
    PollInterval = 1
    Tokens = {TRUE, FALSE}
    MaxCallbacks = 2
    MaxFaults = 1
INVARIANTS
    TypeOK
    RowFollowsShuffle
    GateOnRecord
    ReportedOnce
    FinalIsFinal
PROPERTIES
    DecisionIsFinal
    WatchEnds
\* The system stops when its executions and requests are answered.
CHECK_DEADLOCK FALSE
