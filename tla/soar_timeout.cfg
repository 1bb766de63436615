SPECIFICATION FairSpec
CONSTANTS
    Executions = {x1}
    Requests = {}
    ExecutionTimeout = 2
    PollInterval = 1
    Tokens = {TRUE}
    MaxCallbacks = 1
    MaxFaults = 0
PROPERTY TimeoutMeansUnfinished
CHECK_DEADLOCK FALSE
