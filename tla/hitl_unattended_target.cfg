SPECIFICATION Spec
CONSTANTS
    Reviews = {r1}
    Requests = {q1}
    Backends = {"sqlite", "postgres"}
    StepKinds <- AllSteps
    Irreversible <- IrreversibleSteps
    Generated <- GeneratedPlaybook
    Rewritten <- RewrittenPlaybook
    EscalateSeconds = 2
    TimeoutSeconds = 3
    PollInterval = 1
    WaitCap = 2
    SoarEnabled = TRUE
    MaxFaults = 0
INVARIANT HumanBehindIrreversibleTarget
CHECK_DEADLOCK FALSE
