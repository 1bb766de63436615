SPECIFICATION PromptSpec
CONSTANTS
    Reviews = {r1}
    Requests = {q1}
    Backends = {"postgres"}
    StepKinds <- AllSteps
    Irreversible <- IrreversibleSteps
    Generated <- GeneratedPlaybook
    Rewritten <- RewrittenPlaybook
    EscalateSeconds = 2
    TimeoutSeconds = 3
    PollInterval = 1
    WaitCap = 2
    SoarEnabled = TRUE
    MaxFaults = 0
INVARIANT EarlyRefusalObeyed
CHECK_DEADLOCK FALSE
