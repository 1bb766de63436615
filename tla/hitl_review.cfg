SPECIFICATION FairSpec
CONSTANTS
    Reviews = {r1}
    Requests = {q1, q2}
    Backends = {"sqlite", "postgres"}
    StepKinds <- AllSteps
    Irreversible <- IrreversibleSteps
    Generated <- GeneratedPlaybook
    Rewritten <- RewrittenPlaybook
    EscalateSeconds = 2
    TimeoutSeconds = 3
    PollInterval = 1
    WaitCap = 2
    SoarEnabled = TRUE
    MaxFaults = 1
INVARIANTS
    TypeOK
    SilenceBeforeTimeout
    ActsOnRecordedDecision
    HumanBehindIrreversible
    ExecutionChain
    WakeupsMatchRows
    EarlyDecisionTaken
    ResolvedIsAudited
PROPERTIES
    ParkedReviewEnds
    ImplementsContract
\* The system stops when its reviews are resolved and its requests answered.
CHECK_DEADLOCK FALSE
