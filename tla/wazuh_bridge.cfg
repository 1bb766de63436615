SPECIFICATION FairSpec
CONSTANTS
    Alerts = {1, 2, 3, 4, 5, 6}
    Parseable = {1, 2, 3, 4, 6}
    Ids = {2, 3, 4, 6}
    IdOf <- MCIdOf
    BatchSize = 2
    SeenLimit = 3
    SeenKept = 1
    QueueLimit = 1
    MaxLate = 1
    MaxFaults = 1
INVARIANTS
    TypeOK
    OnceUnlessForgotten
    NothingSkipped
    SeenBounded
PROPERTY CatchesUp
