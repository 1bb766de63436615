SPECIFICATION FairSpec
CONSTANTS
    Workers <- WorkerSet
    Clients <- ClientSet
    Mixes <- MixSet
    Placements <- PlacementSet
    Agents <- AgentSet
    MaxFaults = 1
INVARIANTS
    TypeOK
    AccessOnRecord
    SourcesAgree
PROPERTY
    ApiServes
\* Once the workers serve, the API waits for requests.
CHECK_DEADLOCK FALSE
