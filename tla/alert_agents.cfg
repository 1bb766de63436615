SPECIFICATION FairSpec
CONSTANTS
    Tasks <- TaskSet
    Alerts <- AlertSet
    Carried <- Pairs
    Indicators <- IndicatorSet
    Verdict <- Percent
    Settings <- LiveSettings
    Slots = 1
    MaxFaults = 1
INVARIANTS
    TypeOK
    OneClient
    MarkIsEarned
    SecondSeesFirst
PROPERTY
    AlertAnswered
