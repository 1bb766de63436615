SPECIFICATION FairSpec
CONSTANT MaxClicks = 8
INVARIANTS
    TypeOK
    StatusRecovers
PROPERTY
    Settles
\* A user who does nothing more lets the application rest.
CHECK_DEADLOCK FALSE
