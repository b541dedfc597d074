SPECIFICATION FairSpec
CONSTANTS
    Task <- MCTask
    Cmd <- MCCmd
    MaxCalls = 3
    MaxTimeout = 1
INVARIANTS
    TypeOK
    OwnAnswer
    CallbackFirst
    NoLeftover
    RequestIntact
PROPERTIES
    SendReturns
CHECK_DEADLOCK FALSE
