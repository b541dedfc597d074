SPECIFICATION FairSpec
CONSTANTS
    Client <- MCClient
    UserCmd <- MCUserCmd
    Op <- MCOp
    Bound <- MCBound
    NConn = 2
    TagMod = 8
    QueueLen = 2
INVARIANTS
    TypeOK
    SentIsTaken
    OwnReply
    RouterLive
    Succeeds
PROPERTIES
    TakenOnce
    OpEnds
CHECK_DEADLOCK FALSE
