SPECIFICATION FairSpec
CONSTANTS
    t1 = t1
    t2 = t2
    Task = {t1, t2}
    Packet = {1, 2, 3}
    Frame = {9}
    Nil = Nil
    Bound <- MCBound
INVARIANTS
    Pipeline
    TxLive
    OwnConfirm
    EntryAlive
PROPERTIES
    Answered
    GivenBack
CHECK_DEADLOCK FALSE
