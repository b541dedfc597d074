SPECIFICATION FairSpec
CONSTANTS
    Fifo = 3
    Bound <- MCBound
INVARIANTS
    TypeOK
    NoOverflow
    InOrder
    TxLive
    GoAhead
PROPERTIES
    Delivered
CHECK_DEADLOCK FALSE
