SPECIFICATION FairSpec
CONSTANTS
    Fifo = 2
    Bound <- MCLogBound
PROPERTIES
    Drains
CHECK_DEADLOCK FALSE
