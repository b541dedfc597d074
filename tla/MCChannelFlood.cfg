SPECIFICATION Spec
CONSTANTS
    NChan = 2
    SeqMod = 3
    FifoLen <- MCFifoLen
    MaxIpi <- MCManyIpi
    MaxMsg <- MCThreeTwo
    Opened <- MCAllOpen
    MaxCalls = 0
INVARIANTS
    TypeOK
    AcksMatch
    AtMostOnce
PROPERTIES
    UnreadIntact
CHECK_DEADLOCK FALSE
