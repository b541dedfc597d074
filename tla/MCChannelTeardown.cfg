SPECIFICATION Spec
CONSTANTS
    NChan = 1
    SeqMod = 2
    FifoLen <- MCFifoLen
    MaxIpi <- MCNoIpi
    MaxMsg <- MCTwoOne
    Opened <- MCAllOpen
    MaxCalls = 3
INVARIANTS
    CompletedAfterHandled
PROPERTIES
    RefinesLink
CHECK_DEADLOCK FALSE
