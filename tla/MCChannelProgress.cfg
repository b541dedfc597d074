SPECIFICATION FairSpec
CONSTANTS
    NChan = 2
    SeqMod = 2
    FifoLen <- MCFifoLen
    MaxIpi <- MCMaxIpi
    MaxMsg <- MCThreeOne
    Opened <- MCAllOpen
    MaxCalls = 0
INVARIANTS
    NoStranded
PROPERTIES
    PriorityOrder
    WriteSent
    RefinesFairLink
CHECK_DEADLOCK FALSE
