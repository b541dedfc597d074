SPECIFICATION BootSpec
CONSTANTS
    NChan = 2
    SeqMod = 4
    FifoLen <- MCFifoLen
    MaxIpi <- MCNoIpi
    MaxMsg <- MCTwoEach
    Opened <- MCAllOpen
    MaxCalls = 0
PROPERTIES
    WriteSent
CHECK_DEADLOCK FALSE
