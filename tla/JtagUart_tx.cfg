SPECIFICATION FairSpec
CONSTANTS
    BufLen = 3
    FifoDepth = 2
    WriteThreshold = 1
    IntMax = 4
    DefaultTimeout = 2
    HasSysClk = TRUE
    MaxTx = 5
    MaxRx = 0
    MaxCall = 2
INVARIANTS
    TxKick
PROPERTIES
    CloseDrains
    TxIsChannel
    TxDelivered
    CallsReturn
