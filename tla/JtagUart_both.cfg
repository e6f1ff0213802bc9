SPECIFICATION FairSpec
CONSTANTS
    BufLen = 3
    FifoDepth = 2
    WriteThreshold = 1
    IntMax = 4
    DefaultTimeout = 2
    HasSysClk = FALSE
    MaxTx = 1
    MaxRx = 4
    MaxCall = 2
INVARIANTS
    RxStream
    RxArmed
PROPERTIES
    IrqReturns
    ReaderWakes
