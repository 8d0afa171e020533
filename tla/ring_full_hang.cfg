SPECIFICATION FairSpec
CONSTANTS
    kMaxSignal = 3
    kMaxWcCnt = 2
    BatchSizes = {12}
    cq_len = 5
CHECK_DEADLOCK FALSE
PROPERTIES ServerReturns
