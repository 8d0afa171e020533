SPECIFICATION FairSpec
CONSTANTS
    kMaxSignal = 3
    kMaxWcCnt = 2
    BatchSizes = {1, 2, 3, 4, 5, 6, 7, 8, 9, 10, 11, 12}
    cq_len = 5
CHECK_DEADLOCK FALSE
INVARIANTS RingTypeOK RepliesPrivate InFlightUntouched CompletionsFit
PROPERTIES FittingReturns
