SPECIFICATION FairSpec
CONSTANTS
    t1 = t1
    t2 = t2
    t3 = t3
    Program = "fw"
    Keys = {3}
    SwitchKeySpace = 2
    FingerprintSpace = 4
    MagicSpace = 2
    TsSpace = 8
    dn_thread = 1
    mn_thread = 1
    keyspace = 8
    logspace = 8
    CThreads <- TwoThreads
    CoroIds = {0}
    FLAGS_visibility = TRUE
    InitialMagics = {0}
    MaxRequests = 4
CHECK_DEADLOCK FALSE
PROPERTIES RequestsReturn SlotsFreed ImplementsVisibility
