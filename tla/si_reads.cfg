SPECIFICATION Spec
CONSTANTS
    PKeys = {1, 2}
    SKeys = {1, 2}
    Coros = {0, 1}
    dn_thread = 2
    mn_thread = 1
    kMaxDelQueue = 2
    kMaxWcCnt = 2
    ScanCnt = 2
    Clock = {1, 2}
    ThreadSpace = 2
    VersionSpace = 8
    WordSpace = 4
    MaxWrites = 3
    MaxReads = 1
INVARIANTS ReadsCurrent ReadsComplete
