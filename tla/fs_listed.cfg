SPECIFICATION Spec
CONSTANTS
    Addresses = {0, 1, 2, 3, 4, 5, 6}
    NodeID = 1
    IdSpace = 2
    Threads = {1, 2}
    Root = "root"
    Dirs = {"s", "a", "c"}
    Files = {"f", "g", "h"}
    Parent <- Parents
    Addr <- Apart
    ServedBy <- Serves
    countFile = 8
    countDirectory = 8
INVARIANT Listed
