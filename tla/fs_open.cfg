SPECIFICATION FairSpec
CONSTANTS
    Addresses = {0, 1, 2, 3, 4, 5, 6}
    NodeID = 1
    IdSpace = 1
    Threads = {1, 2}
    Root = "root"
    Dirs = {"s", "a", "c"}
    Files = {"f", "g", "h"}
    Parent <- Parents
    Addr <- Colliding
    ServedBy <- Serves
    countFile = 3
    countDirectory = 3
INVARIANTS FsTypeOK ParentExists OpenFinds
PROPERTIES ImplementsRWLock CreatedOnce OpensReturn
