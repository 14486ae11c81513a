CONSTANTS
    Writers = {w1, w2}
    Readers = {r1}
    Inodes = {i1, i2, i3}
    NoInode = NoInode
    RemovesFile = TRUE
    MaxAttempts = 1
    Patience <- MCPatience
SPECIFICATION FairSpec
INVARIANTS TypeOK ProbeLinearizable
PROPERTIES ImplementsMutex AcquireReturns
