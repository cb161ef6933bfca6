SPECIFICATION FairSpec
CONSTANTS
    p = p
    c = c
    far = far
    Neighbors <- MCNeighbors
    Far <- MCFar
    NoNode = NoNode
    Self = Self
    RootAddr = RootAddr
    Broadcast = Broadcast
    IsRoot = FALSE
    Items <- MCItems
    NoItem = NoItem
    QUEUE_SIZE = 2
INVARIANTS TypeOK UnicastOnce
PROPERTIES RetryKept EveryItemTried LockReturned
