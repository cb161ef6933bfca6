SPECIFICATION FairSpec
CONSTANTS
    r = r
    a = a
    b = b
    c = c
    Nodes = {r, a, b}
    Root = r
    NoNode = NoNode
    InRange <- MCRange
    MAX_CHILDREN = 2
    RX_SIZE = 1
    MAX_LATE = 1
INVARIANTS TypeOK StateFollowsParent ParentIsNoChild NoMutualParents
PROPERTIES EachAttached CutOffDisconnects
