SPECIFICATION LinkFailsSpec
CONSTANTS
    r = r
    a = a
    b = b
    c = c
    Nodes = {r, a, b, c}
    Root = r
    NoNode = NoNode
    InRange <- MCRing
    MAX_CHILDREN = 2
    RX_SIZE = 1
    MAX_LATE = 0
PROPERTY CutOffDisconnects
