SPECIFICATION Spec
CONSTANTS
    r = r
    p = p
    x = x
    y = y
    Nodes = {r, p, x, y}
    Root = r
    NoNode = NoNode
    ROOT = ROOT
    Candidates <- MCCandidates
    Askers = {y}
    Movers = {x, y}
    MAX_CHILDREN = 2
    RX_SIZE = 2
    MaxJoins <- MCMaxJoins
INVARIANTS TypeOK OneRoute
PROPERTY AnswersGoBack
