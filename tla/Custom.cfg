SPECIFICATION Spec
CONSTANTS
    h1 = h1
    h2 = h2
    h3 = h3
    Handles = {h1, h2, h3}
    NoHandle = NoHandle
    Items <- MCItems
SYMMETRY Symmetry
INVARIANTS TypeOK ListKept CalledOnce ReadAsSent
