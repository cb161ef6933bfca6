SPECIFICATION Spec
CONSTANTS
    n1 = n1
    n2 = n2
    root = root
    Nodes = {n1, n2}
    NoNode = NoNode
    Roots = {root}
    Rssi = {1}
    NoRssi = 0
    MinChannel = 1
    MaxChannel = 1
    NoChannel = 0
    PROBES_PER_CHANNEL = 1
    MAX_PARENTS_TO_CONSIDER = 1
    MAX_CHILDREN = 1
    QUEUE_SIZE = 2
PROPERTY GivesUpOnlyWhenCutOff
