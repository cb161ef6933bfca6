SPECIFICATION FairSpec
CONSTANTS
    a = a
    b = b
    Frames <- MCFrames
    NoFrame = NoFrame
    MAX_FRAG_PAYLOAD_SIZE = 2
    ID_RANGE = 2
    FINISHED_SIZE = 1
    MAX_COPIES = 2
CHECK_DEADLOCK FALSE
INVARIANTS TypeOK DeliveredWhole NoMoreThanReceived NoneWithheld
PROPERTIES EntriesLeave RunnerGoesOn
