SPECIFICATION FairSpec
CONSTANTS
    Router = TRUE
    Fails <- MCFails
    FINISHED_SIZE = 1
CHECK_DEADLOCK FALSE
INVARIANTS TypeOK LockComesBack TasksHaveQueues
PROPERTY StopReturns
