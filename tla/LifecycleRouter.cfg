SPECIFICATION Spec
CONSTANTS
    Router = TRUE
    Fails = {}
    FINISHED_SIZE = 1
CHECK_DEADLOCK FALSE
INVARIANT RootConnects
