\* Input that keeps coming while a capture is overdue.
CONSTANTS
    Numbers = {1, 2, 3}
    Pids = {1}
    Capacity = 2
    Inputs = {"TYPE"}
    Grantable = {"pointer", "observe"}
    Handling = {"flushed"}
SPECIFICATION FairSpec
PROPERTIES
    CapturesComplete
CHECK_DEADLOCK FALSE
