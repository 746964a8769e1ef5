\* A late frame of a cancelled capture, after an error about it.
CONSTANTS
    Numbers = {1, 2, 3}
    Pids = {1}
    Capacity = 2
    Inputs = {"TYPE"}
    Grantable = {"observe"}
    Handling = {"flushed", "unflushed", "refused"}
SPECIFICATION Spec
PROPERTIES
    LateFramesAreIgnored
CHECK_DEADLOCK FALSE
