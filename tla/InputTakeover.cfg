\* A takeover while the socket to the helper is full.
CONSTANTS
    Numbers = {1, 2, 3}
    Pids = {1}
    Capacity = 2
    Inputs = {"PRESS"}
    Grantable = {"pointer"}
    Handling = {"flushed"}
SPECIFICATION Spec
INVARIANTS
    ReleasedAtTakeover
CHECK_DEADLOCK FALSE
