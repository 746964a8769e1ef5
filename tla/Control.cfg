\* Two clients, one input and one capture at a time, a queue of three units.
CONSTANTS
    Clients = {c1, c2}
    Inputs = {"input"}
    Captures = {"capture"}
    MaxClients = 2
    MaxFrame = 2
    MaxQueued = 3
    MaxRequests = 1
    SocketBound = 2
SPECIFICATION Spec
INVARIANTS
    QueueIsCounted
    RequesterIsKnown
    NoLostWakeup
PROPERTIES
    ClosingIsFinal
SYMMETRY ClientSymmetry
CHECK_DEADLOCK FALSE
