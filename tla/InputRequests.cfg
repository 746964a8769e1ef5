\* Presses, releases and captures: handed over, cancelled, retried, answered late.
CONSTANTS
    Numbers = {1, 2, 3}
    Pids = {1}
    Capacity = 2
    Inputs = {"PRESS", "LIFT"}
    Grantable = {"pointer", "observe"}
    Handling = {"flushed", "refused"}
SPECIFICATION Spec
INVARIANTS
    PendingIsPermitted
    HeldUnderLease
    FramesAreExpected
    AnswersAreOwed
CONSTRAINT ReleasesArrive
CHECK_DEADLOCK FALSE
