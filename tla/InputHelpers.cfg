\* Helpers that crash, hang or are late: every request is answered, every helper reaped.
CONSTANTS
    Numbers = {1, 2}
    Pids = {1}
    Capacity = 2
    Inputs = {"TYPE"}
    Grantable = {"pointer", "observe"}
    Handling = {"flushed", "unflushed", "refused"}
SPECIFICATION FairSpec
INVARIANTS
    ControlledOrFailed
    HelpersAreKept
    MaintenanceIsSet
PROPERTIES
    AnsweredWhenQuiet
    ReapedWhenQuiet
CHECK_DEADLOCK FALSE
