\* One realm whose compositor can open a second window.
CONSTANTS
    Windows = {1, 2}
    Workspaces = {1, 2}
SPECIFICATION Spec
INVARIANTS
    BlockedUnlessHuman
    HostIsCurrent
    PausedIsExcused
    PlacedAsRequested
PROPERTIES
    KeyboardLeavesWithLease
CHECK_DEADLOCK FALSE
