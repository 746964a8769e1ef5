\* A focused window opens under the agent's lease.
CONSTANTS
    Windows = {1, 2}
    Workspaces = {1}
SPECIFICATION Spec
INVARIANTS
    KeyboardNeedsLease
CHECK_DEADLOCK FALSE
