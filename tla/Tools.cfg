\* One realm name, room for two packets and one request.
CONSTANTS
    Names = {"a"}
    MaxIgnored = 2
    MaxQueued = 2
    MaxSent = 1
    MaxSequence = 1
SPECIFICATION FairSpec
INVARIANTS
    InStep
    CleansUpItsOwn
PROPERTIES
    SuccessIsReal
    LeavesRealmOnlyIfLost
    ToolsReturn
CHECK_DEADLOCK FALSE
