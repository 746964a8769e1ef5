\* One realm, one application: every operation, every crash, the contract, and liveness.
CONSTANTS
    Capabilities = {"observe", "pointer"}
    RealmIDs = {r1}
    Applications = {"a1"}
SPECIFICATION FairSpec
INVARIANTS
    OwnedIffRunning
    ObservationIsBacked
    GroupsAreSupervised
    NoneStaysStopped
    EventsTellTheState
PROPERTIES
    ImplementsContract
    KeepsLifecycle
    VerdictFollowsRequest
    TermBeforeKill
    StopCompletes
    StartResolves
    CleanupCompletes
CHECK_DEADLOCK FALSE
