\* Two lock objects, so that one can be denied, ignored or take over; two
\* monitors, so that one can lag behind; one restart after a crash.
CONSTANTS
    Locks = {1, 2}
    Monitors = {"m1", "m2"}
    MaxRestarts = 1
SPECIFICATION Spec
INVARIANTS
    EveryoneAgrees
    LockedOnce
PROPERTIES
    RestartsAsItWas
    OnlyCrashesRestart
    HolderIsAnswered
CHECK_DEADLOCK FALSE
