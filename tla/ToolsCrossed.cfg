\* Two realms, whose input is numbered separately.
CONSTANTS
    Names = {"a", "b"}
    MaxIgnored = 2
    MaxQueued = 2
    MaxSent = 1
    MaxSequence = 1
SPECIFICATION Spec
PROPERTIES
    InputIsApplied
CHECK_DEADLOCK FALSE
