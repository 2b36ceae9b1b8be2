CONSTANTS
    o1 = o1
    o2 = o2
    Op <- Ops
    Attempts = 2
    MaxBuilds = 4
SPECIFICATION Spec
INVARIANT SomeoneRetries
PROPERTIES OnlyFailuresAreDeleted BuildsReturn
CHECK_DEADLOCK FALSE
