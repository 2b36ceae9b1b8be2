CONSTANTS
    a = a
    b = b
    r1 = r1
    r2 = r2
    r3 = r3
    none = none
    LeaseStep <- Steps
    NoStep <- none
    Resource <- ThreeResources
    TypeOf <- CrossedTypes
    Needs <- CrossedNeeds
    Retries = 1
SPECIFICATION Spec
INVARIANTS   NoSilentLeak NoCircularWait
PROPERTY ProcessEnds
CHECK_DEADLOCK FALSE
