CONSTANTS
    a = a
    b = b
    none = none
    r1 = r1
    r2 = r2
    PoolStep <- Steps
    NoStep <- none
    Resource <- Pool
    Count = 2
SPECIFICATION PoolSpec
INVARIANT EveryLeaseIsReturned
CHECK_DEADLOCK FALSE
