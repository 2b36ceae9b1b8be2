CONSTANTS
    p1 = p1
    p2 = p2
    r1 = r1
    r2 = r2
    Steps = Steps
    Promotion <- Promotions
    Request <- Requests
SPECIFICATION Spec
INVARIANTS OnlyOutrunPromotionsPanic SuccessMeansPromoted StepsLeakNothing
PROPERTY SignalEndsRun
CHECK_DEADLOCK FALSE
