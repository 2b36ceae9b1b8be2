CONSTANTS
    step1 = step1
    step2 = step2
    snapshot = snapshot
    Producer <- Producers
    Count <- Counts
    Late <- LateOnes
    Capacity = 2
SPECIFICATION MetricsSpec
PROPERTIES FlushIsComplete StopReturns
CHECK_DEADLOCK FALSE
