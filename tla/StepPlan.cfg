CONSTANT
    Configs <- AllConfigs
SPECIFICATION PlanSpec
INVARIANTS ClosureIsExact VerdictIsExact
PROPERTY PlanningEnds
CHECK_DEADLOCK FALSE
