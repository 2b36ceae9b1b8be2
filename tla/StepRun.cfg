CONSTANTS
    Step <- Four
    Graphs <- AllGraphs
SPECIFICATION Spec
INVARIANTS NoSendOnClosedChannel LinksFirst StartedAtMostOnce CompleteOnSuccess
PROPERTIES NothingStartsWhenInterrupted ImplementsSchedule RunEnds
