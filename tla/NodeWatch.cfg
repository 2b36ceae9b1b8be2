CONSTANTS
    build = build
    test = test
    n1 = n1
    n2 = n2
    g1 = g1
    g2 = g2
    g3 = g3
    Workload <- Workloads
    Node <- Nodes
    Goroutine <- Goroutines
    Spawns <- SpawnedBy
    Capacity = 2
SPECIFICATION Spec
INVARIANTS OneWatcherPerNode EveryWorkloadIsWatched LeaksAreExplained
PROPERTY WorkloadsEnd
CHECK_DEADLOCK FALSE
