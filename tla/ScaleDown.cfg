CONSTANTS
    NodeCount = 2
    MaxPods = 1
    MaxFaults = 1
SPECIFICATION Spec
INVARIANTS NothingEvicted LostMachinesAreExplained
PROPERTY TaintsAreKept
PROPERTY TaintedNodesGo
CHECK_DEADLOCK FALSE
