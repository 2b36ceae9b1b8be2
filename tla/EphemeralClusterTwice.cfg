CONSTANTS
    MaxJobs = 2
    MaxFaults = 0
SPECIFICATION Spec
INVARIANT OneJobPerCluster
CHECK_DEADLOCK FALSE
