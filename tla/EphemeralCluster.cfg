CONSTANTS
    MaxJobs = 2
    MaxFaults = 1
SPECIFICATION Spec
PROPERTY OnlyDeletedClustersAreAborted
PROPERTY DeletionCompletes
PROPERTY TearDownReachesTheJob
CHECK_DEADLOCK FALSE
