SPECIFICATION FairSpec
CONSTANTS
    NumJobs = 1
    Workers = {w1, w2}
    BatchSize = 2
    MaxAttempts = 2
    MaxFaults = 1
PROPERTIES
    FilledIsAnnounced
CHECK_DEADLOCK FALSE
