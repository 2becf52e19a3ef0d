SPECIFICATION FairSessions
CONSTANTS
    Jobs = {1, 2}
    Uploads = {u1, u2}
    Sweepers = {s1, s2}
    StartedAt <- MCStartedAt
    Retention = 1
    Limit = 2
    MaxTime = 2
    MaxReports = 3
    MaxFaults = 1
INVARIANT WindowKept
PROPERTIES ReclaimedEventually PointsForgotten
CHECK_DEADLOCK FALSE
