SPECIFICATION FairSpec
CONSTANTS
    r1 = r1
    r2 = r2
    Free = Free
    Dead = Dead
    None = None
    Replicas <- MCReplicaSet
    Files <- MCFiles
    Once <- MCOnce
    Schedules <- MCSchedules
    Probed <- MCProbed
    FirstSchedule <- MCFirstSchedule
    Tests = {1, 2}
    SlotsPerDay = 4
    DaysPerWeek = 2
    DaysPerMonth = 3
    MonthsPerYear = 2
    MaxLookbackDays = 3
    MaxCandidatesPerTick = 2
    Start = 12
    MaxTime = 14
    MaxEdits = 2
    MaxAborts = 1
    MaxTries = 1
    MaxCrashes = 1
    MaxDisturbances = 2
INVARIANTS MigrationsSafe EachOccurrenceOnce OccurrenceIsLatest
PROPERTIES AllServe DueIsDispatched
