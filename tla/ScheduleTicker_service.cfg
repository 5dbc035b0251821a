SPECIFICATION FairSpec
CONSTANTS
    Schedules = {s1}
    Replicas = {p1, p2}
    Requests = {r1, r2}
    Intervals = {2}
    MaxGap = 2
    LockTTL = 4
    TickSleep = 1
    MaxRun = 1
    MaxLag = 1
    MaxFaults = 1
INVARIANTS
    TypeOK
    EnabledIsPlanned
    OccurrenceFiresOnce
PROPERTY DueIsServed
