SPECIFICATION Spec
CONSTANTS
    Schedules = {s1}
    Replicas = {p1, p2}
    Requests = {}
    Intervals = {1, 2}
    MaxGap = 2
    LockTTL = 2
    TickSleep = 1
    MaxRun = 3
    MaxLag = 0
    MaxFaults = 1
INVARIANT OccurrenceFiresOnce
