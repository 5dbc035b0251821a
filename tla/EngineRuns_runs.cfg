SPECIFICATION FairSpec
CONSTANTS
    a = a
    b = b
    Members = {a, b}
    Leader = leader
    NoPlan = NoPlan
    Shapes <- MCShapes
    MaxActions = 3
    MaxEvents = 3
    MaxRuns = 2
INVARIANTS
    TypeOK
    SessionsFollowTheRun
    StreamEndsOnce
    PlanIsOfThisRun
PROPERTY AbandonedIsClosed
CHECK_DEADLOCK FALSE
