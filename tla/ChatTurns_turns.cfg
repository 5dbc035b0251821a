SPECIFICATION FairSpec
CONSTANTS
    Turns = {t1}
    MaxEvents = 3
INVARIANTS
    TypeOK
    
    EndMatchesRecord
    ClosedTailIsComplete
PROPERTIES
    ImplementsLifecycle
    CancelTakesEffect
CHECK_DEADLOCK FALSE
