SPECIFICATION FairSpec
CONSTANTS
    Runs = {r1, r2}
    Text = {x, y}
    NoText = NoText
    MaxSteps = 2
    MaxVersion = 2
INVARIANTS
    TypeOK
    StepChain
    OutcomeMatchesSteps
    EventLogMatchesRun
    AllOrNothing
PROPERTIES
    FinishedRunIsFrozen
    ImplementsLifecycle
    RunSettles
CHECK_DEADLOCK FALSE
