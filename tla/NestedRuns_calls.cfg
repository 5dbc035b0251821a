SPECIFICATION FairSpec
CONSTANTS
    a = a
    b = b
    c = c
    Workflows = {a, b, c}
    Roots = {"chat", "stream", "plan", a, b, c}
    Steps <- MCSteps
    Triggers <- MCTriggers
    maxTriggerDepth <- MCmaxTriggerDepth
    MaxGlobalDepth = 2
    PlanSteps <- MCPlanSteps
    MaxCalls = 1
INVARIANTS
    TypeOK
    GuardFollowsTheChain
    NestingIsBounded
    CommittedIsSettled
    ToldIsRecorded
PROPERTY RequestEnds
CHECK_DEADLOCK FALSE
