SPECIFICATION Spec
CONSTANTS
    a = a
    b = b
    c = c
    Workflows = {a, b, c}
    Roots = {"chat", "stream", "plan", a, b, c}
    Steps <- MCSteps
    Triggers <- MCTriggers
    maxTriggerDepth <- MCmaxTriggerDepth
    MaxGlobalDepth = 2
    PlanSteps <- MCPlanSteps
    MaxCalls = 1
INVARIANT NoCycle
CHECK_DEADLOCK FALSE
