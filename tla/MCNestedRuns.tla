----------------------------- MODULE MCNestedRuns ----------------------------
\* Three workflows: agents of a may start all of them, those of b, which has two
\* steps, only c, those of c the other two.  The skill for c is for the first level
\* only.  The plan retries its first step once.
EXTENDS NestedRuns

CONSTANTS a, b, c

MCSteps == [w \in Workflows |-> IF w = b THEN 2 ELSE 1]
MCTriggers == [f \in Runs |-> CASE f = b -> {c} [] f = c -> {a, b} [] OTHER -> {a, b, c}]
MCmaxTriggerDepth == [w \in Workflows |-> IF w = c THEN 1 ELSE 3]
MCPlanSteps == <<2, 1>>
=============================================================================
