---------------------------- MODULE MCEngineRuns ----------------------------
\* An agent, a team of two, and a root over two teams of one agent each.
EXTENDS EngineRuns

CONSTANTS a, b

MCShapes == {<<a>>, <<a, b, Leader>>, <<a, Leader, b, Leader, Leader>>}
=============================================================================
