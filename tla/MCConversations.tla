--------------------------- MODULE MCConversations --------------------------
\* Turns of one agent, differing only by name.
EXTENDS Conversations, TLC

Symmetry == Permutations(Turns)

\* One run of an agent is given, two of a team.
MCHistoryRuns == [k \in Kind |-> IF k = "agent" THEN 1 ELSE 2]
=============================================================================
