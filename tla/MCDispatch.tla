----------------------------- MODULE MCDispatch -----------------------------
\* Two agents of one team and a team without members.
EXTENDS Dispatch, TLC

CONSTANTS os, t1, t2, a1, a2

MCTeamOf == [a \in {a1, a2} |-> t1]

\* Both agents are of the same team; codes and requests differ only by name.
Symmetry ==
    Permutations({a1, a2}) \cup Permutations(Codes) \cup Permutations(Requests)
=============================================================================
