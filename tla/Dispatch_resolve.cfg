SPECIFICATION Spec
CONSTANTS
    os = os
    t1 = t1
    t2 = t2
    a1 = a1
    a2 = a2
    AgentOS = os
    Teams = {t1, t2}
    Agents = {a1, a2}
    TeamOf <- MCTeamOf
    Skills = {s1}
    Codes = {c1, c2}
    Later = {t2}
    Requests = {e1, e2}
    MaxEdits = 2
SYMMETRY Symmetry
INVARIANTS
    TypeOK
    ResolutionIsRegular
PROPERTIES
    ContextWasUp
    ReplacementIsExactUnlessRaced
