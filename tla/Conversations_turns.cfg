SPECIFICATION Spec
CONSTANTS
    Turns = {t1, t2, t3}
    Users = {ann, nobody}
    Anonymous = nobody
    SessionIds = {s1}
    Memories = {m1}
    NoOne = noone
    TokenRequired = FALSE
    MaxFacts = 1
    HistoryRuns <- MCHistoryRuns
SYMMETRY Symmetry
INVARIANTS
    TypeOK
    UsersStayApart
    FactsFollowTheTurn
    HistoryKeepsTurns
CHECK_DEADLOCK FALSE
