SPECIFICATION Spec
CONSTANTS
    own = own
    all = all
    Turns = {t1, t2}
    Callers = {ann}
    Policies = {own, all}
    AllModels = {all}
    Slots = {"daily"}
    Slot <- MCSlot
    Clocks = {"day"}
    Clock <- MCClock
    Rank <- MCRank
    Covers <- MCCovers
    Limits = {0, 1}
    Priorities = {0}
    MaxUsage = 1
    MaxPeriods = 1
    MaxEdits = 3
    MaxCalls = 3
    MaxFaults = 1
SYMMETRY Symmetry
INVARIANTS
    TypeOK
    OvershootIsBounded
    ChargedOnce
CHECK_DEADLOCK FALSE
