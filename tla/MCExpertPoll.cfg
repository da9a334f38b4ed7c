SPECIFICATION MCFairSpec
CONSTANTS
    a = a
    b = b
    c = c
    Ids = {a, b, c}
    Unreadable = {c}
    Routes = {"entity", "service"}
    FailsToReport = 2
    DeadCycles = 2
    MostChanges = 2
    MostUnseen = 4
    Busy = "busy"
INVARIANTS
    ReportsMatch
    ShownIsConfirmed
PROPERTIES
    ChainGoesOn
