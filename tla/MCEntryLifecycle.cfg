SPECIFICATION MCFairSpec
CONSTANTS
    e1 = e1
    e2 = e2
    e3 = e3
    Entries = {e1, e2, e3}
    Account <- MCAccount
    ExpertOn = {e1, e3}
    MaxGen = 2
INVARIANTS
    EntriesServeOrAreGone
    OldTailsChangeNothing
PROPERTIES
    GoesInOrder
    TransitionsEnd
CHECK_DEADLOCK FALSE
