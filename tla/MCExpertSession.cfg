SPECIFICATION MCFairSpec
CONSTANTS
    Ops = {"w", "r", "l", "d"}
    KindOf <- MCKindOf
    Entries = {"E1", "E2"}
    EntryOf <- MCEntryOf
    Items = 2
    Extras = 1
    FormTries = 2
    VerifyTries = 2
    MostRefusals = 2
    NoOp = "none"
    Casts = {{"w", "r"}, {"l", "d"}}
INVARIANTS
    SessionsAreClean
    StoppedMeansUntouched
    NoLoginAfterAnAnswer
PROPERTIES
    OperationsEnd
