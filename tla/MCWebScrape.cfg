SPECIFICATION MCFairSpec
CONSTANTS
    Apis = {"a", "w"}
    Mode <- MCMode
    WebInterval = 2
    ApiInterval = 2
    Hold = 1
    Pause = 2
    MaxFailures = 3
INVARIANTS
    FailuresAreKept
PROPERTIES
    ReadsArePaced
    ScrapesComeBack
