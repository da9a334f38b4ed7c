SPECIFICATION MCSpec
CONSTANTS
    d1 = d1
    d2 = d2
    None = None
    Statistics = Statistics
    Turns = {"schedules", "statistics", "other"}
    Devices = {d1, d2}
    Programmes <- Circuits
    Declared <- TypedAsProgram
    Groups <- BothDevices
    Hour = 3
    Retry = 1
    Days = 3
    MostEnergy = 2
INVARIANTS
    ShownWasRead
    AskedOnTime
PROPERTIES
    DayNeverGoesBack
