SPECIFICATION MCSpec
CONSTANTS
    m1 = m1
    m2 = m2
    d1 = d1
    d2 = d2
    Order <- InOrder
    DeviceOf <- TwoDevices
    Omitted = {m1}
    Offline = {d2}
    Watched = {m1}
    MaySearch = TRUE
    Interval = 2
    Retry = 1
INVARIANTS
    AskedInTime
    SearchesAreResumed
PROPERTIES
    NoListIsLost
