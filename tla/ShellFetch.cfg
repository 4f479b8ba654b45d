SPECIFICATION BothSpec
CONSTANTS
    s1 = s1
    s2 = s2
    w1 = w1
    w2 = w2
    None = None
    Slots <- TwoSlots
    MaxOpens = 2
    MaxIds = 2
    Workers <- TwoWorkers
    WinMaxOpens = 2
    WinMaxIds = 1
INVARIANTS
    TypeOK
    FetcherAddsUp
    HandleIsSafe
PROPERTIES
    NobodyWaits
CHECK_DEADLOCK FALSE
