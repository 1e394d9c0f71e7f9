CONSTANTS
    NumLogs = 2
    PageSize = 2
    PagesPerCycle = 1
    RequestBudget = 2
    MaxLate = 1
    NumWorkers = 1
    MaxSequence = 1
    MaxReceipts = 2
    r1 = r1
    r2 = r2
    MaxEvents = 2
    RunLimit = 2
    MaxFailures = 2
    SentinelItems = 2
    MaxDay = 1
    MaxShows = 1
SPECIFICATION MCSpec
INVARIANTS
    RightlySettled
PROPERTIES
    LedgerSpec
    EventuallySettled
    PurgeEventuallyCertified
    EveryoneAnnounced
    EventuallyToday
CHECK_DEADLOCK FALSE
