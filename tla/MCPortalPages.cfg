CONSTANTS
    SentinelItems = 1
    MaxDay = 1
    MaxAnswers = 2
    MaxShows = 1
    Days = {1, 2}
    Links = {{1}}
    Texts = {1, 2}
    MaxReads = 3
    MaxChanges = 1
    MaxRequests = 2
    Dates = {1, 2}
    Reasons = {1}
    MaxIds = 3
    MaxDialogs = 3
    MaxCopies = 2
    MaxVisits = 1
    MaxOthers = 1
    MaxSignOuts = 1
    Workers = {w}
    Recruits = {r}
    Nobody = Nobody
    ConsentLife = 1
    Required = 2
    MaxTime = 2
    MaxConsents = 2
    MaxEdits = 2
    HealthDates = {1, 2}
    HealthToday = 1
    HealthTTL = 1
    MaxEntries = 1
    MaxMinutes = 1
    MaxCommits = 2
    MaxHealthReads = 3
    MaxRefreshes = 1
    MaxCalls = 2
SPECIFICATION MCSpec
INVARIANTS
    NothingHidden
    TypedIsKept
    CorrectionsAsMeant
    EnrolledAsAgreed
PROPERTIES
    ReadingsMoveOn
CHECK_DEADLOCK FALSE
