CONSTANTS
    w1 = w1
    w2 = w2
    Nobody = Nobody
    Workers = {w1, w2}
    MaxAge = 2
    Wait = 3
    Debounce = 2
    Hold = 2
    MaxTime = 6
    MaxFaults = 2
    p = p
    People = {p}
    KioskType = "auto"
    MaxEvents = 3
    MaxLocal = 2
    MaxFaces = 2
    MaxWall = 1
    Retention = 0
    StaleAfter = 0
    Decisions <- MCDecisions
    Unkeyed = {1}
    Notes = {"", "a"}
    MaxResets = 1
    MaxLate = 1
    MaxReviews = 2
    Reviewed = {2}
    Attempted <- MCAttempted
    Filters <- MCFilters
    Stored = {1, 2, 3}
    Labelled = {1}
    ReadLimit = 2
    FewShown = 1
    MaxNews = 2
    MaxMoves = 2
SPECIFICATION MCSpec
SYMMETRY Symmetry
INVARIANTS
    EvidenceOnce
    ReviewsAreShown
PROPERTIES
    ScansAreJust
    DirectionsFollow
CHECK_DEADLOCK FALSE
