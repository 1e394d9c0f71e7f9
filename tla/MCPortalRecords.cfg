CONSTANTS
    Users = {a, b}
    Founder = a
    Clients = {c1}
    MaxSessions = 3
    MaxEras = 2
    MaxTime = 1
    SessionLife = 1
    SessionBatch = 1
    TokenBatch = 1
    MaxTokens = 1
    Callers = {c1, c2}
    MaxAttempts = 2
    MaxClock = 2
    MaxRotations = 1
    MaxRights = 2
    Actors = {s1, s2}
    Evidence = {x}
    MaxActions = 2
    MaxCopies = 2
    Enrollers = {u1, u2}
    Workers = {w1, w2}
    MaxPhotos = 2
    MaxHour = 2
    MaxEvents = 3
    Runs = {r1, r2}
    RunLimit = 2
    MaxFailures = 2
    Kiosks = {k}
    MaxRefusals = 2
    MaxDeaths = 1
    Punches = {e1, e2}
    MaxRequests = 5
    MaxChanges = 1
SPECIFICATION MCSpec
SYMMETRY Symmetry
INVARIANTS
    AdminRemains
    RevocationHolds
    AttemptsBounded
    RejectedNotApplied
    PhotosAreAccountedFor
    ClaimsExclude
    ToldIsRecorded
    VoidsAreSingle
PROPERTIES
    ChangeKnowsCurrent
    SignedForSeenBlockers
CHECK_DEADLOCK FALSE
