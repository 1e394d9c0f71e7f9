CONSTANTS
    Kiosks = {k1, k2}
    Names = {"n", "m"}
    Unknown = Unknown
    Far = 9
    MaxRequests = 2
    MaxCredential = 1
    MaxNow = 2
    Slots = {1, 2}
    Remembered = {0, 2, 3}
    MaxTime = 3
    MaxToken = 5
    MaxSequence = 3
    NumUpdates = 2
    MaxFaults = 1
SPECIFICATION MCSpec
INVARIANTS
    CommittedIsUsable
    NothingSkipped
PROPERTIES
    AdmittedIsOwner
    QueueIsHonest
\* Bounded histories end, and an update that gave up leaves nothing to do.
CHECK_DEADLOCK FALSE
