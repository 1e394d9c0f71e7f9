CONSTANTS
    p1 = p1
    l1 = l1
    Portal = {p1}
    Local = {l1}
    MaxPaths = 2
    MaxFaults = 2
    NumUpdates = 1
    MaxUpdateFaults = 1
SPECIFICATION MCSpec
INVARIANTS
    PhotosFollowRows
    ErasedBeforeReceipt
PROPERTIES
    EventuallyErased
    Recovers
CHECK_DEADLOCK FALSE
