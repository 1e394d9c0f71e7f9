CONSTANTS
    NumWorkers = 2
    MaxSequence = 2
    MaxReceipts = 2
SPECIFICATION MCSpec
INVARIANTS
    CertifiedMeansForgotten
    AppliedRosterIsCurrent
