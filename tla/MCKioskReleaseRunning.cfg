CONSTANTS
    NumUpdates = 1
    MaxFaults = 0
SPECIFICATION Spec
INVARIANTS
    RunningIsComplete
