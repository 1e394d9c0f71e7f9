CONSTANTS
    k = k
    Kiosks = {k}
    MaxRefusals = 1
    MaxDeaths = 0
SPECIFICATION Spec
INVARIANTS
    SilenceFolded
CHECK_DEADLOCK FALSE
