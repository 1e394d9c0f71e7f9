CONSTANTS
    Portal = {p1}
    Local = {l1}
    MaxPaths = 1
    MaxFaults = 0
SPECIFICATION Spec
PROPERTIES
    MissingIsFlushed
CHECK_DEADLOCK FALSE
