CONSTANTS
 Days = {1,2}
 Links = {{}}
 Texts = {1,2}
 MaxReads = 3
 MaxChanges = 1
 MaxRequests = 2
SPECIFICATION Spec
INVARIANTS TypedIsKept
CHECK_DEADLOCK FALSE
