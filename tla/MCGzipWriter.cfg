SPECIFICATION Spec
CONSTANTS
    Chunks = {c1, c2}
    Empty = Empty
    MaxCalls = 5
INVARIANTS
    StreamWellFormed
    Transparent
CHECK_DEADLOCK FALSE
