CONSTANTS
    Orders = {o1, o2}
    Instances = {i1}
    Workers = {w1, w2}
    None = None
    BatchSize = 2
    NotifyBuffer = 1
    Lease = 2
    Retries <- MCRetry
    MaxAttempts = 1
    Short <- MCShort
    Long <- MCLong
    MaxTime = 1
    MaxCrashes = 0
SPECIFICATION Spec
SYMMETRY Symmetry
CHECK_DEADLOCK FALSE
PROPERTIES
    NoRequestWhilePaused
