CONSTANTS
    Orders = {o1}
    Instances = {i1}
    Workers = {w1}
    None = None
    BatchSize = 1
    NotifyBuffer = 1
    Lease = 1
    Retries <- MCTwo
    MaxAttempts = 1
    Short <- MCShort
    Long <- MCLong
    MaxTime = 3
    MaxCrashes = 1
SPECIFICATION Spec
CHECK_DEADLOCK FALSE
PROPERTIES
    ServiceLeftAlone
