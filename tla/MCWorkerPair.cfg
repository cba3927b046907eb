CONSTANTS
    Orders = {o1}
    Instances = {i1}
    Workers = {w1, w2}
    None = None
    BatchSize = 2
    NotifyBuffer = 1
    Lease = 2
    Retries <- MCRetries
    MaxAttempts = 1
    Short <- MCShort
    Long <- MCLong
    MaxTime = 4
    MaxCrashes = 1
SPECIFICATION Spec
SYMMETRY Symmetry
CHECK_DEADLOCK FALSE
INVARIANTS
    TypeOK
    ChannelRoom
    LeaseExclusive
    NeverForgotten
PROPERTIES
    PauseNeverShrinks
    LifecycleSpec
