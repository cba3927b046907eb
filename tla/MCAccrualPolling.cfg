CONSTANTS
    Orders = {o1, o2}
    Instances = {i1}
    Workers = {w1}
    None = None
    BatchSize = 1
    NotifyBuffer = 1
    Lease = 1
    Retries <- MCOne
    Delays <- MCOne
    Verdicts = {"PROCESSED"}
    MaxFaults = 1
SPECIFICATION Spec
PROPERTIES
    NoOrderStarves
    VerdictsArrive
