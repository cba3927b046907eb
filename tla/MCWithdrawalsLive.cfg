CONSTANTS
    Users = {u1, u2}
    OrderNumbers = {o1}
    Numbers = {n1}
    Amounts = {1}
    Requests = {r1, r2, r3}
    PoolSize = 2
    None = None
    Total <- MCTotal
SPECIFICATION FairSpec
INVARIANTS
    NeverDeadlocked
PROPERTIES
    EveryRequestEnds
