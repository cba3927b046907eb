CONSTANTS
    Users = {u1, u2}
    OrderNumbers = {o1, o2}
    Numbers = {n1, n2}
    Amounts <- MCAmounts
    Requests = {r1, r2}
    PoolSize = 2
    None = None
    Total <- MCTotal
SPECIFICATION Spec
SYMMETRY Symmetry
INVARIANTS
    NonNegativeBalance
    AnswersAreTrue
PROPERTIES
    LedgerSpec
