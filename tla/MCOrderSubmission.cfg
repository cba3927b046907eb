SPECIFICATION Spec
CONSTANTS
    n1 = n1
    n2 = n2
    n3 = n3
    h1 = h1
    h2 = h2
    Users = {u1, u2}
    Numbers = {n1, n2, n3}
    Hashes = {h1, h2}
    Hash <- MCHash
    Requests = {r1, r2, r3}
    None = None
    NotifyBuffer = 1
SYMMETRY Symmetry
INVARIANTS
    AnswersAreTrue
    NotifiedOrdersAreStored
PROPERTIES
    OwnershipSpec
