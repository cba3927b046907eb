SPECIFICATION Spec
CONSTANTS
    Logins = {alice}
    Passwords = {p1, p2}
    Nonces = {n1, n2, n3}
    Requests = {r1, r2}
    None = None
    Lifetime = 1
    MaxTime = 2
SYMMETRY Symmetry
INVARIANTS
    IssuedTokensWork
    AnswersAreTrue
    RefusalsAreJustified
PROPERTIES
    AtomicRegistration
    AcceptedWhileLive
    AccountsSpec
