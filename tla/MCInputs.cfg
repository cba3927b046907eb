SPECIFICATION Spec
CONSTANTS
    None = None
    Other = Other
    Invalid = Invalid
    Absent = Absent
    Failing = Failing
    Alice = Alice
    Bob = Bob
    Texts <- MCTexts
    Credits <- MCCredits
    MaxDigits = 2
    MaxNumberLength = 3
    MaxLength = 3
    Numbers <- MCNumbers
    Statuses <- MCStatuses
    MaxAccrual = 3
    MaxAnswer = 2
    MaxInt = 127
    Second = 4
    DefaultRetry = 5
    MaxRetry = 31
    Bodies <- MCBodies
    Retries <- MCRetries
    Times <- MCTimes
    EncodedRequests <- MCEncodedRequests
    MaxReads = 6
    Starts <- MCStarts
    ApiRequests <- MCApiRequests
    Owner <- MCOwner
    MaxBody = 2
INVARIANTS
    ParsedExactly
    ShownExactly
    SlipsDetected
    OnlySoundVerdicts
    SilentAsAsked
    ContentAsMeant
    NegotiatedAsMeant
    ConnectedAsConfigured
    RefusedWithoutEffect
\* The input has been taken or refused.
CHECK_DEADLOCK FALSE
