SPECIFICATION Spec
CONSTANTS
    p1 = p1
    p2 = p2
    c1 = c1
    c2 = c2
    Provider <- TwoProviders
    First = p1
    Caller <- TwoCallers
    MaxRetries = 1
    FailureThreshold = 2
    SuccessThreshold = 2
    HalfOpenMax = 2
INVARIANTS
    TypeOK
PROPERTIES
    TriedBeforeGivingUp
    TripIsEarned
    EveryCallReturns
    OpenIsProbed
    HalfOpenMovesOn
