SPECIFICATION Spec
CONSTANTS
    Last = 2
    Activity <- OnlyLast
    PageSize = 1
    MaxPages = 1
    SaturationStreak = 2
    MaxRestarts = 1
    MaxEdits = 1
INVARIANTS
    TypeOK
    CursorCoversHistory
    LostOnlyByCrash
    PendingIsReconciled
PROPERTIES
    FeedSpec
    EverySignatureSettles
CHECK_DEADLOCK FALSE
