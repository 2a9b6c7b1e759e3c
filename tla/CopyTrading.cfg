SPECIFICATION Spec
CONSTANTS
    Trades <- TwoBuysOneSell
    Buys <- TwoBuys
    ExitMode = "hybrid"
    Budget = 1
    Lot = 2
    MaxEdits = 1
INVARIANTS
    TypeOK
    LiveSpendIsAccounted
    BudgetHolds
    PaperBookBalances
PROPERTIES
    ClaimsResolve
    SubmittedIsConfirmed
    WatchFollowsTask
