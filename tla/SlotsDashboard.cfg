SPECIFICATION Spec
CONSTANTS
    Mints = {m1}
    Openers = {t1}
    Requests = {r1}
    AdminOps <- AllOps
    MaxOpenPositions = 1
    MaxPositions = 2
    MaxBoots = 0
    DbMayFail = TRUE
    NoRow = NoRow
SYMMETRY Symmetry
CHECK_DEADLOCK FALSE
INVARIANTS TypeOK PermitsNeverMinted OpenPositionHoldsSlot NoUnexplainedLeak
