SPECIFICATION Spec
CONSTANTS
    Mints = {m1}
    Openers = {t1, t2}
    Requests = {r1}
    AdminOps <- ArchiveOps
    MaxOpenPositions = 2
    MaxPositions = 2
    MaxBoots = 1
    DbMayFail = FALSE
    NoRow = NoRow
SYMMETRY Symmetry
CHECK_DEADLOCK FALSE
INVARIANTS OneOpenWhileLockStands OpenPositionHoldsSlot
