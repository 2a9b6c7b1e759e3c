SPECIFICATION Spec
CONSTANTS
    Mints = {m1}
    Openers = {t1, t2}
    Requests = {r1}
    AdminOps <- DeleteOps
    MaxOpenPositions = 3
    MaxPositions = 3
    MaxBoots = 0
    DbMayFail = FALSE
    NoRow = NoRow
SYMMETRY Symmetry
CHECK_DEADLOCK FALSE
INVARIANTS OneOpenPositionPerMint
