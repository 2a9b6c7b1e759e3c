SPECIFICATION Spec
CONSTANTS
    Callers = {c1}
    Ops <- Closes
    Tokens = 2
    MaxSwaps = 1
    MaxAttempts = 1
    MaxBoots = 0
    Faults <- Late
    None = None
INVARIANT LandedExitNotWrittenOff
