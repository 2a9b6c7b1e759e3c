SPECIFICATION Spec
CONSTANTS
    Callers = {c1}
    Ops <- Partials
    Tokens = 4
    MaxSwaps = 1
    MaxAttempts = 1
    MaxBoots = 0
    Faults <- DbFaults
    None = None
INVARIANT BookedOnce
