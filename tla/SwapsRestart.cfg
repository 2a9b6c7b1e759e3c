SPECIFICATION Spec
CONSTANTS
    Callers = {c1}
    Ops <- Partials
    Tokens = 4
    MaxSwaps = 3
    MaxAttempts = 0
    MaxBoots = 1
    Faults <- DbFaults
    None = None
INVARIANT NothingForgotten
