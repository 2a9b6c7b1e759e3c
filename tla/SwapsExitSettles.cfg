SPECIFICATION FairSpec
CONSTANTS
    Callers = {c1}
    Ops <- Closes
    Tokens = 3
    MaxSwaps = 2
    MaxAttempts = 1
    MaxBoots = 0
    Faults <- Split
    None = None
PROPERTY StampedExitSettles
