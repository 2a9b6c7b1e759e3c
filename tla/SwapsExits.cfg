SPECIFICATION Spec
CONSTANTS
    Callers = {c1}
    Ops <- Exits
    Tokens = 3
    MaxSwaps = 3
    MaxAttempts = 1
    MaxBoots = 0
    Faults <- Balance
    None = None
INVARIANT OnePartialInFlight
PROPERTY LedgerSpec
