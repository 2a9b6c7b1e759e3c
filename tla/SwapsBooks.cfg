SPECIFICATION Spec
CONSTANTS
    Callers = {c1}
    Ops <- PartialsAndAdds
    Tokens = 4
    MaxSwaps = 3
    MaxAttempts = 1
    MaxBoots = 0
    Faults <- ChainFaults
    None = None
INVARIANT TypeOK
INVARIANT BooksFollowWallet
PROPERTY LedgerSpec
