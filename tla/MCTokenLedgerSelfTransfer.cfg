CONSTANTS
    a1 = a1
    a2 = a2
    a3 = a3
    Addr <- MCAddr
    Amounts = {1, 2}
    MintBound = 4
SYMMETRY MCSymmetry
CONSTRAINT MCConstraint
INIT LedgerInit
NEXT LedgerNext
INVARIANTS
    NoTokensCreated
CHECK_DEADLOCK FALSE
