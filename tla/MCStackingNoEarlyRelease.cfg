CONSTANTS
    a1 = a1
    a2 = a2
    Addr <- MCAddr
    Amounts = {1}
    MintBound = 2
    CycleLength = 3
    PrepareLength = 1
    MaxCycles = 12
    MinStack = 1
    Conv = 1000
    LockPeriods = {1, 7, 13}
    BurnAmounts = {1}
    MaxHeight = 6
    MaxCycleBurn = 1
    MaxRepeat = 1
    NoStack = NoStack
SYMMETRY MCSymmetry
CONSTRAINT MCConstraint
INIT StackingInit
NEXT StackingNext
INVARIANTS
    NoEarlyRelease
CHECK_DEADLOCK FALSE
