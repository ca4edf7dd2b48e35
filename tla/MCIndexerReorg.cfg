CONSTANTS
    MaxL1 = 3
    MaxReorgs = 1
    StartHeights = {1, 2}
    EndHeights = {2, 4}
    NoEnd = NoEnd
SPECIFICATION IndexerSpec
INVARIANT
    PresentedContiguous
CHECK_DEADLOCK FALSE
