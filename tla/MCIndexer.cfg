CONSTANTS
    MaxL1 = 3
    MaxReorgs = 1
    StartHeights = {1, 2}
    EndHeights = {2, 4}
    NoEnd = NoEnd
SPECIFICATION IndexerSpec
INVARIANTS
    IndexerTypeOK
    DoneCoversRange
    
PROPERTIES
    ImplementsHeaderSync
CHECK_DEADLOCK FALSE
