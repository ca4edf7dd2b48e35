CONSTANTS
    m1 = m1
    m2 = m2
    h1 = h1
    h2 = h2
    main = main
    test = test
    Miners = {m1, m2}
    Hashes = {h1, h2}
    Networks = {main, test}
    ActiveNet = main
    MinBurn = 2
    MaxBurn = 3
    MaxU = 31
    BlockOps <- MCContestedBlockOps
    Draws = {0, 15, 31}
    MaxBlocks = 2
    NoWinner = NoWinner
INIT AnchorInit
NEXT AnchorNext
INVARIANT
    WinnerHoldsDraw
