CONSTANTS
    Configs <- MCConfigs
    Factors <- MCFactors
    Txs <- MCTxs
    OpBurns = {1000, 20000}
    MinBurn = 1000
    NoQuote = NoQuote
INIT FeeInit
NEXT FeeNext
INVARIANTS
    
    TxFeeClamped
    FeeSplitBounded
