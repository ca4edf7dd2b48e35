CONSTANTS
    a1 = a1
    a2 = a2
    a3 = a3
    Addr <- MCAddr
    Heights = {100, 101}
    MaxCacheSize = 2
    TTL = 3
    MaxTime = 5
SYMMETRY MCSymmetry
INIT CacheInit
NEXT CacheNext
INVARIANTS
    CacheTypeOK
    CacheWithinLimit
PROPERTIES
    CacheDropsOnlyExpiredOrFull
