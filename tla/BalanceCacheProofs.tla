------------------------- MODULE BalanceCacheProofs -------------------------
(***************************************************************************)
(* Proof that the balance cache keeps its size limit for every set of      *)
(* addresses, size limit, TTL and clock bound.                             *)
(***************************************************************************)
EXTENDS BalanceCache, FiniteSetTheorems, TLAPS

(* The inductive invariant: the cached addresses form a finite set no     *)
(* larger than the limit.  Finiteness is needed to count them at all.      *)
CacheInv ==
    /\ IsFiniteSet(DOMAIN cache)
    /\ Cardinality(DOMAIN cache) <= MaxCacheSize

LEMMA CacheInitInv == CacheInit => CacheInv
<1> SUFFICES ASSUME CacheInit PROVE CacheInv
    OBVIOUS
<1>1. DOMAIN cache = {}
    BY DEF CacheInit
<1> QED
    BY <1>1, FS_EmptySet, CacheAssumption DEF CacheInv

(* update_balance_cache followed by optimize_cache: inserting one address *)
(* and removing the len - max oldest leaves at most max entries.           *)
LEMMA MissKeepsLimit ==
    ASSUME CacheInv, NEW a, NEW e,
           NEW c, c = Insert(cache, a, e)
    PROVE  /\ IsFiniteSet(DOMAIN c)
           /\ Cardinality(DOMAIN c) > MaxCacheSize =>
                \A V \in OptimizeCache(c) :
                    /\ IsFiniteSet(DOMAIN Remove(c, V))
                    /\ Cardinality(DOMAIN Remove(c, V)) <= MaxCacheSize
<1>1. DOMAIN c = DOMAIN cache \cup {a}
    BY DEF Insert
<1>2. IsFiniteSet(DOMAIN c) /\ Cardinality(DOMAIN c) \in Nat
    BY <1>1, FS_AddElement, FS_CardinalityType DEF CacheInv
<1>3. ASSUME Cardinality(DOMAIN c) > MaxCacheSize, NEW V \in OptimizeCache(c)
      PROVE  /\ IsFiniteSet(DOMAIN Remove(c, V))
             /\ Cardinality(DOMAIN Remove(c, V)) <= MaxCacheSize
    <2>1. V \subseteq DOMAIN c /\ Cardinality(V) = Cardinality(DOMAIN c) - MaxCacheSize
        BY <1>3 DEF OptimizeCache
    <2>2. DOMAIN Remove(c, V) = DOMAIN c \ V
        BY DEF Remove
    <2>3. DOMAIN c \cap V = V
        BY <2>1
    <2>4. /\ IsFiniteSet(DOMAIN c \ V)
          /\ Cardinality(DOMAIN c \ V) = Cardinality(DOMAIN c) - Cardinality(DOMAIN c \cap V)
        BY <1>2, FS_Difference
    <2>5. Cardinality(DOMAIN c \ V) = Cardinality(DOMAIN c) - Cardinality(V)
        BY <2>3, <2>4
    <2> QED
        BY <1>2, <2>1, <2>2, <2>4, <2>5, CacheAssumption
<1> QED
    BY <1>2, <1>3

LEMMA CacheNextInv == CacheInv /\ [CacheNext]_vars => CacheInv'
<1> SUFFICES ASSUME CacheInv, [CacheNext]_vars PROVE CacheInv'
    OBVIOUS
<1>1. ASSUME NEW a \in Addr, NEW h \in Heights, GetBalanceHit(a, h) PROVE CacheInv'
    <2>1. DOMAIN cache' = DOMAIN cache
        BY <1>1 DEF GetBalanceHit
    <2> QED
        BY <2>1 DEF CacheInv
<1>2. ASSUME NEW a \in Addr, NEW h \in Heights, GetBalanceMiss(a, h) PROVE CacheInv'
    <2> DEFINE c == Insert(cache, a, [height |-> h, time |-> now, used |-> now])
    <2>1. /\ IsFiniteSet(DOMAIN c)
          /\ Cardinality(DOMAIN c) > MaxCacheSize =>
                \A V \in OptimizeCache(c) :
                    /\ IsFiniteSet(DOMAIN Remove(c, V))
                    /\ Cardinality(DOMAIN Remove(c, V)) <= MaxCacheSize
        BY MissKeepsLimit
    <2>2. CASE Cardinality(DOMAIN c) > MaxCacheSize
        <3>1. PICK V \in OptimizeCache(c) : cache' = Remove(c, V)
            BY <1>2, <2>2 DEF GetBalanceMiss
        <3> QED
            BY <2>1, <2>2, <3>1 DEF CacheInv
    <2>3. CASE ~(Cardinality(DOMAIN c) > MaxCacheSize)
        <3>1. cache' = c
            BY <1>2, <2>3 DEF GetBalanceMiss
        <3>2. Cardinality(DOMAIN c) \in Nat
            BY <2>1, FS_CardinalityType
        <3> QED
            BY <2>1, <2>3, <3>1, <3>2, CacheAssumption DEF CacheInv
    <2> QED
        BY <2>2, <2>3
<1>3. ASSUME CleanupCache PROVE CacheInv'
    <2>1. DOMAIN cache' \subseteq DOMAIN cache
        BY <1>3 DEF CleanupCache
    <2>2. IsFiniteSet(DOMAIN cache') /\ Cardinality(DOMAIN cache') <= Cardinality(DOMAIN cache)
        BY <2>1, FS_Subset DEF CacheInv
    <2>3. Cardinality(DOMAIN cache) \in Nat /\ Cardinality(DOMAIN cache') \in Nat
        BY <2>2, FS_CardinalityType DEF CacheInv
    <2> QED
        BY <2>2, <2>3, CacheAssumption DEF CacheInv
<1>4. ASSUME Tick PROVE CacheInv'
    BY <1>4 DEF Tick, CacheInv
<1>5. CASE UNCHANGED vars
    BY <1>5 DEF vars, CacheInv
<1> QED
    BY <1>1, <1>2, <1>3, <1>4, <1>5 DEF CacheNext

(* test_cache_size_limit for every configuration: get_balance_cached,      *)
(* with the eviction update_balance_cache triggers, and cleanup_cache      *)
(* never leave more than max_cache_size entries in the cache.              *)
THEOREM CacheLimitHolds == CacheSpec => []CacheWithinLimit
<1>1. CacheInv => CacheWithinLimit
    BY DEF CacheInv, CacheWithinLimit
<1> QED
    BY <1>1, CacheInitInv, CacheNextInv, PTL DEF CacheSpec

-----------------------------------------------------------------------------
(* Type correctness is inductive as it stands: a miss builds its entry     *)
(* from the current clock and an asked height, and every other step keeps  *)
(* or drops entries.                                                       *)
LEMMA CacheTypeInit == CacheInit => CacheTypeOK
<1> SUFFICES ASSUME CacheInit PROVE CacheTypeOK
    OBVIOUS
<1>1. Cardinality(served) = 0
    BY FS_EmptySet DEF CacheInit
<1> QED
    BY <1>1, CacheAssumption DEF CacheInit, CacheTypeOK

(* Every answer is a single served record. *)
LEMMA ServedSingleton ==
    ASSUME NEW x PROVE Cardinality({x}) <= 1
BY FS_Singleton

LEMMA CacheTypeNext == CacheTypeOK /\ [CacheNext]_vars => CacheTypeOK'
<1> SUFFICES ASSUME CacheTypeOK, [CacheNext]_vars PROVE CacheTypeOK'
    OBVIOUS
<1>1. ASSUME NEW a \in Addr, NEW h \in Heights, GetBalanceHit(a, h) PROVE CacheTypeOK'
    <2>1. cache[a] \in Entry /\ now \in 0..MaxTime
        BY <1>1 DEF GetBalanceHit, CacheTypeOK
    <2>2. cache' \in [DOMAIN cache -> Entry] /\ DOMAIN cache' = DOMAIN cache
        BY <1>1, <2>1 DEF GetBalanceHit, CacheTypeOK, Entry
    <2>3. served' \subseteq [asked : Heights, height : Heights]
        BY <1>1, <2>1 DEF GetBalanceHit, Entry
    <2> QED
        BY <1>1, <2>2, <2>3, ServedSingleton DEF GetBalanceHit, CacheTypeOK
<1>2. ASSUME NEW a \in Addr, NEW h \in Heights, GetBalanceMiss(a, h) PROVE CacheTypeOK'
    <2> DEFINE c == Insert(cache, a, [height |-> h, time |-> now, used |-> now])
    <2>1. DOMAIN c = DOMAIN cache \cup {a} /\ DOMAIN c \subseteq Addr
          /\ c \in [DOMAIN c -> Entry]
        BY DEF Insert, CacheTypeOK, Entry
    <2>2. served' \subseteq [asked : Heights, height : Heights]
          /\ Cardinality(served') <= 1
        <3>1. served' = {[asked |-> h, height |-> h]}
            BY <1>2 DEF GetBalanceMiss
        <3>2. Cardinality({[asked |-> h, height |-> h]}) <= 1
            BY ServedSingleton
        <3> QED
            BY <3>1, <3>2
    <2>3. CASE Cardinality(DOMAIN c) > MaxCacheSize
        <3>1. PICK V \in OptimizeCache(c) :
                  /\ cache' = Remove(c, V)
                  /\ victims' = {c[v] : v \in V}
                  /\ survivors' = {c[k] : k \in DOMAIN c \ V}
            BY <1>2, <2>3 DEF GetBalanceMiss
        <3>2. V \subseteq DOMAIN c
            BY DEF OptimizeCache
        <3> QED
            BY <1>2, <2>1, <2>2, <3>1, <3>2 DEF GetBalanceMiss, Remove, CacheTypeOK
    <2>4. CASE ~(Cardinality(DOMAIN c) > MaxCacheSize)
        BY <1>2, <2>1, <2>2, <2>4 DEF GetBalanceMiss, CacheTypeOK
    <2> QED
        BY <2>3, <2>4
<1>3. ASSUME CleanupCache PROVE CacheTypeOK'
    BY <1>3 DEF CleanupCache, CacheTypeOK
<1>4. ASSUME Tick PROVE CacheTypeOK'
    BY <1>4, CacheAssumption DEF Tick, CacheTypeOK
<1>5. CASE UNCHANGED vars
    BY <1>5 DEF vars, CacheTypeOK
<1> QED
    BY <1>1, <1>2, <1>3, <1>4, <1>5 DEF CacheNext

(* No interleaving of lookups, clock ticks and cleanups gives a cache     *)
(* entry, an evicted or kept entry or an answer outside its type.          *)
THEOREM CacheTypeCorrect == CacheSpec => []CacheTypeOK
BY CacheTypeInit, CacheTypeNext, PTL DEF CacheSpec

-----------------------------------------------------------------------------
(* A miss evicts only when the cache it inserted into was at the limit:   *)
(* the insertion adds at most one address.                                 *)
LEMMA EvictOnlyWhenFull ==
    ASSUME CacheInv, NEW a, NEW e,
           Cardinality(DOMAIN Insert(cache, a, e)) > MaxCacheSize
    PROVE  Cardinality(DOMAIN cache) >= MaxCacheSize
<1>1. DOMAIN Insert(cache, a, e) = DOMAIN cache \cup {a}
    BY DEF Insert
<1>2. Cardinality(DOMAIN cache) \in Nat
    BY FS_CardinalityType DEF CacheInv
<1>3. Cardinality(DOMAIN cache \cup {a}) =
        IF a \in DOMAIN cache THEN Cardinality(DOMAIN cache)
                              ELSE Cardinality(DOMAIN cache) + 1
    BY FS_AddElement DEF CacheInv
<1>5. Cardinality(DOMAIN cache \cup {a}) > MaxCacheSize
    BY <1>1
<1> QED
    BY <1>2, <1>3, <1>5, CacheAssumption

LEMMA CacheDropSafe == CacheInv /\ [CacheNext]_vars => [CacheDropStep]_vars
<1> SUFFICES ASSUME CacheInv, [CacheNext]_vars PROVE [CacheDropStep]_vars
    OBVIOUS
<1>1. ASSUME NEW a \in Addr, NEW h \in Heights, GetBalanceHit(a, h)
      PROVE  CacheDropStep
    BY <1>1 DEF GetBalanceHit, CacheDropStep
<1>2. ASSUME NEW a \in Addr, NEW h \in Heights, GetBalanceMiss(a, h)
      PROVE  CacheDropStep
    <2> DEFINE e == [height |-> h, time |-> now, used |-> now]
               c == Insert(cache, a, e)
    <2>1. DOMAIN c = DOMAIN cache \cup {a}
        BY DEF Insert
    <2>2. CASE Cardinality(DOMAIN c) > MaxCacheSize
        <3>1. Cardinality(DOMAIN cache) >= MaxCacheSize
            BY <2>2, EvictOnlyWhenFull
        <3> QED
            BY <3>1 DEF CacheDropStep
    <2>3. CASE ~(Cardinality(DOMAIN c) > MaxCacheSize)
        <3>1. cache' = c
            BY <1>2, <2>3 DEF GetBalanceMiss
        <3> QED
            BY <2>1, <3>1 DEF CacheDropStep
    <2> QED
        BY <2>2, <2>3
<1>3. ASSUME CleanupCache PROVE CacheDropStep
    BY <1>3 DEF CleanupCache, CacheDropStep
<1>4. ASSUME Tick PROVE CacheDropStep
    BY <1>4 DEF Tick, CacheDropStep
<1>5. CASE UNCHANGED vars
    BY <1>5 DEF vars
<1> QED
    BY <1>1, <1>2, <1>3, <1>4, <1>5 DEF CacheNext

(* cleanup_cache and optimize_cache, under every interleaving with         *)
(* get_balance_cached and for every limit and TTL, drop a cached balance   *)
(* only when it has expired or the cache was full.                         *)
THEOREM CacheDropsJustified == CacheSpec => CacheDropsOnlyExpiredOrFull
BY CacheInitInv, CacheNextInv, CacheDropSafe, PTL
   DEF CacheSpec, CacheDropsOnlyExpiredOrFull
=============================================================================
