---------------------------- MODULE BalanceCache ----------------------------
(***************************************************************************)
(* The balance cache of BTCZSPerformanceOptimizer (btczs_performance.rs):  *)
(* get_balance_cached serves an entry younger than the TTL, and otherwise *)
(* stores a freshly fetched balance (the fetch is a TODO that returns      *)
(* BTCZSBalance::zero(block_height), abstracted to its height) stamped     *)
(* with the current instant, then evicts the oldest entries beyond the    *)
(* size limit (optimize_cache); cleanup_cache drops every expired entry.   *)
(* Time is whole seconds.  Each entry carries, as a ghost, the last time  *)
(* it was used, to state what the eviction comment promises.              *)
(***************************************************************************)
EXTENDS Naturals, FiniteSets

CONSTANTS
    Addr,          \* StacksAddress values
    Heights,       \* block heights a caller asks at
    MaxCacheSize,  \* CacheConfig::max_cache_size
    TTL,           \* CacheConfig::cache_ttl_seconds
    MaxTime        \* model bound on the clock

ASSUME CacheAssumption ==
    /\ MaxCacheSize \in Nat \ {0}
    /\ TTL \in Nat \ {0}
    /\ MaxTime \in Nat
    /\ Heights \subseteq Nat

Entry == [height : Heights, time : 0..MaxTime, used : 0..MaxTime]

VARIABLES
    cache,     \* balance_cache: address -> (balance, cached_time), and last use
    now,       \* Instant::now(), in seconds
    victims,   \* entries removed by the last optimize_cache
    survivors, \* entries it kept
    served     \* the last answer: the height asked and the height of the balance

vars == <<cache, now, victims, survivors, served>>

Fresh(e) == now - e.time < TTL

(* Mutant: eviction that removes one entry too few. *)
OptimizeCacheShort(c) ==
    LET n == Cardinality(DOMAIN c) - MaxCacheSize - 1 IN
    {V \in SUBSET DOMAIN c :
        Cardinality(V) = n /\ \A v \in V, k \in DOMAIN c \ V : c[v].time <= c[k].time}

(***************************************************************************)
(* optimize_cache: the sets of entries it may remove: the len - max with  *)
(* the earliest cached_time (ties broken by HashMap order).               *)
(***************************************************************************)
OptimizeCache(c) ==
    LET n == Cardinality(DOMAIN c) - MaxCacheSize IN
    {V \in SUBSET DOMAIN c :
        Cardinality(V) = n /\ \A v \in V, k \in DOMAIN c \ V : c[v].time <= c[k].time}

Insert(c, a, e) == [x \in DOMAIN c \cup {a} |-> IF x = a THEN e ELSE c[x]]

(* Mutant: evicted entries are reset to a zero balance rather than removed. *)
RemoveKeepsKey(c, V) ==
    [x \in DOMAIN c |-> IF x \in V THEN [height |-> 0, time |-> 0, used |-> 0] ELSE c[x]]

Remove(c, V) == [x \in DOMAIN c \ V |-> c[x]]

CacheInit ==
    /\ cache = [a \in {} |-> 0]
    /\ now = 0
    /\ victims = {} /\ survivors = {}
    /\ served = {}

(* A hit: the balance cached for the address is returned as it is,      *)
(* whatever the height h asked.                                             *)
GetBalanceHit(a, h) ==
    /\ a \in DOMAIN cache /\ Fresh(cache[a])
    /\ cache' = [cache EXCEPT ![a].used = now]
    /\ served' = {[asked |-> h, height |-> cache[a].height]}
    /\ UNCHANGED <<now, victims, survivors>>

(***************************************************************************)
(* A miss: update_balance_cache inserts the balance fetched at height h,  *)
(* and calls optimize_cache when the cache has grown past its limit.       *)
(***************************************************************************)
GetBalanceMiss(a, h) ==
    /\ ~(a \in DOMAIN cache /\ Fresh(cache[a]))
    /\ LET c == Insert(cache, a, [height |-> h, time |-> now, used |-> now]) IN
       IF Cardinality(DOMAIN c) > MaxCacheSize
       THEN \E V \in OptimizeCache(c) :
               /\ cache' = Remove(c, V)
               /\ victims' = {c[v] : v \in V}
               /\ survivors' = {c[k] : k \in DOMAIN c \ V}
       ELSE /\ cache' = c
            /\ UNCHANGED <<victims, survivors>>
    /\ served' = {[asked |-> h, height |-> h]}
    /\ UNCHANGED now

(* Mutant: a cleanup that also drops entries one second short of the TTL. *)
CleanupCacheEarly ==
    /\ cache' = [a \in {x \in DOMAIN cache : now - cache[x].time + 1 < TTL} |-> cache[a]]
    /\ UNCHANGED <<now, victims, survivors, served>>

(* cleanup_cache: every expired entry is dropped. *)
CleanupCache ==
    /\ cache' = [a \in {x \in DOMAIN cache : Fresh(cache[x])} |-> cache[a]]
    /\ UNCHANGED <<now, victims, survivors, served>>

Tick ==
    /\ now < MaxTime
    /\ now' = now + 1
    /\ UNCHANGED <<cache, victims, survivors, served>>

CacheNext ==
    \/ \E a \in Addr, h \in Heights : GetBalanceHit(a, h)
    \/ \E a \in Addr, h \in Heights : GetBalanceMiss(a, h)
    \/ CleanupCache
    \/ Tick

CacheSpec == CacheInit /\ [][CacheNext]_vars

-----------------------------------------------------------------------------
CacheTypeOK ==
    /\ DOMAIN cache \subseteq Addr /\ cache \in [DOMAIN cache -> Entry]
    /\ now \in 0..MaxTime
    /\ victims \subseteq Entry /\ survivors \subseteq Entry
    /\ served \subseteq [asked : Heights, height : Heights] /\ Cardinality(served) <= 1

(* test_cache_size_limit: the cache never holds more than max_cache_size  *)
(* entries, however lookups, expiries and cleanups interleave.             *)
CacheWithinLimit ==
    Cardinality(DOMAIN cache) <= MaxCacheSize

(* The comment of optimize_cache: the entries removed are the least       *)
(* recently used: none was used later than an entry that was kept.        *)
EvictsLeastRecentlyUsed ==
    \A v \in victims, k \in survivors : v.used <= k.used

(* An address leaves the balance cache only when its entry has expired    *)
(* (cleanup_cache) or when a miss found the cache at max_cache_size        *)
(* (update_balance_cache calling optimize_cache): no step of any caller    *)
(* loses a live balance while there is room for it.                        *)
CacheDropStep ==
    \A a \in DOMAIN cache \ DOMAIN cache' :
        ~Fresh(cache[a]) \/ Cardinality(DOMAIN cache) >= MaxCacheSize

CacheDropsOnlyExpiredOrFull == [][CacheDropStep]_vars

(* get_balance_cached(address, block_height) returns the balance at the   *)
(* height it is asked for, cached or fetched.                              *)
ServedAtAskedHeight ==
    \A s \in served : s.height = s.asked
=============================================================================
