--------------------------- MODULE IndexerProofs ---------------------------
(***************************************************************************)
(* Proofs about the header sync for every L1 height bound, number of       *)
(* reorganisations and set of start and end heights.                       *)
(***************************************************************************)
EXTENDS Indexer, TLAPS

(***************************************************************************)
(* The inductive invariant.  DoneCoversRange alone is not inductive: the  *)
(* loop returns Ok with the range covered only because, while it runs, the *)
(* heights presented are exactly [start, cur) and cur never passes the     *)
(* target.  CancelWithinOneBlock needs that a fetch counted after the flag *)
(* was cleared leaves the loop at the flag load, where it stops.           *)
(***************************************************************************)
IdxInv ==
    /\ tip \in Nat /\ cur \in Nat /\ startH \in Nat /\ target \in Nat
    /\ hasFlag \in BOOLEAN /\ keepRunning \in BOOLEAN
    /\ afterStop \in 0..1
    /\ pc \in {"idle", "check", "fetch"} \cup Terminal
    /\ pc = "idle" => DOMAIN got = {}
    /\ pc \in {"check", "fetch"} =>
           DOMAIN got = startH..(cur - 1) /\ startH <= cur /\ cur <= target
    /\ pc = "done" => DOMAIN got = startH..target
    /\ afterStop = 1 => hasFlag /\ ~keepRunning /\ pc # "fetch"

LEMMA IdxInitInv == IndexerInit => IdxInv
BY IndexerAssumption DEF IndexerInit, IdxInv, Terminal

(* The fetch step, for the height after cur: what it presents and counts. *)
LEMMA FetchedFacts ==
    ASSUME IdxInv, pc = "fetch", Fetched(cur + 1)
    PROVE  /\ DOMAIN got' = startH..cur
           /\ cur' = cur + 1
           /\ pc' = IF cur + 1 > target THEN "done" ELSE "check"
           /\ afterStop' = IF hasFlag /\ ~keepRunning THEN 1 ELSE afterStop
BY DEF IdxInv, Fetched

LEMMA IdxNextInv == IdxInv /\ [IndexerNext]_vars => IdxInv'
<1> SUFFICES ASSUME IdxInv, [IndexerNext]_vars PROVE IdxInv'
    OBVIOUS
<1> USE IndexerAssumption
<1>1. ASSUME NEW s \in StartHeights, NEW e \in EndHeights \cup {NoEnd},
             SyncHeaders(s, e)
      PROVE  IdxInv'
    <2>1. (IF e = NoEnd THEN tip ELSE e) \in Nat /\ s \in Nat
        BY DEF IdxInv
    <2> QED
        BY <1>1, <2>1 DEF SyncHeaders, IdxInv, Terminal, l1Vars
<1>2. ASSUME CheckKeepRunning PROVE IdxInv'
    BY <1>2 DEF CheckKeepRunning, IdxInv, Terminal, l1Vars
<1>3. ASSUME GetBlockByHeight PROVE IdxInv'
    <2>1. CASE pc' = "failed" /\ UNCHANGED <<cur, got, afterStop>>
        BY <1>3, <2>1 DEF GetBlockByHeight, IdxInv, Terminal, l1Vars
    <2>2. CASE cur <= tip /\ Fetched(cur + 1)
        <3>1. /\ DOMAIN got' = startH..cur
              /\ cur' = cur + 1
              /\ pc' = IF cur + 1 > target THEN "done" ELSE "check"
              /\ afterStop' = IF hasFlag /\ ~keepRunning THEN 1 ELSE afterStop
            BY <1>3, <2>2, FetchedFacts DEF GetBlockByHeight
        <3>2. UNCHANGED <<tip, hasFlag, keepRunning, startH, target>>
            BY <1>3 DEF GetBlockByHeight, l1Vars
        <3> QED
            BY <1>3, <3>1, <3>2 DEF GetBlockByHeight, IdxInv, Terminal
    <2> QED
        BY <1>3, <2>1, <2>2 DEF GetBlockByHeight
<1>4. ASSUME Stop PROVE IdxInv'
    BY <1>4 DEF Stop, IdxInv, idxVars, l1Vars
<1>5. ASSUME L1Extend PROVE IdxInv'
    BY <1>5 DEF L1Extend, IdxInv, idxVars
<1>6. ASSUME NEW k \in 1..tip, NEW t \in Heights, L1Reorg(k, t) PROVE IdxInv'
    BY <1>6 DEF L1Reorg, IdxInv, idxVars, Heights
<1>7. CASE UNCHANGED vars
    BY <1>7 DEF vars, l1Vars, idxVars, IdxInv
<1> QED
    BY <1>1, <1>2, <1>3, <1>4, <1>5, <1>6, <1>7
       DEF IndexerNext, IndexerStep, L1Step

(* sync_headers returns Ok(target) only after presenting every height of  *)
(* [start, target] and no other, however the L1 chain grows or reorganises *)
(* and whenever the caller clears the flag.                                *)
THEOREM SyncDoneCoversRange == IndexerSpec => []DoneCoversRange
<1>1. IdxInv => DoneCoversRange
    BY DEF IdxInv, DoneCoversRange
<1> QED
    BY <1>1, IdxInitInv, IdxNextInv, PTL DEF IndexerSpec

(* Once the caller clears keep_running, sync_headers fetches at most the  *)
(* one block whose request had already passed the flag load.               *)
THEOREM SyncCancelWithinOneBlock == IndexerSpec => []CancelWithinOneBlock
<1>1. IdxInv => CancelWithinOneBlock
    BY DEF IdxInv, CancelWithinOneBlock
<1> QED
    BY <1>1, IdxInitInv, IdxNextInv, PTL DEF IndexerSpec

-----------------------------------------------------------------------------
(***************************************************************************)
(* Refinement of HeaderSync.  The flag load that finds the flag set and   *)
(* both L1 steps are stutters of the abstract sync; every other step is    *)
(* one abstract step.  The fetch is Present of height cur, which needs the *)
(* invariant: the heights presented so far are [startH, cur) and cur is in *)
(* the range.                                                              *)
(***************************************************************************)
LEMMA RefineInit == IndexerInit => HS!Init
BY DEF IndexerInit, HS!Init

LEMMA RefineStep == IdxInv /\ [IndexerNext]_vars => [HS!Next]_HS!vars
<1> SUFFICES ASSUME IdxInv, [IndexerNext]_vars PROVE [HS!Next]_HS!vars
    OBVIOUS
<1> USE IndexerAssumption
<1>1. ASSUME NEW s \in StartHeights, NEW e \in EndHeights \cup {NoEnd},
             SyncHeaders(s, e)
      PROVE  [HS!Next]_HS!vars
    <2>0. s \in Nat /\ tip \in Nat
        BY DEF IdxInv
    <2>1. CASE pc' = "failed" /\ UNCHANGED <<target, cur>>
        <3>1. HS!StartFailed
            BY <1>1, <2>0, <2>1 DEF SyncHeaders, HS!StartFailed, l1Vars
        <3> QED
            BY <3>1 DEF HS!Next
    <2>2. CASE LET t == IF e = NoEnd THEN tip ELSE e IN
                 /\ target' = t
                 /\ cur' = s
                 /\ pc' = IF s > t THEN "done" ELSE "check"
        <3>1. HS!Start
            BY <1>1, <2>0, <2>2 DEF SyncHeaders, HS!Start, l1Vars
        <3> QED
            BY <3>1 DEF HS!Next
    <2> QED
        BY <1>1, <2>1, <2>2 DEF SyncHeaders
<1>2. ASSUME CheckKeepRunning PROVE [HS!Next]_HS!vars
    <2>1. CASE hasFlag /\ ~keepRunning
        <3>1. HS!TimeOut
            BY <1>2, <2>1 DEF CheckKeepRunning, HS!TimeOut, l1Vars
        <3> QED
            BY <3>1 DEF HS!Next
    <2>2. CASE ~(hasFlag /\ ~keepRunning)
        BY <1>2, <2>2 DEF CheckKeepRunning, HS!vars, l1Vars
    <2> QED
        BY <2>1, <2>2
<1>3. ASSUME GetBlockByHeight PROVE [HS!Next]_HS!vars
    <2>1. CASE pc' = "failed" /\ UNCHANGED <<cur, got, afterStop>>
        <3>1. HS!Fail
            BY <1>3, <2>1 DEF GetBlockByHeight, HS!Fail, l1Vars
        <3> QED
            BY <3>1 DEF HS!Next
    <2>2. CASE cur <= tip /\ Fetched(cur + 1)
        <3>1. /\ DOMAIN got' = startH..cur
              /\ pc' = IF cur + 1 > target THEN "done" ELSE "check"
            BY <1>3, <2>2, FetchedFacts DEF GetBlockByHeight
        <3>2. /\ DOMAIN got = startH..(cur - 1) /\ startH <= cur /\ cur <= target
              /\ cur \in Nat /\ target \in Nat
            BY <1>3 DEF GetBlockByHeight, IdxInv
        <3>3. UNCHANGED <<hasFlag, keepRunning, startH, target>>
            BY <1>3 DEF GetBlockByHeight
        <3>4. HS!Present
            <4>1. cur \in startH..target /\ DOMAIN got' = DOMAIN got \cup {cur}
                BY <3>1, <3>2
            <4>2. (IF cur + 1 > target THEN "done" ELSE "check") =
                  (IF cur = target THEN "done" ELSE "check")
                BY <3>2
            <4> QED
                BY <1>3, <3>1, <3>2, <3>3, <4>1, <4>2 DEF GetBlockByHeight, HS!Present
        <3> QED
            BY <3>4 DEF HS!Next
    <2> QED
        BY <1>3, <2>1, <2>2 DEF GetBlockByHeight
<1>4. ASSUME Stop PROVE [HS!Next]_HS!vars
    <2>1. HS!Clear
        BY <1>4 DEF Stop, HS!Clear, idxVars, l1Vars
    <2> QED
        BY <2>1 DEF HS!Next
<1>5. ASSUME L1Extend PROVE [HS!Next]_HS!vars
    BY <1>5 DEF L1Extend, HS!vars, idxVars
<1>6. ASSUME NEW k \in 1..tip, NEW t \in Heights, L1Reorg(k, t) PROVE [HS!Next]_HS!vars
    BY <1>6 DEF L1Reorg, HS!vars, idxVars
<1>7. CASE UNCHANGED vars
    BY <1>7 DEF vars, l1Vars, idxVars, HS!vars
<1> QED
    BY <1>1, <1>2, <1>3, <1>4, <1>5, <1>6, <1>7
       DEF IndexerNext, IndexerStep, L1Step

(* Spec 4.3 for every L1 chain, range and cancellation: sync_headers       *)
(* presents the heights of [start, end] in order without gaps, returns Ok  *)
(* only after the last, TimedOut only after keep_running was cleared, and  *)
(* otherwise stops with an error.                                          *)
THEOREM SyncRefinesHeaderSync == IndexerSpec => ImplementsHeaderSync
<1>1. IndexerInit => HS!Init
    BY RefineInit
<1>2. IdxInv /\ [IndexerNext]_vars => [HS!Next]_HS!vars
    BY RefineStep
<1> QED
    BY <1>1, <1>2, IdxInitInv, IdxNextInv, PTL DEF IndexerSpec, ImplementsHeaderSync, HS!Spec

-----------------------------------------------------------------------------
(***************************************************************************)
(* Type correctness.  IndexerTypeOK is not inductive by itself: a reorg    *)
(* bumps the branch version of the heights it replaces, and the versions   *)
(* stay below MaxReorgs only because no version exceeds the number of      *)
(* reorgs so far.  That bound also keeps every block fetched in Block.     *)
(***************************************************************************)
IdxTypeInv ==
    /\ IndexerTypeOK
    /\ \A h \in Heights : ver[h] <= reorgs

LEMMA IdxTypeInit == IndexerInit => IdxTypeInv
BY IndexerAssumption DEF IndexerInit, IdxTypeInv, IndexerTypeOK, Heights, Terminal

(* The block get_block_by_height returns at a height of the chain. *)
LEMMA BlockAtType ==
    ASSUME IdxTypeInv, NEW h \in Heights
    PROVE  BlockAt(h) \in Block
BY IndexerAssumption DEF IdxTypeInv, IndexerTypeOK, BlockAt, Block, Heights

LEMMA IdxTypeNext == IdxTypeInv /\ [IndexerNext]_vars => IdxTypeInv'
<1> SUFFICES ASSUME IdxTypeInv, [IndexerNext]_vars PROVE IdxTypeInv'
    OBVIOUS
<1> USE IndexerAssumption
<1>1. ASSUME NEW s \in StartHeights, NEW e \in EndHeights \cup {NoEnd},
             SyncHeaders(s, e)
      PROVE  IdxTypeInv'
    BY <1>1 DEF SyncHeaders, IdxTypeInv, IndexerTypeOK, Terminal, l1Vars, Heights
<1>2. ASSUME CheckKeepRunning PROVE IdxTypeInv'
    BY <1>2 DEF CheckKeepRunning, IdxTypeInv, IndexerTypeOK, Terminal, l1Vars
<1>3. ASSUME GetBlockByHeight PROVE IdxTypeInv'
    <2>1. CASE pc' = "failed" /\ UNCHANGED <<cur, got, afterStop>>
        BY <1>3, <2>1 DEF GetBlockByHeight, IdxTypeInv, IndexerTypeOK, Terminal, l1Vars
    <2>2. CASE cur <= tip /\ Fetched(cur + 1)
        <3>1. cur \in Heights /\ cur + 1 \in 0..(MaxL1 + 1)
            BY <2>2 DEF IdxTypeInv, IndexerTypeOK, Heights
        <3>2. BlockAt(cur) \in Block
            BY <3>1, BlockAtType
        <3>3. /\ got' \in [DOMAIN got' -> Block] /\ DOMAIN got' \subseteq Heights
              /\ afterStop' \in 0..2
            BY <2>2, <3>1, <3>2 DEF Fetched, IdxTypeInv, IndexerTypeOK
        <3>4. UNCHANGED <<tip, ver, reorgs, hasFlag, keepRunning>>
            BY <1>3 DEF GetBlockByHeight, l1Vars
        <3> QED
            BY <2>2, <3>1, <3>3, <3>4 DEF Fetched, IdxTypeInv, IndexerTypeOK, Terminal
    <2> QED
        BY <1>3, <2>1, <2>2 DEF GetBlockByHeight
<1>4. ASSUME Stop PROVE IdxTypeInv'
    BY <1>4 DEF Stop, IdxTypeInv, IndexerTypeOK, idxVars, l1Vars
<1>5. ASSUME L1Extend PROVE IdxTypeInv'
    BY <1>5 DEF L1Extend, IdxTypeInv, IndexerTypeOK, idxVars, Heights
<1>6. ASSUME NEW k \in 1..tip, NEW t \in Heights, L1Reorg(k, t) PROVE IdxTypeInv'
    <2>1. reorgs \in Nat /\ reorgs' = reorgs + 1 /\ reorgs' <= MaxReorgs
        BY <1>6 DEF L1Reorg, IdxTypeInv, IndexerTypeOK
    <2>2. \A h \in Heights : ver'[h] \in 0..reorgs'
        BY <1>6, <2>1 DEF L1Reorg, IdxTypeInv, IndexerTypeOK
    <2>3. ver' \in [Heights -> 0..MaxReorgs]
        BY <1>6, <2>1, <2>2 DEF L1Reorg
    <2> QED
        BY <1>6, <2>1, <2>2, <2>3 DEF L1Reorg, IdxTypeInv, IndexerTypeOK, idxVars
<1>7. CASE UNCHANGED vars
    BY <1>7 DEF vars, l1Vars, idxVars, IdxTypeInv, IndexerTypeOK
<1> QED
    BY <1>1, <1>2, <1>3, <1>4, <1>5, <1>6, <1>7
       DEF IndexerNext, IndexerStep, L1Step

(* Whatever the L1 node does, sync_headers keeps its height within one     *)
(* past the node's highest block, presents only well-formed blocks of      *)
(* heights the chain has had, and the branch versions stay counted.         *)
THEOREM IndexerTypeCorrect == IndexerSpec => []IndexerTypeOK
<1>1. IdxTypeInv => IndexerTypeOK
    BY DEF IdxTypeInv
<1> QED
    BY <1>1, IdxTypeInit, IdxTypeNext, PTL DEF IndexerSpec
=============================================================================
