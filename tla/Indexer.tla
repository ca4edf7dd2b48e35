------------------------------- MODULE Indexer -------------------------------
(***************************************************************************)
(* The burnchain indexer's header sync (indexer.rs, sync_headers) against  *)
(* an L1 node whose chain grows and reorganises while the sync runs, and a *)
(* caller that may clear the cooperative cancellation flag at any time.    *)
(*                                                                         *)
(* The sync reads the L1 tip once, then for each height of [start,target] *)
(* loads the flag (returning TimedOut when it is cleared) and fetches the  *)
(* block at that height over RPC.  The flag load and the fetch are two     *)
(* steps: the caller can clear the flag while the fetch is in flight.  An  *)
(* L1 block is abstracted to its height, its version (bumped by each reorg *)
(* through that height) and its parent's version.                          *)
(***************************************************************************)
EXTENDS Naturals

CONSTANTS
    MaxL1,        \* highest L1 height the node reaches in the model
    MaxReorgs,    \* number of L1 reorganisations in the model
    StartHeights, \* start_height arguments of sync_headers
    EndHeights,   \* end_height arguments other than None
    NoEnd         \* model value: end_height = None

ASSUME IndexerAssumption ==
    /\ MaxL1 \in Nat \ {0}
    /\ MaxReorgs \in Nat
    /\ StartHeights \subseteq 0..MaxL1
    /\ EndHeights \subseteq Nat
    /\ NoEnd \notin Nat

Heights == 0..MaxL1

Terminal == {"done", "cancelled", "failed"}

(* A block as get_block_by_height returns it. *)
Block == [height : Heights, ver : 0..MaxReorgs, pver : 0..MaxReorgs]

VARIABLES
    tip,         \* the L1 node's best height
    ver,         \* ver[h]: version of the L1 node's block at height h
    reorgs,      \* reorganisations so far
    hasFlag,     \* built with new_with_keep_running (Some) or new (None)
    keepRunning, \* the shared AtomicBool
    pc,          \* "idle", "check" (load the flag), "fetch", or Terminal
    startH,      \* start_height of the call
    target,      \* target_height
    cur,         \* the loop's height
    got,         \* the blocks fetched, by height
    afterStop    \* blocks fetched after the flag was cleared (capped at 2)

l1Vars == <<tip, ver, reorgs>>

idxVars == <<pc, startH, target, cur, got, afterStop>>

vars == <<l1Vars, hasFlag, keepRunning, idxVars>>

(* The block at height h on the L1 node's current chain. *)
BlockAt(h) == [height |-> h, ver |-> ver[h], pver |-> IF h = 0 THEN 0 ELSE ver[h - 1]]

IndexerInit ==
    /\ tip \in 1..MaxL1
    /\ ver = [h \in Heights |-> 0]
    /\ reorgs = 0
    /\ hasFlag \in BOOLEAN
    /\ keepRunning = TRUE
    /\ pc = "idle"
    /\ startH = 0 /\ target = 0 /\ cur = 0
    /\ got = << >>
    /\ afterStop = 0

(***************************************************************************)
(* sync_headers(start, end) begins: get_block_height over RPC (which may  *)
(* fail), target = end or the tip read now; an empty range returns at     *)
(* once.                                                                   *)
(***************************************************************************)
SyncHeaders(s, e) ==
    /\ pc = "idle"
    /\ startH' = s
    /\ \/ /\ pc' = "failed"
          /\ UNCHANGED <<target, cur>>
       \/ LET t == IF e = NoEnd THEN tip ELSE e IN
          /\ target' = t
          /\ cur' = s
          /\ pc' = IF s > t THEN "done" ELSE "check"
    /\ UNCHANGED <<l1Vars, hasFlag, keepRunning, got, afterStop>>

(* Mutant: the flag is not consulted in the loop. *)
CheckKeepRunningIgnored ==
    /\ pc = "check"
    /\ pc' = "fetch"
    /\ UNCHANGED <<l1Vars, hasFlag, keepRunning, startH, target, cur, got, afterStop>>

(* Mutant: the flag load with its test inverted. *)
CheckKeepRunningInverted ==
    /\ pc = "check"
    /\ pc' = IF hasFlag /\ keepRunning THEN "cancelled" ELSE "fetch"
    /\ UNCHANGED <<l1Vars, hasFlag, keepRunning, startH, target, cur, got, afterStop>>

(* The loop's flag load: a cleared flag ends the sync with TimedOut. *)
CheckKeepRunning ==
    /\ pc = "check"
    /\ pc' = IF hasFlag /\ ~keepRunning THEN "cancelled" ELSE "fetch"
    /\ UNCHANGED <<l1Vars, hasFlag, keepRunning, startH, target, cur, got, afterStop>>

(* Mutant: the loop ends one height short of the target. *)
FetchedExclusive(next) ==
    /\ got' = [x \in DOMAIN got \cup {cur} |-> IF x = cur THEN BlockAt(cur) ELSE got[x]]
    /\ afterStop' = IF hasFlag /\ ~keepRunning THEN (IF afterStop < 2 THEN afterStop + 1 ELSE 2)
                                                ELSE afterStop
    /\ cur' = next
    /\ pc' = IF next >= target THEN "done" ELSE "check"

(* The fetch succeeded: present the block and move to the next height. *)
Fetched(next) ==
    /\ got' = [x \in DOMAIN got \cup {cur} |-> IF x = cur THEN BlockAt(cur) ELSE got[x]]
    /\ afterStop' = IF hasFlag /\ ~keepRunning THEN (IF afterStop < 2 THEN afterStop + 1 ELSE 2)
                                                ELSE afterStop
    /\ cur' = next
    /\ pc' = IF next > target THEN "done" ELSE "check"

(* Mutant: a failed fetch is skipped instead of returned. *)
GetBlockByHeightSkipErrors ==
    /\ pc = "fetch"
    /\ \/ /\ cur' = cur + 1
          /\ pc' = IF cur + 1 > target THEN "done" ELSE "check"
          /\ UNCHANGED <<got, afterStop>>
       \/ /\ cur <= tip
          /\ Fetched(cur + 1)
    /\ UNCHANGED <<l1Vars, hasFlag, keepRunning, startH, target>>

(***************************************************************************)
(* get_block_by_height(cur): the RPC fails above the node's tip, and may   *)
(* fail or return a block it cannot parse at any height (RpcError, which  *)
(* `?` returns); otherwise the block at cur on the node's current chain.  *)
(***************************************************************************)
GetBlockByHeight ==
    /\ pc = "fetch"
    /\ \/ /\ pc' = "failed"
          /\ UNCHANGED <<cur, got, afterStop>>
       \/ /\ cur <= tip
          /\ Fetched(cur + 1)
    /\ UNCHANGED <<l1Vars, hasFlag, keepRunning, startH, target>>

(* The caller clears the shared flag. *)
Stop ==
    /\ hasFlag /\ keepRunning
    /\ keepRunning' = FALSE
    /\ UNCHANGED <<l1Vars, hasFlag, idxVars>>

(* The L1 node extends its chain by one block. *)
L1Extend ==
    /\ tip < MaxL1
    /\ tip' = tip + 1
    /\ UNCHANGED <<ver, reorgs, hasFlag, keepRunning, idxVars>>

(* The L1 node switches to a branch forking below height k, of tip t.     *)
L1Reorg(k, t) ==
    /\ reorgs < MaxReorgs
    /\ ver' = [h \in Heights |-> IF h >= k THEN ver[h] + 1 ELSE ver[h]]
    /\ tip' = t
    /\ reorgs' = reorgs + 1
    /\ UNCHANGED <<hasFlag, keepRunning, idxVars>>

IndexerStep == CheckKeepRunning \/ GetBlockByHeight

L1Step == L1Extend \/ \E k \in 1..tip, t \in Heights : k <= t /\ L1Reorg(k, t)

IndexerNext ==
    \/ \E s \in StartHeights, e \in EndHeights \cup {NoEnd} : SyncHeaders(s, e)
    \/ IndexerStep
    \/ Stop
    \/ L1Step

IndexerSpec == IndexerInit /\ [][IndexerNext]_vars

-----------------------------------------------------------------------------
IndexerTypeOK ==
    /\ tip \in Heights /\ ver \in [Heights -> 0..MaxReorgs] /\ reorgs \in 0..MaxReorgs
    /\ hasFlag \in BOOLEAN /\ keepRunning \in BOOLEAN
    /\ pc \in {"idle", "check", "fetch"} \cup Terminal
    /\ got \in [DOMAIN got -> Block] /\ DOMAIN got \subseteq Heights
    /\ cur \in 0..(MaxL1 + 1) /\ afterStop \in 0..2

(* A sync that returns Ok(target) has presented every height of           *)
(* [start, target], and no other.                                          *)
DoneCoversRange ==
    pc = "done" => DOMAIN got = startH..target

(* Once the caller clears the flag, the sync fetches at most the one      *)
(* block whose request was already past the flag load.                    *)
CancelWithinOneBlock ==
    afterStop <= 1

(* Spec 4.3 and 6: the blocks presented form one chain: each block's      *)
(* parent is the block presented at the height below; a parent mismatch  *)
(* fails the sync with NoncontiguousHeader.                                 *)
PresentedContiguous ==
    \A h \in DOMAIN got : (h - 1) \in DOMAIN got => got[h].pver = got[h - 1].ver

(***************************************************************************)
(* The header sync as the abstract specification HeaderSync sees it: the  *)
(* loop's states are "running", the heights presented are those of got,    *)
(* and the flag counts as cleared once a caller holding it has cleared it. *)
(***************************************************************************)
HS == INSTANCE HeaderSync WITH
        status    <- CASE pc \in {"check", "fetch"} -> "running"
                       [] pc = "cancelled"          -> "timeout"
                       [] OTHER                     -> pc,
        lo        <- startH,
        hi        <- target,
        presented <- DOMAIN got,
        cancelled <- hasFlag /\ ~keepRunning

(* Spec 4.3: sync_headers implements HeaderSync: it presents the range in  *)
(* order without gaps, returns Ok only after its last height, TimedOut     *)
(* only after the caller cleared the flag, whatever the L1 node does.      *)
ImplementsHeaderSync == HS!Spec
=============================================================================
