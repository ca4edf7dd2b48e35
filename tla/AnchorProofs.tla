---------------------------- MODULE AnchorProofs ----------------------------
(***************************************************************************)
(* Proofs about the anchor validator for every set of operations, hashes, *)
(* burn bounds and chain length.  Only the half of AcceptedAnchored that   *)
(* needs no fact about SelectSeq or SeqSum is proved here; the half that   *)
(* counts the tip's leader commits stays with TLC.                         *)
(***************************************************************************)
EXTENDS AnchorValidation, TLAPS

(* The first conjunct of AcceptedAnchored: an accepted L2 block claims     *)
(* the cumulative burn of the tip it was validated against.                *)
AcceptedClaimsTipWork ==
    \A v \in verdicts : v.ok => v.work = Tip.total_burn

LEMMA ClaimsInit == AnchorInit => AcceptedClaimsTipWork
BY DEF AnchorInit, AcceptedClaimsTipWork

LEMMA ClaimsNext ==
    AcceptedClaimsTipWork /\ [AnchorNext]_vars => AcceptedClaimsTipWork'
<1> SUFFICES ASSUME AcceptedClaimsTipWork, [AnchorNext]_vars
             PROVE  AcceptedClaimsTipWork'
    OBVIOUS
<1>1. ASSUME NextBurnBlock PROVE AcceptedClaimsTipWork'
    BY <1>1 DEF NextBurnBlock, AcceptedClaimsTipWork
<1>2. ASSUME NEW h \in Hashes, NEW w \in WorkClaims, SubmitStacksBlock(h, w)
      PROVE  AcceptedClaimsTipWork'
    <2>1. Tip' = Tip
        BY <1>2 DEF SubmitStacksBlock, sortVars, Tip
    <2>2. ValidateStacksBlock(h, w, Tip, tipBlock) => w = Tip.total_burn
        BY DEF ValidateStacksBlock, BurnConsistent
    <2> QED
        BY <1>2, <2>1, <2>2 DEF SubmitStacksBlock, AcceptedClaimsTipWork
<1>3. CASE UNCHANGED vars
    BY <1>3 DEF vars, sortVars, Tip, AcceptedClaimsTipWork
<1> QED
    BY <1>1, <1>2, <1>3 DEF AnchorNext

(* validate_burn_consistency, composed with the sortition that replaces   *)
(* the tip: no L2 block is ever accepted with a total work other than the  *)
(* cumulative burn of the current tip, whatever blocks miners submit and   *)
(* however the L1 chain advances.                                          *)
THEOREM AnchorClaimsTipWork == AnchorSpec => []AcceptedClaimsTipWork
BY ClaimsInit, ClaimsNext, PTL DEF AnchorSpec
=============================================================================
