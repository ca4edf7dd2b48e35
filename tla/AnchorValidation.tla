--------------------------- MODULE AnchorValidation ---------------------------
(***************************************************************************)
(* The anchor validator (bitcoinz_validation.rs) composed with the         *)
(* sortition engine.  While an L1 block is the burn-chain tip, miners      *)
(* submit L2 blocks anchored to it; validate_stacks_block_against_bitcoinz *)
(* runs the header test, the per-operation test and the burn-consistency   *)
(* test, in that order, each ending validation when it fails.  Nothing in *)
(* the source calls it; the model gives it the operations of the tip's L1 *)
(* block as parsed, the input its per-operation check() and network tests  *)
(* are written for.  An L2 block is abstracted to its header hash and the  *)
(* burn its header claims as total work.                                   *)
(***************************************************************************)
EXTENDS Sortition

VARIABLE
    verdicts   \* [hash, work, ok] of each L2 block validated against the tip

vars == <<sortVars, verdicts>>

(* Mutant: a header test that does not compare the hash with the commit.   *)
HeaderValidNoHash(h, S, ops) ==
    LET commits == SelectSeq(ops, IsCommit) IN
    ~(commits = << >> /\ S.sortition)

(***************************************************************************)
(* validate_header_against_bitcoinz: a sortition tip needs a leader        *)
(* commit, and the header hash must equal the FIRST commit's               *)
(* block_header_hash.                                                      *)
(***************************************************************************)
HeaderValid(h, S, ops) ==
    LET commits == SelectSeq(ops, IsCommit) IN
    /\ ~(commits = << >> /\ S.sortition)
    /\ commits # << >> => commits[1].hash = h

(***************************************************************************)
(* validate_bitcoinz_operations: every operation passes check() and is on  *)
(* the active network (validate_bitcoinz_burn for a burn is MIN, network   *)
(* and check() again).                                                     *)
(***************************************************************************)
OperationsValid(ops) ==
    \A i \in 1..Len(ops) : CheckOp(ops[i]) /\ ops[i].net = ActiveNet

(***************************************************************************)
(* validate_burn_consistency: no dust total, the header's total work burn *)
(* equals the tip's cumulative burn, and at most one leader commit in the *)
(* L1 block.                                                               *)
(***************************************************************************)
BurnConsistent(w, S, ops) ==
    LET total == BurnTotal(ops) IN
    /\ ~(total > 0 /\ total < MinBurn)
    /\ w = S.total_burn
    /\ Len(SelectSeq(ops, IsCommit)) <= 1

(* validate_stacks_block_against_bitcoinz *)
ValidateStacksBlock(h, w, S, ops) ==
    HeaderValid(h, S, ops) /\ OperationsValid(ops) /\ BurnConsistent(w, S, ops)

AnchorInit == SortitionInit /\ verdicts = {}

(* A new L1 block becomes the tip; L2 blocks are now judged against it.   *)
NextBurnBlock ==
    /\ SortitionNext
    /\ verdicts' = {}

(* An L2 block naming header hash h and claiming total work w arrives.    *)
SubmitStacksBlock(h, w) ==
    /\ verdicts' = verdicts \cup
           {[hash |-> h, work |-> w, ok |-> ValidateStacksBlock(h, w, Tip, tipBlock)]}
    /\ UNCHANGED sortVars

(* The total work an L2 block header may claim: the tip's or one burn off. *)
WorkClaims == {Tip.total_burn, Tip.total_burn + MinBurn}

AnchorNext ==
    \/ NextBurnBlock
    \/ \E h \in Hashes, w \in WorkClaims : SubmitStacksBlock(h, w)

AnchorSpec == AnchorInit /\ [][AnchorNext]_vars

-----------------------------------------------------------------------------
AnchorTypeOK ==
    /\ SortitionTypeOK
    /\ verdicts \subseteq [hash : Hashes, work : Nat, ok : BOOLEAN]

(* Spec 4.10: the validator and the sortition engine agree.  An L2 block  *)
(* accepted against a tip claims the tip's cumulative burn as its total    *)
(* work, and on a sortition tip it is the block of the sortition's winner, *)
(* a commit of the active network that is the only leader commit of its   *)
(* L1 block.                                                               *)
AcceptedAnchored ==
    \A v \in verdicts :
        v.ok =>
            /\ v.work = Tip.total_burn
            /\ Tip.sortition =>
                   /\ v.hash = Tip.winner.hash
                   /\ Tip.winner.net = ActiveNet
                   /\ Len(SelectSeq(tipBlock, IsCommit)) = 1

(* Spec 4.10: the winner's own L2 block, claiming the tip's total burn,    *)
(* is accepted: only a second commit naming the SAME hash is ambiguous.    *)
WinnerBlockAccepted ==
    \A v \in verdicts :
        (Tip.sortition /\ v.hash = Tip.winner.hash /\ v.work = Tip.total_burn) => v.ok
=============================================================================
