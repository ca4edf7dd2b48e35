------------------------------ MODULE Sortition ------------------------------
(***************************************************************************)
(* The BitcoinZ sortition engine (bitcoinz_consensus.rs) and the checks of *)
(* the L1 operations it consumes (bitcoinz_burn.rs, burn.rs).  For each L1 *)
(* block, validate_bitcoinz_burnchain_block extracts the operations that   *)
(* pass check() and the network test, drops that list, and hands the block *)
(* to process_bitcoinz_block, which keeps the operations passing check(), *)
(* builds the state transition (total burns and the burn distribution of   *)
(* the leader commits) and the new snapshot on top of the parent.          *)
(*                                                                         *)
(* The operations of a block are an input: the transaction parser is a     *)
(* stub (BitcoinZBurnOperation::parse_from_tx returns None), so the model  *)
(* takes the operation list a parser produces, in vtxindex order.  The     *)
(* u128 range space [0, u128::MAX] is scaled down to [0, MaxU].            *)
(***************************************************************************)
EXTENDS Naturals, Sequences, FiniteSets

CONSTANTS
    Miners,      \* L1 senders of leader commits
    Hashes,      \* L2 block header hashes a commit can name
    Networks,    \* BitcoinZ networks (mainnet, testnet, ...)
    ActiveNet,   \* the network this node runs on
    MinBurn,     \* MIN_BITCOINZ_BURN_AMOUNT
    MaxBurn,     \* MAX_BITCOINZ_BURN_AMOUNT
    MaxU,        \* u128::MAX, scaled
    BlockOps,    \* the operation lists an L1 block may carry
    Draws,       \* the 128-bit sortition draws r a block may produce
    MaxBlocks,   \* model bound on the number of L1 blocks processed
    NoWinner     \* model value: no winning commit

Kinds == {"commit", "burn", "stack"}

(* BitcoinZBurnOperation: a leader commit (amount = burn_fee), a burn      *)
(* (amount = burn_amount) or a stack-stx (amount = stacked_ustx).          *)
Op == [kind : Kinds, miner : Miners, amount : Nat, cycles : Nat,
       hash : Hashes, net : Networks]

ASSUME SortitionAssumption ==
    /\ ActiveNet \in Networks
    /\ MinBurn \in Nat \ {0}
    /\ MaxBurn \in Nat /\ MinBurn <= MaxBurn
    /\ MaxU \in Nat \ {0}
    /\ BlockOps \subseteq Seq(Op)
    /\ Draws \subseteq 0..MaxU
    /\ MaxBlocks \in Nat
    /\ NoWinner \notin Op

Snapshot == [height : Nat, total_burn : Nat, num_sortitions : Nat,
             sortition : BOOLEAN, winner : Op \cup {NoWinner}]

VARIABLES
    chain,    \* the snapshots, genesis first; the last is the burn-chain tip
    tipBlock, \* the operations of the tip's L1 block, as parsed
    dist,     \* the burn distribution of the tip's L1 block
    draw      \* the sortition draw of the tip's L1 block

sortVars == <<chain, tipBlock, dist, draw>>

Tip == chain[Len(chain)]

SatAdd(a, b) == IF a + b > MaxU THEN MaxU ELSE a + b

(* The sum of a sequence of naturals. *)
SeqSum(s) ==
    LET f[i \in 0..Len(s)] == IF i = 0 THEN 0 ELSE f[i - 1] + s[i]
    IN  f[Len(s)]

IsCommit(op) == op.kind = "commit"

(* BitcoinZLeaderBlockCommitOp::check: the burn fee is at least MIN; the  *)
(* commit outputs are accepted whatever their kind.                        *)
CheckLeaderBlockCommit(op) == op.amount >= MinBurn

(* BitcoinZStackStxOp::check: a non-zero amount for 1 to 12 cycles. *)
CheckStackStx(op) == op.amount # 0 /\ op.cycles \in 1..12

(* BitcoinZBurnOp::check: the burn lies in [MIN, MAX]. *)
CheckBurn(op) == op.amount >= MinBurn /\ op.amount <= MaxBurn

(* BitcoinZBurnOperation::check dispatches on the kind of operation. *)
CheckOp(op) ==
    CASE op.kind = "commit" -> CheckLeaderBlockCommit(op)
      [] op.kind = "burn"   -> CheckBurn(op)
      [] op.kind = "stack"  -> CheckStackStx(op)

(* BitcoinZBurnOperation::burn_amount *)
BurnAmount(op) == IF op.kind = "stack" THEN 0 ELSE op.amount

BurnTotal(ops) == SeqSum([i \in 1..Len(ops) |-> BurnAmount(ops[i])])

(* Mutant: a distribution that leaves the rounding gap open. *)
MakeDistributionOpen(cs) ==
    LET n     == Len(cs)
        total == SeqSum([i \in 1..n |-> cs[i].amount])
        q     == MaxU \div total
        prop(i) == IF cs[i].amount * q > MaxU THEN MaxU ELSE cs[i].amount * q
        end[i \in 0..n] == IF i = 0 THEN 0 ELSE SatAdd(end[i - 1], prop(i))
    IN  IF n = 0 \/ total = 0 THEN << >>
        ELSE [i \in 1..n |-> [op |-> cs[i], start |-> end[i - 1], end |-> end[i]]]

(***************************************************************************)
(* BitcoinZBurnSamplePoint::make_bitcoinz_distribution: each commit in     *)
(* order gets [running, running + burn * (MAX / total)) with saturating    *)
(* arithmetic; the last range is closed at MAX.                            *)
(***************************************************************************)
MakeBitcoinzDistribution(cs) ==
    LET n     == Len(cs)
        total == SeqSum([i \in 1..n |-> cs[i].amount])
        q     == MaxU \div total
        prop(i) == IF cs[i].amount * q > MaxU THEN MaxU ELSE cs[i].amount * q
        end[i \in 0..n] == IF i = 0 THEN 0 ELSE SatAdd(end[i - 1], prop(i))
    IN  IF n = 0 \/ total = 0 THEN << >>
        ELSE [i \in 1..n |-> [op |-> cs[i], start |-> end[i - 1],
                              end |-> IF i = n THEN MaxU ELSE end[i]]]

(* BitcoinZStateTransition::from_bitcoinz_ops *)
FromBitcoinzOps(ops) ==
    [total_burns |-> BurnTotal(ops),
     burn_dist   |-> MakeBitcoinzDistribution(SelectSeq(ops, IsCommit))]

(***************************************************************************)
(* BitcoinZConsensus::make_bitcoinz_snapshot: cumulative burn and          *)
(* sortition count, and the winner: always the first sample point.         *)
(***************************************************************************)
MakeBitcoinzSnapshot(parent, tr, h) ==
    LET sortition == tr.burn_dist # << >> IN
    [height |-> h, total_burn |-> parent.total_burn + tr.total_burns,
     num_sortitions |-> parent.num_sortitions + (IF sortition THEN 1 ELSE 0),
     sortition |-> sortition,
     winner |-> IF sortition THEN tr.burn_dist[1].op ELSE NoWinner]

Genesis == [height |-> 0, total_burn |-> 0, num_sortitions |-> 0,
            sortition |-> FALSE, winner |-> NoWinner]

SortitionInit ==
    /\ chain = << Genesis >>
    /\ tipBlock = << >>
    /\ dist = << >>
    /\ draw = 0

(* BitcoinZConsensus::process_bitcoinz_block: keep the operations passing *)
(* check(), build the transition and the snapshot on top of the parent.    *)
ProcessBitcoinzBlock(parent, ops, h) ==
    LET tr == FromBitcoinzOps(SelectSeq(ops, CheckOp)) IN
    [snapshot |-> MakeBitcoinzSnapshot(parent, tr, h), transition |-> tr]

(***************************************************************************)
(* BitcoinZBlockValidator::validate_bitcoinz_burnchain_block for the next  *)
(* L1 block: extract_and_validate_bitcoinz_ops cannot fail and its result  *)
(* is dropped, so the step is process_bitcoinz_block on the block's        *)
(* transactions.  The draw r is the block's sortition hash, which the code *)
(* leaves zero.                                                            *)
(***************************************************************************)
ValidateBitcoinzBurnchainBlock(ops, r) ==
    LET res == ProcessBitcoinzBlock(Tip, ops, Len(chain)) IN
    /\ Len(chain) <= MaxBlocks
    /\ chain' = Append(chain, res.snapshot)
    /\ tipBlock' = ops
    /\ dist' = res.transition.burn_dist
    /\ draw' = r

SortitionNext == \E ops \in BlockOps, r \in Draws : ValidateBitcoinzBurnchainBlock(ops, r)

SortitionSpec == SortitionInit /\ [][SortitionNext]_sortVars

-----------------------------------------------------------------------------
(* Every snapshot is well formed and the distribution's ranges lie in the *)
(* scaled u128 space.                                                      *)
SortitionTypeOK ==
    /\ chain \in Seq(Snapshot) /\ Len(chain) >= 1
    /\ tipBlock \in Seq(Op)
    /\ dist \in Seq([op : Op, start : 0..MaxU, end : 0..MaxU])
    /\ draw \in 0..MaxU

(* P4 of the spec: the ranges of a non-empty distribution start at 0,     *)
(* follow each other without gap or overlap and end at u128::MAX, whatever *)
(* the burns of the commits and however the divisions round.               *)
RangesPartition ==
    dist # << >> =>
        /\ dist[1].start = 0
        /\ dist[Len(dist)].end = MaxU
        /\ \A i \in 1..Len(dist) : dist[i].start <= dist[i].end
        /\ \A i \in 1..(Len(dist) - 1) : dist[i].end = dist[i + 1].start

(* Spec 4.5: an operation from another network is invalid, so the winner  *)
(* of a sortition is a commit on the active network.                       *)
WinnerOnActiveNetwork ==
    Tip.sortition => Tip.winner.net = ActiveNet

(* Spec 4.6: the winner is the candidate whose range holds the draw r.    *)
WinnerHoldsDraw ==
    Tip.sortition =>
        \E i \in 1..Len(dist) :
            dist[i].op = Tip.winner /\ dist[i].start <= draw /\ draw < dist[i].end

(* Spec P4: every draw in [0, u128::MAX] falls in exactly one range       *)
(* [range_start, range_end).                                               *)
UniqueWinnerForEveryDraw ==
    dist # << >> =>
        \A r \in 0..MaxU :
            Cardinality({i \in 1..Len(dist) : dist[i].start <= r /\ r < dist[i].end}) = 1
=============================================================================
