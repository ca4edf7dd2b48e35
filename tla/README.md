# TLA+ verification of the BTCZS layer-2

This directory holds TLA+ models of the BTCZS layer-2 code under `src/`.
The BTCZS layer-2 is a Stacks-style chain anchored to BitcoinZ by
Proof-of-Transfer. The directory also holds the TLC configurations that check
the models on small instances, and TLAPS proofs that hold for every value of
the constants. `PROJECT.json` lists the components, runs, mutants, source map,
findings, hazards and theorems.

## The system

Following the spec, the components and the data flow between them are:
RPC client (C1) → indexer (C3) → operation parser (C4) → validator (C5) →
sortition engine (C6) → block validator (C10). The sortition engine drives the
reward pipeline into the token ledger (C7) and the stacking ledger (C8). The
fee engine (C9) feeds the distribution step.

In the code:
- The token ledger is `btczs_token.rs`: `BTCZSBalance` with its mutators, and
  `BTCZSAccount`.
- The stacking ledger is `btczs_stacking.rs`: `BTCZSStackingState`,
  `BTCZSRewardCycle` and `BTCZSStackingManager`.
- Sortition is `bitcoinz_consensus.rs`. The operations it consumes are in
  `bitcoinz_burn.rs` and `burn.rs`.
- Block validation is `bitcoinz_validation.rs`. It calls the sortition engine
  for each L1 block and judges L2 blocks against the resulting tip.
- The indexer's header sync is `indexer.rs`. Fees are `btczs_fees.rs`, and
  the balance cache is `btczs_performance.rs`.
- The persistent stores behind `get_balance`/`update_balance` and
  `get_stacking_info`/`update_stacking_state` are stubs in the code (TODO).
  The models use the key-value store of spec §6 in their place: rows
  `balance/{a}` and `stacking/{a}`.

## Modules

| Module | Models | State |
|---|---|---|
| `TokenLedger` | `BTCZSBalance` and `BTCZSAccount` (btczs_token.rs) | `bal[a]`, with ghosts `minted` and `burnt` |
| `Stacking` | `BTCZSStackingManager` and `BTCZSRewardCycle` as used by `process_reward_cycle_completion` (btczs_stacking.rs), composed with `TokenLedger` | the L1 `height`, the stored state `stk[a]`, the per-cycle burn `burned[n]`, and the ghosts `stackedAt`, `promised`, `timesPaid`, `lastDist` |
| `Sortition` | `check()` of every operation kind, `validate_bitcoinz_burnchain_block`, `process_bitcoinz_block`, `make_bitcoinz_distribution` and `make_bitcoinz_snapshot` | the snapshot `chain`, the tip's L1 block as parsed `tipBlock`, its burn distribution `dist`, and the draw `draw` |
| `AnchorValidation` | `validate_stacks_block_against_bitcoinz` and its three tests, composed with `Sortition` | `verdicts`: the L2 blocks judged against the current tip |
| `Indexer` | `sync_headers` and `get_block_by_height` (indexer.rs), against an L1 node that grows and reorganises, and a caller holding the cancellation flag | the L1 `tip` and block versions `ver`; the sync's `pc`, `startH`, `target`, `cur` and presented blocks `got`; `keepRunning` |
| `FeeEngine` | `BTCZSFeeCalculator` (both quotes, config and congestion updates) and `BTCZSFeeDistribution::from_total_fees` | `config`, the last `quote` and the config it was made under, the last split `dist` |
| `HeaderSync` | what spec 4.3 promises of a header sync, with no RPC and no L1 chain: the range is presented in order without gaps, Ok comes after the last height, Timeout only after the flag is cleared, and an error may end the sync at any point | `status`, `lo`, `hi`, `presented`, `cancelled` |
| `BalanceCache` | the balance cache of `BTCZSPerformanceOptimizer` | `cache[a]` (height, insert time, ghost last use), the clock `now`, the last eviction, the last answer |
| `*Proofs` | TLAPS proofs | — |
| `MC*` | TLC instances | — |

**TokenLedger.** Each `BTCZSAccount` operation is one action.
- It reads its rows, applies the `BTCZSBalance` mutator to the copies, and
  writes them back in the code's order.
- In `Transfer` the receiver's copy is written last, as at
  btczs_token.rs:315-316. When `from = to` that write replaces the debit.
- The guard of each action is the mutator's `can_transfer` or
  `locked >= amount` check. A failed check is the `Err` early return, which
  changes no state.
- `Mint` is bounded only by the model bound `MintBound`, because
  `mint_tokens` has no supply check.

**Stacking.**
- `LedgerStep` is a user's transfer, mint or burn. `lock_for_stacking` and
  `unlock_from_stacking` of `BTCZSAccount` are reached only inside `StackStx`
  and `UnlockStacking`, because nothing in the source calls them on their
  own.
- `StackStx` is one L1 stack-stx operation. It does
  `validate_stacking_operation`, then `process_stacking_operation` with the
  first cycle set to current + 1 and the unlock height to
  `(first + lock) * CycleLength`. Then it locks the amount and writes the
  state with `update_stacking_state`, overwriting any earlier state, since
  nothing checks for one. Locking in the same step is spec §4.8.
- `UnlockStacking` is `unlock_stacking` followed by the caller's unlock of
  the returned amount. The state is not removed (TODO at line 338).
- `CompleteCycle(n)` is `process_reward_cycle_completion`. It builds a fresh
  `BTCZSRewardCycle`, adds the stackers whose window covers `n` (the
  caller's choice, spec §4.8), adds the cycle's burn and distributes. The
  payout list is kept in `lastDist`.
- `FinalReward` is the arithmetic of `distribute_rewards`: share, duration
  bonus, then the 2% fee.
- The rewards written into the stackers' in-memory copies are dropped, as in
  the code.
- `BurnOp` (the cycle's burn total) and `Tick` (the next L1 block) come from
  the spec's reward pipeline.

**Sortition.** One action, `ValidateBitcoinzBurnchainBlock(ops, r)`, is a
whole call of `validate_bitcoinz_burnchain_block` for the next L1 block.
- `extract_and_validate_bitcoinz_ops` is left out. Its result is dropped and
  it cannot fail, so it changes nothing.
- It runs `process_bitcoinz_block` on the raw operations. That call filters by
  `check()` only, then builds the transition and the snapshot.
- The draw `r` is an input. The code leaves `sortition_hash` zero, and it
  never consults the draw.
- The u128 range space is scaled to `[0, MaxU]`. Proportional ranges use the
  code's `MAX / total` quotient and its saturating adds.
- The operation list of a block is an input, because the transaction parser
  is a stub that returns `None`.

**AnchorValidation.** `SubmitStacksBlock(h, w)` runs the header test, the
per-operation test and the burn-consistency test, in that order, and records
the verdict. It validates against the tip and the tip's L1 block as parsed.
- Nothing in the source calls `validate_stacks_block_against_bitcoinz`, so
  its input is the model's choice. The raw block is the input its own
  `check()` and network tests are written for.
- Given the network-filtered list instead, the validator can accept a block
  other than the sortition winner's. That is the same disagreement that
  `anchor_wrong_network` shows.
- An L2 block is abstracted to its header hash and its claimed total work.

**Indexer.** The sync loop is split where the code can be interleaved.
- `SyncHeaders` reads the tip, or fails.
- `CheckKeepRunning` is the atomic load of the flag.
- `GetBlockByHeight` is the RPC fetch. It may fail with an RPC error at any
  height, and it fails above the node's tip.
- Between these steps the caller may clear the flag (`Stop`). The L1 node may
  extend its chain (`L1Extend`) or switch to another branch (`L1Reorg`).
- A block is abstracted to its height, its version and its parent's version.
- `HS == INSTANCE HeaderSync WITH ...` is the refinement mapping:
  - the loop states `check` and `fetch` map to `running`;
  - `cancelled` maps to `timeout`;
  - `presented` is `DOMAIN got`, and `lo` and `hi` are `startH` and `target`;
  - the flag counts as cleared when `hasFlag /\ ~keepRunning`.
- `ImplementsHeaderSync` is `HS!Spec`, and `indexer_pass` checks it as a
  property.

**FeeEngine.** `QuoteTransaction` is `calculate_transaction_fee`: size,
operation fee, congestion, then the clamp. `QuoteOperation` is
`calculate_bitcoinz_operation_fee`, which has no clamp. `DistributeFees` is
the split of the last quoted total.
- f64 factors are kept in tenths. `ScaledAsU128` is the `as u128` cast of a
  scaled product: it truncates, and it saturates a negative product to 0.
- `UpdateConfig` installs any config. Its multiplier and congestion factor
  may be any value, negative or above 2.0, because `update_config` does not
  check them. The field's doc comment says 0.0 to 1.0, and
  `update_congestion_factor` caps at 2.0.

**BalanceCache.**
- `GetBalanceHit` and `GetBalanceMiss` are the two outcomes of
  `get_balance_cached`.
- A miss inserts the balance and, past the limit, calls `optimize_cache`,
  exactly as `update_balance_cache` does. `optimize_cache` evicts the
  `len - max` entries with the oldest insertion time. Ties are left to the
  HashMap order, which the model treats as a nondeterministic choice.
- `CleanupCache` drops every expired entry.
- The clock ticks in whole seconds.

## Runs

| Run | Checks | Result |
|---|---|---|
| `ledger_pass` (MCTokenLedger.cfg) | `LedgerTypeOK`, `BalanceSplit`, `NoTokensLost` | pass, 113,627 distinct states |
| `ledger_self_transfer` | `NoTokensCreated` | **violated**: mint 1 to a1, then transfer a1 → a1 leaves a1 with 2 |
| `stacking_pass` (MCStacking.cfg) | `LockedCoversStack`, `StackedBeforePrepare`, `PoolMatchesBurn`, `PayoutBounded` | pass, about 1.4 M distinct states in about 1 min |
| `stacking_restack_release` | `NoEarlyRelease` | **violated**: stack for 7 cycles, restack for 1, unlock twice at height 6; the 7-cycle lock is released 18 blocks early |
| `stacking_cycle_twice` | `CyclePaidOnce` | **violated**: cycle 0 is completed twice (spec P7) |
| `anchor_pass` (MCAnchorValidation.cfg) | `RangesPartition`, `AcceptedAnchored` | pass, 26,848 distinct states |
| `anchor_wrong_network` | `WinnerOnActiveNetwork` | **violated**: a testnet commit wins the sortition, because the network-checked operations are dropped before `process_bitcoinz_block` |
| `anchor_draw` | `WinnerHoldsDraw` | **violated**: two commits and a draw in the second range; the first commit still wins |
| `indexer_pass` (MCIndexer.cfg) | `IndexerTypeOK`, `DoneCoversRange`, `CancelWithinOneBlock`, `ImplementsHeaderSync` | pass, 2,258 distinct states |
| `indexer_reorg` | `PresentedContiguous` | **violated**: the L1 node reorganises between two fetches, and the sync presents a block whose parent is not the block below it |
| `fee_pass` (MCFeeEngine.cfg) | `FeeTypeOK`, `TxFeeClamped`, `FeeSplitBounded` | pass, 91,520 distinct states |
| `cache_pass` (MCBalanceCache.cfg) | `CacheTypeOK`, `CacheWithinLimit`, `CacheDropsOnlyExpiredOrFull` | pass, 117,800 distinct states |

**Further disagreements, not in the run list.** Each has its property in its
module and a configuration that reproduces it:
`tlc -config <cfg> <MC module>`. They are kept out of the run list, which
holds the disagreements with the most impact.
- `MCAnchorContested.cfg`, `WinnerBlockAccepted`: the winner's own block is
  rejected whenever its L1 block carries a second leader commit
  (bitcoinz_validation.rs:233). Spec 4.10 rejects only two commits naming
  the same hash.
- `MCAnchorLastDraw.cfg`, `UniqueWinnerForEveryDraw`: the ranges are
  half-open, so the draw `u128::MAX` falls in no range
  (bitcoinz_consensus.rs:98). Spec P4 covers every draw.
- `MCFeeQuoteClamped.cfg`, `QuoteClamped`: operation quotes are never clamped
  to `max_fee` (btczs_fees.rs:197).
- `MCFeeConserved.cfg`, `FeeConserved`: `from_total_fees` drops up to three
  units of rounding remainder (btczs_fees.rs:112). Spec 4.12 sends the
  remainder to the treasury.
- `MCBalanceCacheLRU.cfg`, `EvictsLeastRecentlyUsed`: the comment at
  btczs_performance.rs:285 promises LRU eviction. The code evicts by insertion
  time, and a hit does not refresh that time.
- `MCBalanceCacheHeight.cfg`, `ServedAtAskedHeight`: the cache is keyed by
  address only, so a query at height 101 can be answered with the balance
  cached at height 100 (btczs_performance.rs:151).

**Bounds.**
- The ledger run uses three addresses, under symmetry.
- The stacking run uses two addresses, cycles of 3 blocks with a 1-block
  prepare phase, and heights 0..6. That gives two full cycles and an unlock
  height of 6 for a 1-cycle lock.
- Both runs use small amounts. A state constraint bounds each holding, the
  amount burned, and the number of stack-stx operations. The bound is needed
  because self-transfers inflate balances without limit.
- Lock periods are {1, 7, 13}. These reach the 100% and 125% duration bonuses,
  plus one lock period that the validator must refuse (13 > 12).
- The anchor run has two miners and two hashes, with `MinBurn = 2`,
  `MaxBurn = 3` and `MaxU = 31`.
  - There are six operations: two valid commits on the active network, a
    commit on the other network, a dust commit, a burn and a stack-stx.
  - A block carries at most two of them, and two L1 blocks are processed.
  - Every operation kind, each `check()` failure and a two-way distribution
    whose division rounds (31 / 6) are all reached.
- The indexer run reaches L1 heights up to 3 with one reorganisation. Syncs
  start at 1 or 2 and end at 2, at 4 (above the tip) or at the tip.
- The fee run has four configs: the default, one with a `max_fee` the
  quotes exceed, one with congestion 3.0, and one with a multiplier and a
  congestion of -1.0. The last two are configs only `update_config` can
  install. The run updates congestion to -1.0, 0.5 and 3.0, and uses seven transactions that cover
  every payload kind, and burns of 1000 and 20000.
- The cache run has three addresses (under symmetry), a limit of 2, a TTL of
  3 s over 5 s and two heights. That makes eviction, expiry and cleanup all
  happen.

Every pass property has a mutant in `PROJECT.json` that TLC must find
violated. The mutants include a dropped check, a `>` for `>=`, a burn priced
before the stackers are added, and a validator without its upper bound. Also:
a distribution whose last range is left open, a header test without the
hash check, a fee cast that keeps the sign of a negative product, a loop that ignores the
flag or stops one height short, a clamp without its upper limit, a split
that rounds up, and an eviction one entry short.

**Deadlock.** Deadlock is not checked. Every model stops once its bounds are
reached (height, mints, L1 blocks, clock). A sync that has returned stays
terminated, since the model performs one sync per behaviour.

**Fairness.** No run assumes fairness, and no liveness is claimed.
- Every step of the ledgers, the validator, the fee engine and the cache is
  an external call.
- The one loop, in `sync_headers`, is a bounded `for height in
  start..=target`. Under any fairness it ends by construction, so a
  termination property would check nothing about the code.

## Proofs (TLAPS)

- `TokenLedgerProofs`:
  - `LedgerTypeCorrect`: `LedgerSpec => []LedgerTypeOK`.
  - `LedgerBalanceSplit`: `LedgerSpec => []BalanceSplit` (spec P1).
  - The inductive invariant is `LedgerTypeOK /\ BalanceSplit`. The type
    invariant alone is not inductive, because `Debit` stays non-negative only
    through its `can_transfer` guard. The lemma `MutatorsKeepSplit` states
    what each `BTCZSBalance` mutator returns.
- `StackingProofs`:
  - `StackingTypeCorrect`: `StackingSpec => []StackingTypeOK`.
  - `StackingLockedCovers`: `StackingSpec => []LockedCoversStack`.
  - The inductive invariant `StackInv` is the ledger invariant, the stacking
    types and `LockedCoversStack`.
  - The argument: ledger operations never change `locked`
    (`LedgerStepKeepsLocked`). A stack-stx adds exactly the new state's
    amount to `locked`. An unlock is enabled only at or after the unlock
    height. Ticks only move the height forward.
  - `StackingPrepareOrder`: `StackingSpec => []StackedBeforePrepare`.
    - Its invariant `PrepInv` adds the type of the `stackedAt` ghost.
    - The arithmetic lemma `OutsidePrepareGap` states that a height outside
      the prepare phase lies more than `PrepareLength` blocks before the start
      of the next cycle. It is proved with the hypotheses `CycleLength > 0`
      and `PrepareLength \in 0..CycleLength`.
  - `StackingBalanceSplit`: `StackingSpec => []BalanceSplit`. `StackInv`
    contains the ledger invariant, so the stacking steps preserve spec P1
    too.
  - These hold for every cycle length, prepare length and set of amounts,
    under `LedgerAssumption` and `StackingAssumption`.
- `FeeEngineProofs`:
  - `FeeTxClamped`: `FeeSpec => []TxFeeClamped` (P9).
  - `FeeSplitBoundedHolds`: `FeeSpec => []FeeSplitBounded`.
  - Both hold under the hypothesis `ConfigsOrdered` (every installed config
    has `min_fee <= max_fee`). The code does not check this ordering, so the
    theorem states it as a hypothesis, not as an assumption on the constants.
  - The inductive invariant `FeeInv` adds the ordering of the current config
    to the two properties and the types. A quote is clamped only because its
    config was ordered when it was made.
  - `FeeTypeCorrect`: `FeeSpec => []FeeTypeOK`, with no hypothesis on the
    configs.
    - It covers any min/max order and any multiplier or congestion factor,
      negative ones included, as `update_config` allows.
    - `ScaledNat`: the saturating cast of a scaled natural is a natural
      whatever the factor's sign.
    - The clamp returns a natural whichever bound it picks (`TxQuoteType`).
    - So `FeeTypeOK` is inductive as it stands.
  - The lemmas are `ClampInRange`, `SplitBounds` (the div arithmetic),
    `ScaledNat`, `TxQuoteClamped`, `OpQuoteType` and `CapFactorRange`.
- `IndexerProofs`:
  - `SyncDoneCoversRange`: `IndexerSpec => []DoneCoversRange`.
  - `SyncCancelWithinOneBlock`: `IndexerSpec => []CancelWithinOneBlock`.
  - The inductive invariant `IdxInv` says that, while the loop runs, the
    heights presented are exactly `[start, cur)` and `start <= cur <= target`.
    It also says that a fetch counted after the flag was cleared leaves the
    loop at the flag load.
  - These hold for every L1 bound, reorg count and range, whatever the L1
    node does in between.
  - `IndexerTypeCorrect`: `IndexerSpec => []IndexerTypeOK`.
    - `IndexerTypeOK` alone is not inductive.
    - Its strengthening `IdxTypeInv` adds that no branch version exceeds the
      number of reorgs so far. Without it, a reorg could push a version past
      `MaxReorgs`, and a fetched block would leave `Block` (`BlockAtType`).
  - `SyncRefinesHeaderSync`: `IndexerSpec => ImplementsHeaderSync`, that is,
    `HS!Spec` under the refinement mapping of `Indexer`.
    - `RefineInit` shows that the initial states map to `HS!Init`.
    - `RefineStep` shows that, under `IdxInv`, every step maps to a
      `HeaderSync` step or a stutter:
      - a successful or failed `SyncHeaders` maps to `Start` or
        `StartFailed`;
      - the flag load maps to `TimeOut` when the flag is cleared, and to a
        stutter otherwise;
      - a fetch maps to `Present` of height `cur`, or to `Fail`;
      - `Stop` maps to `Clear`;
      - the L1 steps are stutters.
    - `Present` needs `IdxInv`: the presented heights are `[start, cur)` and
      `cur <= target`.
    - `HeaderSync` has no fairness, so the refinement is a safety result.
- `BalanceCacheProofs`:
  - `CacheLimitHolds`: `CacheSpec => []CacheWithinLimit`.
  - The inductive invariant is that the cached addresses are a finite set no
    larger than the limit.
  - `MissKeepsLimit` counts what `optimize_cache` leaves after an insert, using
    `FS_AddElement` and `FS_Difference` from FiniteSetTheorems.
  - `CacheTypeCorrect`: `CacheSpec => []CacheTypeOK`. This invariant is
    inductive as it stands. `ServedSingleton` bounds the answer set.
  - `CacheDropsJustified`: `CacheSpec => CacheDropsOnlyExpiredOrFull`, an
    action property.
    - It is proved from `CacheInv`. `EvictOnlyWhenFull` counts, with
      `FS_AddElement`: an insert adds at most one address, so a miss that
      evicts found the cache already at the limit.
    - `cleanup_cache` drops only expired entries.

- `AnchorProofs`:
  - `AnchorClaimsTipWork`: `AnchorSpec => []AcceptedClaimsTipWork`. This is
    the first conjunct of `AcceptedAnchored`: an accepted L2 block claims the
    cumulative burn of the current tip.
  - The invariant is inductive as it stands. `validate_burn_consistency`
    compares the claim with the tip the block is validated against, and a new
    L1 block clears the verdicts.

These are checked by TLC only:
- `NoTokensLost`, `PoolMatchesBurn`, `PayoutBounded`, `RangesPartition`, and
  the winner half of `AcceptedAnchored`: the accepted block is the winner's,
  on the active network, and its L1 block holds exactly one commit.
  - These are about recursive functions: the sums `SumTotals`, `SumStacked`
    and `SeqSum`, the cumulative range ends, and `SelectSeq`.
  - Using what such a function computes means unfolding its definition once.
    That first needs the recursion theorem, which is stated with an operator
    parameter that the installed provers cannot instantiate. The same holds
    for the library's `SelectSeq` lemmas.
  - For `PoolMatchesBurn`, for example, the missing step is that a non-empty
    set of stackers has a positive `SumStacked`.
  - So no proof about the sortition chain's sums is attempted.

## Not modelled, and why

- **Reward cycle object**: `add_stacker` and `add_bitcoinz_burn` after
  `distribute_rewards` mutate a sealed cycle (spec P7). Only the use inside
  `process_reward_cycle_completion` is modelled. `calculate_cycle_rewards` is
  not modelled.
- **Transaction parsing**: `parse_from_tx` and `parse_bitcoinz_transaction`
  are stubs, so a block's operations are the models' input.
- **Stacking cache**: `get_stacking_state_cached` never inserts, because its
  fetch returns `None`. The metrics recorders are f64 running averages with
  no control flow.
- **Fee collection and payout**: `collect_transaction_fee` and the transfers
  in `distribute_fees` are TODO stubs. `calculate_dynamic_fee_rate` returns
  advice and changes no state.
- **Persistence**: the indexer stores nothing (TODO at indexer.rs:271), and
  the ledgers' stores are stubs. No crash or restart can lose state the code
  keeps, so no crash-recovery model is given.
- **I/O, encoding and configuration**: the RPC client, the address codec, the
  network tables, the node binary, deployment, audit and documentation are
  I/O, pure encoding or configuration, and are not modelled.
