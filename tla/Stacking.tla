------------------------------ MODULE Stacking ------------------------------
(***************************************************************************)
(* The BTCZS stacking ledger (btczs_stacking.rs) on top of the token       *)
(* ledger.  A stack-stx operation is validated and turned into a           *)
(* BTCZSStackingState at the current L1 height; its tokens are locked in   *)
(* the same step (spec 4.8); the state is stored under the stacker's       *)
(* address (spec 6, row stacking/{a}).  At the end of a reward cycle the   *)
(* caller passes the cycle's burn total and the stackers whose window      *)
(* covers the cycle to process_reward_cycle_completion, which builds a     *)
(* fresh BTCZSRewardCycle, adds them, adds the burn and distributes.       *)
(* unlock_stacking returns the stacked amount once the unlock height is    *)
(* reached and the caller unlocks that amount in the token ledger.         *)
(***************************************************************************)
EXTENDS TokenLedger

CONSTANTS
    CycleLength,     \* BTCZS_REWARD_CYCLE_LENGTH
    PrepareLength,   \* BTCZS_PREPARE_CYCLE_LENGTH
    MaxCycles,       \* BTCZS_MAX_STACKING_CYCLES
    MinStack,        \* BTCZS_MIN_STACKING_AMOUNT
    Conv,            \* micro-BTCZS of reward per zatoshi burned (1000)
    LockPeriods,     \* lock periods (num_cycles, a u8) a stacker may ask for
    BurnAmounts,     \* burn amounts of the L1 burn operations of a block
    MaxHeight,       \* model bound on the L1 height
    MaxCycleBurn,    \* model bound on the burn total of one cycle
    MaxRepeat,       \* model bound on completions of one cycle
    NoStack          \* model value: no stacking state stored

ASSUME StackingAssumption ==
    /\ CycleLength \in Nat \ {0}
    /\ PrepareLength \in 0..CycleLength
    /\ MaxCycles \in Nat
    /\ MinStack \in Nat \ {0}
    /\ Conv \in Nat
    /\ LockPeriods \subseteq 0..255
    /\ BurnAmounts \subseteq Nat \ {0}
    /\ MaxHeight \in Nat
    /\ MaxCycleBurn \in Nat
    /\ MaxRepeat \in Nat

VARIABLES
    height,      \* current L1 (burn chain) height
    stk,         \* stk[a]: the BTCZSStackingState stored for a, or NoStack
    stackedAt,   \* ghost: height of the stack-stx that wrote stk[a]
    promised,    \* ghost: every accepted lock as [addr, amount, unlock, at]
    burned,      \* burned[n]: total BitcoinZ burned in reward cycle n
    timesPaid,   \* ghost: how many times cycle n has been distributed
    lastDist     \* ghost: the last distribution, or NoStack

stackVars == <<height, stk, stackedAt, promised, burned, timesPaid, lastDist>>
vars == <<ledgerVars, stackVars>>

Cycles == 0..(MaxHeight \div CycleLength)

StackingState ==
    [stacked : Nat, first : Nat, lock : 0..255, unlock : Nat]

(* BTCZSStackingState::current_reward_cycle *)
CurrentRewardCycle(h) == h \div CycleLength

(* Mutant: the prepare phase test with > for >=, one block too late. *)
IsPreparePhaseLate(h) ==
    h % CycleLength > CycleLength - PrepareLength

(* BTCZSStackingState::is_prepare_phase *)
IsPreparePhase(h) ==
    h % CycleLength >= CycleLength - PrepareLength

(* BTCZSStackingState::new: unlock at the start of cycle first + lock. *)
NewStackingState(amount, first, lock) ==
    [stacked |-> amount, first |-> first, lock |-> lock,
     unlock |-> (first + lock) * CycleLength]

(* Mutant: an unlock that forgets to check the unlock height. *)
CanUnlockStackingAlways(s, h) == TRUE

(* BTCZSStackingState::can_unlock *)
CanUnlockStacking(s, h) == h >= s.unlock

(* Mutant: a lock-period check that forgets the upper bound. *)
ValidateStackingNoMax(amount, lock, h) ==
    /\ amount >= MinStack
    /\ lock # 0
    /\ ~IsPreparePhase(h)

(***************************************************************************)
(* BTCZSStackingManager::validate_stacking_operation.  The reward address  *)
(* length check is left out: every reward address of the model is a       *)
(* 20-byte hash.                                                           *)
(***************************************************************************)
ValidateStacking(amount, lock, h) ==
    /\ amount >= MinStack
    /\ lock # 0 /\ lock <= MaxCycles
    /\ ~IsPreparePhase(h)

(* BTCZSRewards::calculate_stacking_reward *)
StackingReward(burn, totalStacked, amount) ==
    IF totalStacked = 0 \/ amount = 0 THEN 0
    ELSE ((burn * Conv) * amount) \div totalStacked

(* BTCZSDistribution::calculate_stacking_participation_bonus *)
ParticipationBonus(lock, reward) ==
    LET multiplier == CASE lock \in 1..2  -> 100
                        [] lock \in 3..6  -> 110
                        [] lock \in 7..12 -> 125
                        [] OTHER          -> 150
    IN  (reward * multiplier) \div 100

(* BTCZSFees::calculate_stacking_fee: 2% *)
StackingFee(reward) == reward \div 50

(* The stacked amounts of a set of stackers' states, summed. *)
SumStacked(S) ==
    LET f[T \in SUBSET S] ==
          IF T = {} THEN 0
          ELSE LET x == CHOOSE y \in T : TRUE IN stk[x].stacked + f[T \ {x}]
    IN  f[S]

(* Mutant: the burn added to the cycle before its stackers, while the      *)
(* cycle's total stacked is still 0.                                       *)
CyclePoolBurnFirst(burn, M) == StackingReward(burn, 0, 0)

(***************************************************************************)
(* The reward pool of process_reward_cycle_completion: add_stacker for     *)
(* every stacker raises total_stacked_ustx, then add_bitcoinz_burn adds    *)
(* calculate_stacking_reward(burn, total, total) to the cycle's rewards.   *)
(***************************************************************************)
CyclePool(burn, M) == StackingReward(burn, SumStacked(M), SumStacked(M))

(* BTCZSRewardCycle::distribute_rewards: one stacker's final reward. *)
FinalReward(pool, stacked, total, lock) ==
    LET share == (pool * stacked) \div total
        bonus == ParticipationBonus(lock, share)
    IN  bonus - StackingFee(bonus)

(* The stackers whose lock window [first, first + lock) covers cycle n:    *)
(* the caller's choice of stackers for a cycle (spec 4.8).                 *)
CycleStackers(n) ==
    {a \in Addr : stk[a] # NoStack
                  /\ stk[a].first <= n /\ n < stk[a].first + stk[a].lock}

StackingInit ==
    /\ LedgerInit
    /\ height = 0
    /\ stk = [a \in Addr |-> NoStack]
    /\ stackedAt = [a \in Addr |-> 0]
    /\ promised = {}
    /\ burned = [n \in Cycles |-> 0]
    /\ timesPaid = [n \in Cycles |-> 0]
    /\ lastDist = NoStack

(***************************************************************************)
(* A stack-stx operation of a at the current height:                       *)
(* process_stacking_operation validates it and builds the state for the    *)
(* next cycle; lock_for_stacking moves the amount to locked, or the        *)
(* operation is dropped; update_stacking_state writes the state, over any  *)
(* state a already had.                                                    *)
(***************************************************************************)
StackStx(a, amount, lock) ==
    LET s == NewStackingState(amount, CurrentRewardCycle(height) + 1, lock)
    IN
    /\ ValidateStacking(amount, lock, height)
    /\ CanTransfer(bal[a], amount)
    /\ bal' = [bal EXCEPT ![a] = LockForStacking(bal[a], amount)]
    /\ stk' = [stk EXCEPT ![a] = s]
    /\ stackedAt' = [stackedAt EXCEPT ![a] = height]
    /\ promised' = promised \cup
         {[addr |-> a, amount |-> amount, unlock |-> s.unlock, at |-> height]}
    /\ UNCHANGED <<minted, burnt, height, burned, timesPaid, lastDist>>

(***************************************************************************)
(* unlock_stacking for a: with a stored state whose unlock height is       *)
(* reached it returns the stacked amount and leaves the state in place;    *)
(* unlock_from_stacking then moves that amount back to available, or       *)
(* fails when less is locked.                                              *)
(***************************************************************************)
UnlockStacking(a) ==
    /\ stk[a] # NoStack
    /\ CanUnlockStacking(stk[a], height)
    /\ CanUnlock(bal[a], stk[a].stacked)
    /\ bal' = [bal EXCEPT ![a] = UnlockFromStacking(bal[a], stk[a].stacked)]
    /\ UNCHANGED <<minted, burnt, stackVars>>

(* A validated burn of the current block adds to its cycle's burn total.  *)
BurnOp(x) ==
    LET n == CurrentRewardCycle(height) IN
    /\ burned[n] + x <= MaxCycleBurn
    /\ burned' = [burned EXCEPT ![n] = @ + x]
    /\ UNCHANGED <<ledgerVars, height, stk, stackedAt, promised, timesPaid,
                   lastDist>>

(***************************************************************************)
(* process_reward_cycle_completion for a finished cycle n: a fresh         *)
(* BTCZSRewardCycle, so rewards_distributed is FALSE whatever was paid     *)
(* before.  The distributions (L1 payout requests) are recorded in         *)
(* lastDist; the rewards it adds to the stackers' copies are dropped.      *)
(***************************************************************************)
CompleteCycle(n) ==
    LET M     == CycleStackers(n)
        total == SumStacked(M)
        pool  == CyclePool(burned[n], M)
    IN
    /\ n < CurrentRewardCycle(height)
    /\ timesPaid[n] < MaxRepeat
    /\ lastDist' = [cycle |-> n, burn |-> burned[n], pool |-> pool,
                    pay |-> [a \in M |-> FinalReward(pool, stk[a].stacked,
                                                     total, stk[a].lock)]]
    /\ timesPaid' = [timesPaid EXCEPT ![n] = @ + 1]
    /\ UNCHANGED <<ledgerVars, height, stk, stackedAt, promised, burned>>

(* The next L1 block. *)
Tick ==
    /\ height < MaxHeight
    /\ height' = height + 1
    /\ UNCHANGED <<ledgerVars, stk, stackedAt, promised, burned, timesPaid,
                   lastDist>>

(* The token operations a user can call between stacking operations.      *)
(* BTCZSAccount::lock_for_stacking and unlock_from_stacking are reached   *)
(* only through StackStx and UnlockStacking: nothing in the source calls   *)
(* them on their own.                                                      *)
LedgerStep ==
    /\ \E a, b \in Addr, x \in Amounts :
          \/ Transfer(a, b, x)
          \/ Mint(a, x)
          \/ BurnTokens(a, x)
    /\ UNCHANGED stackVars

StackingNext ==
    \/ LedgerStep
    \/ \E a \in Addr, x \in Amounts, k \in LockPeriods : StackStx(a, x, k)
    \/ \E a \in Addr : UnlockStacking(a)
    \/ \E x \in BurnAmounts : BurnOp(x)
    \/ \E n \in Cycles : CompleteCycle(n)
    \/ Tick

StackingSpec == StackingInit /\ [][StackingNext]_vars

-----------------------------------------------------------------------------
(* The stacking state: each stored state is a BTCZSStackingState or       *)
(* absent, and each cycle's burn and payout counters are naturals.        *)
StackingTypeOK ==
    /\ LedgerTypeOK
    /\ height \in 0..MaxHeight
    /\ stk \in [Addr -> StackingState \cup {NoStack}]
    /\ burned \in [Cycles -> Nat]
    /\ timesPaid \in [Cycles -> Nat]

(* While a stored stacking state is still before its unlock height, its    *)
(* owner's locked balance covers the stacked amount, across restacking,    *)
(* transfers, burns and unlocks of every address.                          *)
LockedCoversStack ==
    \A a \in Addr :
        stk[a] # NoStack /\ height < stk[a].unlock
            => bal[a].locked >= stk[a].stacked

(* A stack-stx is accepted only outside the prepare phase, so every        *)
(* stacker is known more than PrepareLength blocks before its first cycle  *)
(* starts (the reward set is fixed during the prepare phase).              *)
StackedBeforePrepare ==
    \A a \in Addr :
        stk[a] # NoStack
            => stk[a].first * CycleLength - stackedAt[a] > PrepareLength

(* A cycle's reward pool is Conv times its burn whenever it has stackers:  *)
(* process_reward_cycle_completion adds the stackers before the burn, so   *)
(* no burn is priced against an empty cycle.                               *)
PoolMatchesBurn ==
    lastDist # NoStack /\ DOMAIN lastDist.pay # {}
        => lastDist.pool = Conv * lastDist.burn

(* The payouts of one distribution never exceed 125% of the cycle's pool:  *)
(* the validator's lock-period limit bounds the duration bonus.            *)
PayoutBounded ==
    lastDist # NoStack =>
        LET M == DOMAIN lastDist.pay
            f[T \in SUBSET M] ==
                IF T = {} THEN 0
                ELSE LET x == CHOOSE y \in T : TRUE
                     IN  lastDist.pay[x] + f[T \ {x}]
        IN  f[M] * 100 <= lastDist.pool * 125

(* Tokens of every accepted lock stay locked until that lock's unlock      *)
(* height: the owner's locked balance covers the sum of its locks that     *)
(* have not reached their unlock height.                                   *)
NoEarlyRelease ==
    \A a \in Addr :
        LET live == {p \in promised : p.addr = a /\ height < p.unlock}
            f[T \in SUBSET live] ==
                IF T = {} THEN 0
                ELSE LET x == CHOOSE y \in T : TRUE IN x.amount + f[T \ {x}]
        IN  bal[a].locked >= f[live]

(* P7 of the spec: a reward cycle is distributed at most once.            *)
CyclePaidOnce == \A n \in Cycles : timesPaid[n] <= 1
=============================================================================
