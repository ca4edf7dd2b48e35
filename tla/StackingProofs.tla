--------------------------- MODULE StackingProofs ---------------------------
(***************************************************************************)
(* Proofs about the stacking ledger for every cycle length, prepare        *)
(* length, set of addresses, amounts and lock periods.                     *)
(***************************************************************************)
EXTENDS Stacking, TokenLedgerProofs

(* The inductive invariant: the ledger invariant, the stacking types and  *)
(* the lock coverage of every stored stacking state.                      *)
StackInv == LedgerInv /\ StackingTypeOK /\ LockedCoversStack

(* The user's token operations leave every locked balance as it was.     *)
LEMMA LedgerStepKeepsLocked ==
    ASSUME LedgerInv, NEW a \in Addr, NEW b \in Addr, NEW x \in Amounts,
           Transfer(a, b, x) \/ Mint(a, x) \/ BurnTokens(a, x)
    PROVE  \A c \in Addr : bal'[c].locked = bal[c].locked
<1>0. /\ bal[a] \in Balance /\ bal[a].total = bal[a].available + bal[a].locked
      /\ bal[b] \in Balance /\ bal[b].total = bal[b].available + bal[b].locked
    BY DEF LedgerInv, LedgerTypeOK, BalanceSplit
<1>1. x \in Nat /\ bal \in [Addr -> Balance]
    BY LedgerAssumption DEF LedgerInv, LedgerTypeOK
<1>2. /\ Credit(bal[a], x).locked = bal[a].locked
      /\ Credit(bal[b], x).locked = bal[b].locked
      /\ CanTransfer(bal[a], x) => Debit(bal[a], x).locked = bal[a].locked
    BY <1>0, <1>1, MutatorsKeepSplit
<1>3. CASE Transfer(a, b, x)
    BY <1>1, <1>2, <1>3 DEF Transfer
<1>4. CASE Mint(a, x)
    BY <1>1, <1>2, <1>4 DEF Mint
<1>5. CASE BurnTokens(a, x)
    BY <1>1, <1>2, <1>5 DEF BurnTokens
<1> QED
    BY <1>3, <1>4, <1>5

LEMMA StackInitInv == StackingInit => StackInv
<1> SUFFICES ASSUME StackingInit PROVE StackInv
    OBVIOUS
<1>1. LedgerInv
    BY LedgerInitInv DEF StackingInit
<1>2. StackingTypeOK
    BY <1>1, StackingAssumption DEF StackingInit, StackingTypeOK, LedgerInv, Cycles
<1>3. LockedCoversStack
    BY DEF StackingInit, LockedCoversStack
<1> QED
    BY <1>1, <1>2, <1>3 DEF StackInv

LEMMA StackNextInv == StackInv /\ [StackingNext]_vars => StackInv'
<1> SUFFICES ASSUME StackInv, [StackingNext]_vars PROVE StackInv'
    OBVIOUS
<1>a. LedgerInv /\ StackingTypeOK /\ LockedCoversStack
    BY DEF StackInv
<1>b. height \in 0..MaxHeight
    BY <1>a DEF StackingTypeOK
<1>c. stk \in [Addr -> StackingState \cup {NoStack}]
    BY <1>a DEF StackingTypeOK
<1>d. burned \in [Cycles -> Nat] /\ timesPaid \in [Cycles -> Nat]
    BY <1>a DEF StackingTypeOK
<1>e. \A c \in Addr : bal[c] \in Balance /\ bal[c].total = bal[c].available + bal[c].locked
    BY <1>a DEF LedgerInv, LedgerTypeOK, BalanceSplit
<1>g. bal \in [Addr -> Balance]
    BY <1>a DEF LedgerInv, LedgerTypeOK
<1>f. MaxHeight \in Nat /\ CycleLength \in Nat \ {0} /\ LockPeriods \subseteq 0..255
    BY StackingAssumption
<1>1. CASE LedgerStep
    <2>1. PICK a \in Addr, b \in Addr, x \in Amounts :
              /\ Transfer(a, b, x) \/ Mint(a, x) \/ BurnTokens(a, x)
              /\ UNCHANGED stackVars
        BY <1>1 DEF LedgerStep
    <2>2. LedgerInv'
        BY <1>a, <2>1, LedgerNextInv DEF LedgerNext
    <2>3. \A c \in Addr : bal'[c].locked = bal[c].locked
        BY <1>a, <2>1, LedgerStepKeepsLocked
    <2>4. StackingTypeOK'
        BY <1>b, <1>c, <1>d, <2>1, <2>2 DEF StackingTypeOK, stackVars, LedgerInv
    <2>5. LockedCoversStack'
        BY <1>a, <2>1, <2>3 DEF LockedCoversStack, stackVars
    <2> QED
        BY <2>2, <2>4, <2>5 DEF StackInv
<1>2. ASSUME NEW a \in Addr, NEW x \in Amounts, NEW k \in LockPeriods,
             StackStx(a, x, k)
      PROVE  StackInv'
    <2> DEFINE s == NewStackingState(x, CurrentRewardCycle(height) + 1, k)
    <2>1. Lock(a, x)
        BY <1>2 DEF StackStx, Lock
    <2>2. LedgerInv'
        BY <1>a, <2>1, LedgerNextInv DEF LedgerNext
    <2>3. x \in Nat /\ height \in Nat /\ k \in 0..255
        BY <1>b, <1>f, LedgerAssumption
    <2>4. CurrentRewardCycle(height) \in Nat
        BY <1>f, <2>3 DEF CurrentRewardCycle
    <2>5. s \in StackingState /\ s.stacked = x
        BY <1>f, <2>3, <2>4 DEF NewStackingState, StackingState
    <2>6. bal'[a].locked = bal[a].locked + x
        <3>1. CanTransfer(bal[a], x) /\ bal' = [bal EXCEPT ![a] = LockForStacking(bal[a], x)]
            BY <1>2 DEF StackStx
        <3>2. LockForStacking(bal[a], x).locked = bal[a].locked + x
            BY <1>e, <2>3, <3>1, MutatorsKeepSplit
        <3> QED
            BY <1>g, <3>1, <3>2
    <2>7. stk' = [stk EXCEPT ![a] = s] /\ UNCHANGED <<height, burned, timesPaid>>
        BY <1>2 DEF StackStx
    <2>8. StackingTypeOK'
        BY <1>b, <1>c, <1>d, <2>2, <2>5, <2>7 DEF StackingTypeOK, LedgerInv
    <2>9. \A c \in Addr \ {a} : bal'[c] = bal[c]
        BY <1>2 DEF StackStx
    <2>10. bal[a].locked \in Nat
        BY <1>e DEF Balance
    <2>11. LockedCoversStack'
        BY <1>a, <1>c, <2>3, <2>5, <2>6, <2>7, <2>9, <2>10 DEF LockedCoversStack
    <2> QED
        BY <2>2, <2>8, <2>11 DEF StackInv
<1>3. ASSUME NEW a \in Addr, UnlockStacking(a)
      PROVE  StackInv'
    <2>1. stk[a] \in StackingState
        BY <1>c, <1>3 DEF UnlockStacking
    <2>2. stk[a].stacked \in Nat
        BY <2>1 DEF StackingState
    <2>3. /\ UnlockFromStacking(bal[a], stk[a].stacked) \in Balance
          /\ UnlockFromStacking(bal[a], stk[a].stacked).total =
               UnlockFromStacking(bal[a], stk[a].stacked).available
                 + UnlockFromStacking(bal[a], stk[a].stacked).locked
        BY <1>e, <1>3, <2>2, MutatorsKeepSplit DEF UnlockStacking
    <2>4. bal' = [bal EXCEPT ![a] = UnlockFromStacking(bal[a], stk[a].stacked)]
          /\ UNCHANGED <<minted, burnt, stackVars>>
        BY <1>3 DEF UnlockStacking
    <2>5. LedgerInv'
        BY <1>a, <1>e, <2>3, <2>4 DEF LedgerInv, LedgerTypeOK, BalanceSplit
    <2>6. StackingTypeOK'
        BY <1>b, <1>c, <1>d, <2>4, <2>5 DEF StackingTypeOK, stackVars, LedgerInv
    <2>7. height >= stk[a].unlock
        BY <1>3 DEF UnlockStacking, CanUnlockStacking
    <2>8. \A c \in Addr \ {a} : bal'[c] = bal[c]
        BY <1>g, <2>4
    <2>9. ~(height < stk[a].unlock)
        BY <1>b, <1>f, <2>1, <2>7 DEF StackingState
    <2>10. LockedCoversStack'
        BY <1>a, <2>4, <2>8, <2>9 DEF LockedCoversStack, stackVars
    <2> QED
        BY <2>5, <2>6, <2>10 DEF StackInv
<1>4. ASSUME NEW x \in BurnAmounts, BurnOp(x)
      PROVE  StackInv'
    <2>1. x \in Nat
        BY StackingAssumption
    <2>2. CurrentRewardCycle(height) \in Cycles
        BY <1>b, <1>f DEF CurrentRewardCycle, Cycles
    <2>3. burned' \in [Cycles -> Nat]
        BY <1>d, <1>4, <2>1, <2>2 DEF BurnOp
    <2>4. UNCHANGED <<ledgerVars, height, stk, timesPaid>>
        BY <1>4 DEF BurnOp
    <2> QED
        BY <1>a, <1>b, <1>c, <1>d, <2>3, <2>4 DEF StackInv, LedgerInv, LedgerTypeOK,
           BalanceSplit, StackingTypeOK, LockedCoversStack, ledgerVars
<1>5. ASSUME NEW n \in Cycles, CompleteCycle(n)
      PROVE  StackInv'
    <2>1. timesPaid' \in [Cycles -> Nat]
        BY <1>d, <1>5 DEF CompleteCycle
    <2>2. UNCHANGED <<ledgerVars, height, stk, burned>>
        BY <1>5 DEF CompleteCycle
    <2> QED
        BY <1>a, <1>b, <1>c, <1>d, <2>1, <2>2 DEF StackInv, LedgerInv, LedgerTypeOK,
           BalanceSplit, StackingTypeOK, LockedCoversStack, ledgerVars
<1>6. CASE Tick
    <2>1. height' = height + 1 /\ height' \in 0..MaxHeight
        BY <1>b, <1>f, <1>6 DEF Tick
    <2>2. UNCHANGED <<ledgerVars, stk, burned, timesPaid>>
        BY <1>6 DEF Tick
    <2>3. LockedCoversStack'
        BY <1>a, <1>b, <1>c, <2>1, <2>2 DEF LockedCoversStack, ledgerVars, StackingState
    <2> QED
        BY <1>a, <1>c, <1>d, <2>1, <2>2, <2>3 DEF StackInv, LedgerInv, LedgerTypeOK,
           BalanceSplit, StackingTypeOK, ledgerVars
<1>7. CASE UNCHANGED vars
    BY <1>a, <1>7 DEF vars, stackVars, ledgerVars, StackInv, LedgerInv,
       LedgerTypeOK, BalanceSplit, StackingTypeOK, LockedCoversStack
<1> QED
    BY <1>1, <1>2, <1>3, <1>4, <1>5, <1>6, <1>7 DEF StackingNext

(* Type correctness of the stacking ledger: every stored stacking state   *)
(* is a BTCZSStackingState and no balance field underflows, for every     *)
(* choice of the constants.                                               *)
THEOREM StackingTypeCorrect == StackingSpec => []StackingTypeOK
<1>1. StackInv => StackingTypeOK
    BY DEF StackInv
<1> QED
    BY <1>1, StackInitInv, StackNextInv, PTL DEF StackingSpec

(* While a stored stacking state has not reached its unlock height, its   *)
(* owner's locked balance covers the stacked amount, whatever transfers,  *)
(* mints, burns, restacks and unlocks of any address come between.        *)
THEOREM StackingLockedCovers == StackingSpec => []LockedCoversStack
<1>1. StackInv => LockedCoversStack
    BY DEF StackInv
<1> QED
    BY <1>1, StackInitInv, StackNextInv, PTL DEF StackingSpec
-----------------------------------------------------------------------------
(* A height outside the prepare phase is more than PrepareLength blocks   *)
(* before the start of the next reward cycle.                              *)
LEMMA OutsidePrepareGap ==
    ASSUME NEW h \in Nat, NEW CL \in Nat, CL > 0, NEW PL \in 0..CL,
           h % CL < CL - PL
    PROVE  (h \div CL + 1) * CL - h > PL
BY SMT

(* The invariant of StackedBeforePrepare: it needs the stack heights to be *)
(* naturals, and rests on StackInv for the types of the stored states.     *)
PrepInv ==
    /\ stackedAt \in [Addr -> Nat]
    /\ StackedBeforePrepare

LEMMA PrepInitInv == StackingInit => PrepInv
BY DEF StackingInit, PrepInv, StackedBeforePrepare

LEMMA PrepNextInv == StackInv /\ PrepInv /\ [StackingNext]_vars => PrepInv'
<1> SUFFICES ASSUME StackInv, PrepInv, [StackingNext]_vars PROVE PrepInv'
    OBVIOUS
<1>0. /\ height \in Nat
      /\ stk \in [Addr -> StackingState \cup {NoStack}]
      /\ CycleLength \in Nat /\ CycleLength > 0
      /\ PrepareLength \in 0..CycleLength
    BY StackingAssumption DEF StackInv, StackingTypeOK
<1>1. ASSUME NEW a \in Addr, NEW x \in Amounts, NEW k \in LockPeriods,
             StackStx(a, x, k)
      PROVE  PrepInv'
    <2>1. height % CycleLength < CycleLength - PrepareLength
        BY <1>0, <1>1 DEF StackStx, ValidateStacking, IsPreparePhase
    <2>2. (height \div CycleLength + 1) * CycleLength - height > PrepareLength
        BY <1>0, <2>1, OutsidePrepareGap
    <2>3. /\ stk' = [stk EXCEPT ![a] = NewStackingState(x, CurrentRewardCycle(height) + 1, k)]
          /\ stackedAt' = [stackedAt EXCEPT ![a] = height]
        BY <1>1 DEF StackStx
    <2>4. stk'[a].first = height \div CycleLength + 1 /\ stackedAt'[a] = height
        BY <1>0, <2>3 DEF NewStackingState, CurrentRewardCycle, PrepInv
    <2>5. \A c \in Addr \ {a} : stk'[c] = stk[c] /\ stackedAt'[c] = stackedAt[c]
        BY <1>0, <2>3 DEF PrepInv
    <2> QED
        BY <1>0, <2>2, <2>3, <2>4, <2>5 DEF PrepInv, StackedBeforePrepare
<1>2. ASSUME UNCHANGED <<stk, stackedAt>> PROVE PrepInv'
    BY <1>2 DEF PrepInv, StackedBeforePrepare
<1>3. CASE LedgerStep
    BY <1>2, <1>3 DEF LedgerStep, stackVars
<1>4. ASSUME NEW a \in Addr, UnlockStacking(a) PROVE PrepInv'
    BY <1>2, <1>4 DEF UnlockStacking, stackVars
<1>5. ASSUME NEW x \in BurnAmounts, BurnOp(x) PROVE PrepInv'
    BY <1>2, <1>5 DEF BurnOp
<1>6. ASSUME NEW n \in Cycles, CompleteCycle(n) PROVE PrepInv'
    BY <1>2, <1>6 DEF CompleteCycle
<1>7. CASE Tick
    BY <1>2, <1>7 DEF Tick
<1>8. CASE UNCHANGED vars
    BY <1>2, <1>8 DEF vars, stackVars
<1> QED
    BY <1>1, <1>3, <1>4, <1>5, <1>6, <1>7, <1>8 DEF StackingNext

(* validate_stacking_operation refuses a stack-stx in the prepare phase,  *)
(* so every stored stacking state was written more than PrepareLength      *)
(* blocks before its first reward cycle starts, for every cycle and        *)
(* prepare length, however restacking, unlocks and ledger operations      *)
(* interleave.                                                             *)
THEOREM StackingPrepareOrder == StackingSpec => []StackedBeforePrepare
<1>1. StackInv /\ PrepInv => StackedBeforePrepare
    BY DEF PrepInv
<1>2. StackInv /\ PrepInv /\ [StackingNext]_vars => StackInv' /\ PrepInv'
    BY StackNextInv, PrepNextInv
<1>3. StackingInit => StackInv /\ PrepInv
    BY StackInitInv, PrepInitInv
<1> QED
    BY <1>1, <1>2, <1>3, PTL DEF StackingSpec

-----------------------------------------------------------------------------
(* Spec P1 for the composition: whatever stack-stx, unlock_stacking and  *)
(* the users' token operations do, in any order, every stored total is    *)
(* available plus locked.                                                  *)
THEOREM StackingBalanceSplit == StackingSpec => []BalanceSplit
<1>1. StackInv => BalanceSplit
    BY DEF StackInv, LedgerInv
<1> QED
    BY <1>1, StackInitInv, StackNextInv, PTL DEF StackingSpec

=============================================================================
