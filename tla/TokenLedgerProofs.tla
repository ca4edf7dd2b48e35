------------------------- MODULE TokenLedgerProofs -------------------------
(***************************************************************************)
(* Proofs about the token ledger for every set of addresses and amounts.   *)
(***************************************************************************)
EXTENDS TokenLedger, TLAPS

(* The ledger's inductive invariant: the type invariant together with the *)
(* available/locked/total split of every stored balance.                  *)
LedgerInv == LedgerTypeOK /\ BalanceSplit

(* Each of BTCZSBalance's mutators, applied to a balance whose check has  *)
(* passed, returns a balance of naturals whose total is the sum of its    *)
(* parts.                                                                  *)
LEMMA MutatorsKeepSplit ==
    ASSUME NEW b \in Balance, NEW x \in Nat,
           b.total = b.available + b.locked
    PROVE  /\ Credit(b, x) \in Balance
           /\ Credit(b, x).total = Credit(b, x).available + Credit(b, x).locked
           /\ Credit(b, x).locked = b.locked
           /\ CanTransfer(b, x) =>
                /\ Debit(b, x) \in Balance
                /\ Debit(b, x).total = Debit(b, x).available + Debit(b, x).locked
                /\ Debit(b, x).locked = b.locked
                /\ LockForStacking(b, x) \in Balance
                /\ LockForStacking(b, x).locked = b.locked + x
                /\ LockForStacking(b, x).total =
                     LockForStacking(b, x).available
                       + LockForStacking(b, x).locked
           /\ CanUnlock(b, x) =>
                /\ UnlockFromStacking(b, x) \in Balance
                /\ UnlockFromStacking(b, x).total =
                     UnlockFromStacking(b, x).available
                       + UnlockFromStacking(b, x).locked
<1>1. b.available \in Nat /\ b.locked \in Nat /\ b.total \in Nat
    BY DEF Balance
<1>2. /\ Credit(b, x) \in Balance
      /\ Credit(b, x).total = Credit(b, x).available + Credit(b, x).locked
      /\ Credit(b, x).locked = b.locked
    BY <1>1 DEF Credit, Balance
<1>3. CanTransfer(b, x) =>
        /\ Debit(b, x) \in Balance
        /\ Debit(b, x).total = Debit(b, x).available + Debit(b, x).locked
        /\ Debit(b, x).locked = b.locked
    BY <1>1 DEF Debit, CanTransfer, Balance
<1>4. CanTransfer(b, x) =>
        /\ LockForStacking(b, x) \in Balance
        /\ LockForStacking(b, x).locked = b.locked + x
        /\ LockForStacking(b, x).total =
             LockForStacking(b, x).available + LockForStacking(b, x).locked
    BY <1>1 DEF LockForStacking, CanTransfer, Balance
<1>5. CanUnlock(b, x) =>
        /\ UnlockFromStacking(b, x) \in Balance
        /\ UnlockFromStacking(b, x).total =
             UnlockFromStacking(b, x).available
               + UnlockFromStacking(b, x).locked
    BY <1>1 DEF UnlockFromStacking, CanUnlock, Balance
<1> QED
    BY <1>2, <1>3, <1>4, <1>5

(* The ledger starts with zero balances, which split correctly.          *)
LEMMA LedgerInitInv == LedgerInit => LedgerInv
BY DEF LedgerInit, LedgerInv, LedgerTypeOK, BalanceSplit, ZeroBalance,
       NewBalance, Balance

(* Every BTCZSAccount operation keeps the type and the split.             *)
LEMMA LedgerNextInv == LedgerInv /\ [LedgerNext]_ledgerVars => LedgerInv'
<1> SUFFICES ASSUME LedgerInv, [LedgerNext]_ledgerVars PROVE LedgerInv'
    OBVIOUS
<1> USE LedgerAssumption
<1>0. \A a \in Addr : bal[a] \in Balance /\ bal[a].total = bal[a].available + bal[a].locked
    BY DEF LedgerInv, LedgerTypeOK, BalanceSplit
<1>1. ASSUME NEW a \in Addr, NEW b \in Addr, NEW x \in Amounts,
             Transfer(a, b, x)
      PROVE  LedgerInv'
    <2>1. x \in Nat
        OBVIOUS
    <2>2. /\ Debit(bal[a], x) \in Balance
          /\ Debit(bal[a], x).total = Debit(bal[a], x).available + Debit(bal[a], x).locked
          /\ Credit(bal[b], x) \in Balance
          /\ Credit(bal[b], x).total = Credit(bal[b], x).available + Credit(bal[b], x).locked
        BY <1>0, <1>1, <2>1, MutatorsKeepSplit DEF Transfer
    <2> QED
        BY <1>1, <2>2 DEF Transfer, LedgerInv, LedgerTypeOK, BalanceSplit
<1>2. ASSUME NEW a \in Addr, NEW x \in Amounts, Lock(a, x)
      PROVE  LedgerInv'
    BY <1>0, <1>2, MutatorsKeepSplit DEF Lock, LedgerInv, LedgerTypeOK, BalanceSplit
<1>3. ASSUME NEW a \in Addr, NEW x \in Amounts, Unlock(a, x)
      PROVE  LedgerInv'
    BY <1>0, <1>3, MutatorsKeepSplit DEF Unlock, LedgerInv, LedgerTypeOK, BalanceSplit
<1>4. ASSUME NEW a \in Addr, NEW x \in Amounts, Mint(a, x)
      PROVE  LedgerInv'
    BY <1>0, <1>4, MutatorsKeepSplit DEF Mint, LedgerInv, LedgerTypeOK, BalanceSplit
<1>5. ASSUME NEW a \in Addr, NEW x \in Amounts, BurnTokens(a, x)
      PROVE  LedgerInv'
    BY <1>0, <1>5, MutatorsKeepSplit DEF BurnTokens, LedgerInv, LedgerTypeOK, BalanceSplit
<1>6. CASE UNCHANGED ledgerVars
    BY <1>6 DEF ledgerVars, LedgerInv, LedgerTypeOK, BalanceSplit
<1> QED
    BY <1>1, <1>2, <1>3, <1>4, <1>5, <1>6 DEF LedgerNext

(* Type correctness of the ledger: no BTCZSAccount operation ever drives a *)
(* u128 balance field below zero, for any addresses and amounts.          *)
THEOREM LedgerTypeCorrect == LedgerSpec => []LedgerTypeOK
<1>1. LedgerInv => LedgerTypeOK
    BY DEF LedgerInv
<1> QED
    BY <1>1, LedgerInitInv, LedgerNextInv, PTL DEF LedgerSpec

(* P1 of the spec: under any sequence of transfers, locks, unlocks, mints *)
(* and burns, every stored total is its available plus its locked part.   *)
THEOREM LedgerBalanceSplit == LedgerSpec => []BalanceSplit
<1>1. LedgerInv => BalanceSplit
    BY DEF LedgerInv
<1> QED
    BY <1>1, LedgerInitInv, LedgerNextInv, PTL DEF LedgerSpec
=============================================================================
