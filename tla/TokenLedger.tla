---------------------------- MODULE TokenLedger ----------------------------
(***************************************************************************)
(* The BTCZS token ledger: the per-address BTCZSBalance record and the     *)
(* BTCZSAccount operations over it (btczs_token.rs).  The balance store    *)
(* behind get_balance/update_balance is the key-value store of the spec    *)
(* (section 6): bal[a] is the row balance/{a}.  Every BTCZSAccount         *)
(* operation reads its rows, changes the copies and writes them back, in   *)
(* the order the code does.                                                *)
(***************************************************************************)
EXTENDS Naturals

CONSTANTS
    Addr,       \* L2 (Stacks) addresses
    Amounts,    \* amounts a caller may pass to an operation
    MintBound   \* model bound on the amount minted (mint_tokens has none)

ASSUME LedgerAssumption ==
    /\ Amounts \subseteq Nat \ {0}
    /\ MintBound \in Nat

VARIABLES
    bal,      \* bal[a]: the BTCZSBalance stored for address a
    minted,   \* ghost: amount minted so far
    burnt     \* ghost: amount burned so far

ledgerVars == <<bal, minted, burnt>>

Balance == [available : Nat, locked : Nat, total : Nat]

(* BTCZSBalance::new and BTCZSBalance::zero *)
NewBalance(available, locked) ==
    [available |-> available, locked |-> locked, total |-> available + locked]

ZeroBalance == NewBalance(0, 0)

(* Mutant: a sufficiency check that accepts every amount. *)
CanTransferUnchecked(b, amount) == TRUE

(* BTCZSBalance::can_transfer *)
CanTransfer(b, amount) == b.available >= amount

(* BTCZSBalance::debit, after its can_transfer check has passed *)
Debit(b, amount) ==
    [available |-> b.available - amount, locked |-> b.locked,
     total |-> (b.available - amount) + b.locked]

(* Mutant: a credit that forgets to recompute the total. *)
CreditNoTotal(b, amount) ==
    [available |-> b.available + amount, locked |-> b.locked, total |-> b.total]

(* BTCZSBalance::credit *)
Credit(b, amount) ==
    [available |-> b.available + amount, locked |-> b.locked,
     total |-> (b.available + amount) + b.locked]

(* BTCZSBalance::lock_for_stacking, after its can_transfer check *)
LockForStacking(b, amount) ==
    [available |-> b.available - amount, locked |-> b.locked + amount,
     total |-> (b.available - amount) + (b.locked + amount)]

(* BTCZSBalance::unlock_from_stacking's guard and effect *)
CanUnlock(b, amount) == b.locked >= amount

UnlockFromStacking(b, amount) ==
    [available |-> b.available + amount, locked |-> b.locked - amount,
     total |-> (b.available + amount) + (b.locked - amount)]

(* The sum of the stored totals over a set of addresses. *)
SumTotals(S) ==
    LET f[T \in SUBSET S] ==
          IF T = {} THEN 0
          ELSE LET x == CHOOSE y \in T : TRUE IN bal[x].total + f[T \ {x}]
    IN  f[S]

LedgerInit ==
    /\ bal = [a \in Addr |-> ZeroBalance]
    /\ minted = 0
    /\ burnt = 0

(* Mutant: a transfer that writes the receiver's row before the sender's. *)
TransferReceiverFirst(from, to, amount) ==
    /\ CanTransfer(bal[from], amount)
    /\ bal' = [[bal EXCEPT ![to] = Credit(bal[to], amount)]
                    EXCEPT ![from] = Debit(bal[from], amount)]
    /\ UNCHANGED <<minted, burnt>>

(***************************************************************************)
(* BTCZSAccount::transfer: read the sender's row, check, read the          *)
(* receiver's row, debit and credit the two copies, write the sender's     *)
(* copy and then the receiver's.  Nothing says from # to: when they are    *)
(* equal the second write replaces the first.                              *)
(***************************************************************************)
Transfer(from, to, amount) ==
    /\ CanTransfer(bal[from], amount)
    /\ bal' = [[bal EXCEPT ![from] = Debit(bal[from], amount)]
                    EXCEPT ![to] = Credit(bal[to], amount)]
    /\ UNCHANGED <<minted, burnt>>

(* BTCZSAccount::lock_for_stacking *)
Lock(a, amount) ==
    /\ CanTransfer(bal[a], amount)
    /\ bal' = [bal EXCEPT ![a] = LockForStacking(bal[a], amount)]
    /\ UNCHANGED <<minted, burnt>>

(* BTCZSAccount::unlock_from_stacking *)
Unlock(a, amount) ==
    /\ CanUnlock(bal[a], amount)
    /\ bal' = [bal EXCEPT ![a] = UnlockFromStacking(bal[a], amount)]
    /\ UNCHANGED <<minted, burnt>>

(* BTCZSAccount::mint_tokens: a credit with no supply check *)
Mint(a, amount) ==
    /\ minted + amount <= MintBound
    /\ bal' = [bal EXCEPT ![a] = Credit(bal[a], amount)]
    /\ minted' = minted + amount
    /\ UNCHANGED burnt

(* BTCZSAccount::burn_tokens *)
BurnTokens(a, amount) ==
    /\ CanTransfer(bal[a], amount)
    /\ bal' = [bal EXCEPT ![a] = Debit(bal[a], amount)]
    /\ burnt' = burnt + amount
    /\ UNCHANGED minted

LedgerNext ==
    \E a, b \in Addr, x \in Amounts :
        \/ Transfer(a, b, x)
        \/ Lock(a, x)
        \/ Unlock(a, x)
        \/ Mint(a, x)
        \/ BurnTokens(a, x)

LedgerSpec == LedgerInit /\ [][LedgerNext]_ledgerVars

-----------------------------------------------------------------------------
(* Every stored balance is a BTCZSBalance of naturals: no debit, burn,     *)
(* lock or unlock ever underflows a u128 field.                            *)
LedgerTypeOK ==
    /\ bal \in [Addr -> Balance]
    /\ minted \in Nat
    /\ burnt \in Nat

(* P1 of the spec: after any sequence of ledger operations, each stored    *)
(* total equals its available plus its locked part, as every BTCZSBalance  *)
(* mutator recomputes it.                                                  *)
BalanceSplit ==
    \A a \in Addr : bal[a].total = bal[a].available + bal[a].locked

(* No token is lost: the tokens held across all addresses are never fewer  *)
(* than the amount minted minus the amount burned, whatever order the      *)
(* transfers, locks and unlocks of several addresses come in.              *)
NoTokensLost == SumTotals(Addr) + burnt >= minted

(* P2/P10 conservation: the ledger never holds more tokens than were       *)
(* minted minus burned (transfer, lock and unlock move tokens only).       *)
NoTokensCreated == SumTotals(Addr) + burnt <= minted
=============================================================================
