------------------------------ MODULE FeeEngine ------------------------------
(***************************************************************************)
(* The fee engine (btczs_fees.rs): a BTCZSFeeCalculator whose config the   *)
(* node may replace or whose congestion factor it may update, that quotes  *)
(* fees for L2 transactions and for BitcoinZ operations, and the split of  *)
(* collected fees by BTCZSFeeDistribution::from_total_fees.                *)
(*                                                                         *)
(* The f64 factors (operation multiplier, congestion factor) are kept in   *)
(* tenths and may be any integer: update_config installs any f64, although *)
(* the field's doc says 0.0 to 1.0 and update_congestion_factor caps it to *)
(* [0.0, 2.0].  A NaN factor casts like 0.0.  A transfer's amount is given *)
(* in whole STX (the code's amount / 1_000_000).                           *)
(***************************************************************************)
EXTENDS Integers

CONSTANTS
    Configs,   \* BTCZSFeeConfig values update_config may install
    Factors,   \* arguments of update_congestion_factor, in tenths
    Txs,       \* L2 transactions, abstracted to what the quote reads
    OpBurns,   \* burn amounts of BitcoinZ operations
    MinBurn,   \* MIN_BITCOINZ_BURN_AMOUNT
    NoQuote    \* model value: nothing quoted yet

Config == [base_fee_rate : Nat, min_fee : Nat, max_fee : Nat,
           multiplier : Int, congestion : Int]

PayloadKinds == {"transfer", "call", "deploy", "coinbase", "poison", "tenure"}

OpKinds == {"leader_block_commit", "stack_stx", "burn"}

ASSUME FeeAssumption ==
    /\ Configs \subseteq Config /\ Configs # {}
    /\ Factors \subseteq Int
    /\ Txs \subseteq [kind : PayloadKinds, amount : Nat, args : Nat, code : Nat, pcs : Nat]
    /\ OpBurns \subseteq Nat
    /\ MinBurn \in Nat

Quote == [base_fee : Nat, size_fee : Nat, operation_fee : Nat,
          congestion_fee : Nat, total_fee : Nat]

VARIABLES
    config,   \* the calculator's BTCZSFeeConfig
    quote,    \* the last BTCZSFeeCalculation returned
    quoteOf,  \* "tx" or "op": which method returned it
    quoteCfg, \* the config it was computed under
    dist,     \* the last BTCZSFeeDistribution
    distIn    \* the total_fees it was computed from

vars == <<config, quote, quoteOf, quoteCfg, dist, distIn>>

MinOf(a, b) == IF a < b THEN a ELSE b

(* Mutant: the scaled product cast without saturation, as a signed         *)
(* integer would keep it.                                                  *)
ScaledAsU128Signed(x, f) == (x * f) \div 10

(* `(x as f64 * f) as u128` for f in tenths: Rust's float-to-integer cast  *)
(* truncates toward zero and saturates, so a negative product becomes 0.   *)
ScaledAsU128(x, f) == IF x * f < 0 THEN 0 ELSE (x * f) \div 10

(* BTCZSFeeCalculation::new: the total is the sum of the four parts. *)
NewCalculation(b, s, o, c) ==
    [base_fee |-> b, size_fee |-> s, operation_fee |-> o,
     congestion_fee |-> c, total_fee |-> b + s + o + c]

(* estimate_transaction_size: overhead, payload and post-conditions. *)
EstimateTransactionSize(tx) ==
    200 + (CASE tx.kind = "transfer" -> 100
             [] tx.kind = "call"     -> 200 + tx.args * 50
             [] tx.kind = "deploy"   -> 300 + tx.code
             [] tx.kind = "coinbase" -> 150
             [] tx.kind = "poison"   -> 250
             [] tx.kind = "tenure"   -> 180)
        + tx.pcs * 80

(* calculate_operation_fee: by payload, a transfer's scaled and capped. *)
CalculateOperationFee(tx) ==
    CASE tx.kind = "transfer" -> 1000 + MinOf(tx.amount * 10, 10000)
      [] tx.kind = "call"     -> 2000
      [] tx.kind = "deploy"   -> 5000
      [] tx.kind = "coinbase" -> 0
      [] tx.kind = "poison"   -> 1000
      [] tx.kind = "tenure"   -> 500

(* Mutant: a clamp that only raises to the minimum. *)
ClampMinOnly(t, cfg) == IF t < cfg.min_fee THEN cfg.min_fee ELSE t

(* The min/max limits of calculate_transaction_fee. *)
ClampFee(t, cfg) ==
    IF t < cfg.min_fee THEN cfg.min_fee
    ELSE IF t > cfg.max_fee THEN cfg.max_fee ELSE t

(* BTCZSFeeCalculator::calculate_transaction_fee *)
CalculateTransactionFee(cfg, tx) ==
    LET sizeFee == EstimateTransactionSize(tx) * cfg.base_fee_rate
        opFee   == CalculateOperationFee(tx)
        c       == NewCalculation(cfg.min_fee, sizeFee, opFee,
                                  ScaledAsU128(sizeFee + opFee, cfg.congestion))
    IN  [c EXCEPT !.total_fee = ClampFee(c.total_fee, cfg)]

(* BTCZSFees::calculate_bitcoinz_operation_fee: a base by kind, doubled   *)
(* for burns above ten times the minimum.                                  *)
BTCZSFeesOperationFee(k, burn) ==
    (CASE k = "leader_block_commit" -> 1000
       [] k = "stack_stx"           -> 500
       [] k = "burn"                -> 100)
    * (IF burn > MinBurn * 10 THEN 2 ELSE 1)

(* BTCZSFeeCalculator::calculate_bitcoinz_operation_fee: no limits applied *)
CalculateBitcoinzOperationFee(cfg, k, burn) ==
    LET base    == BTCZSFeesOperationFee(k, burn)
        sizeFee == 250 * cfg.base_fee_rate
        opFee   == ScaledAsU128(base, cfg.multiplier)
    IN  NewCalculation(base, sizeFee, opFee, ScaledAsU128(sizeFee + opFee, cfg.congestion))

(* Mutant: a split that rounds each share up. *)
FromTotalFeesRoundUp(t) ==
    [miner_fees |-> (t * 60 + 99) \div 100, stacker_fees |-> (t * 25 + 99) \div 100,
     network_fees |-> (t * 10 + 99) \div 100, burned_fees |-> (t * 5 + 99) \div 100]

(* BTCZSFeeDistribution::from_total_fees: 60/25/10/5, each rounded down.  *)
FromTotalFees(t) ==
    [miner_fees |-> (t * 60) \div 100, stacker_fees |-> (t * 25) \div 100,
     network_fees |-> (t * 10) \div 100, burned_fees |-> (t * 5) \div 100]

(* BTCZSFeeDistribution::total *)
DistTotal(d) == d.miner_fees + d.stacker_fees + d.network_fees + d.burned_fees

FeeInit ==
    /\ config \in Configs
    /\ quote = NoQuote /\ quoteOf = "tx" /\ quoteCfg = config
    /\ dist = FromTotalFees(0) /\ distIn = 0

(* factor.max(0.0).min(2.0) *)
CapFactor(f) == IF f < 0 THEN 0 ELSE MinOf(f, 20)

(* update_congestion_factor *)
UpdateCongestionFactor(f) ==
    /\ config' = [config EXCEPT !.congestion = CapFactor(f)]
    /\ UNCHANGED <<quote, quoteOf, quoteCfg, dist, distIn>>

(* update_config: any config is installed as given, whatever its factors. *)
UpdateConfig(c) ==
    /\ config' = c
    /\ UNCHANGED <<quote, quoteOf, quoteCfg, dist, distIn>>

QuoteTransaction(tx) ==
    /\ quote' = CalculateTransactionFee(config, tx)
    /\ quoteOf' = "tx" /\ quoteCfg' = config
    /\ UNCHANGED <<config, dist, distIn>>

QuoteOperation(k, b) ==
    /\ quote' = CalculateBitcoinzOperationFee(config, k, b)
    /\ quoteOf' = "op" /\ quoteCfg' = config
    /\ UNCHANGED <<config, dist, distIn>>

(* BTCZSFeeManager::distribute_fees of the fee last quoted. *)
DistributeFees ==
    /\ quote # NoQuote
    /\ dist' = FromTotalFees(quote.total_fee)
    /\ distIn' = quote.total_fee
    /\ UNCHANGED <<config, quote, quoteOf, quoteCfg>>

FeeNext ==
    \/ \E f \in Factors : UpdateCongestionFactor(f)
    \/ \E c \in Configs : UpdateConfig(c)
    \/ \E tx \in Txs : QuoteTransaction(tx)
    \/ \E k \in OpKinds, b \in OpBurns : QuoteOperation(k, b)
    \/ DistributeFees

FeeSpec == FeeInit /\ [][FeeNext]_vars

-----------------------------------------------------------------------------
(* Every quote is a BTCZSFeeCalculation of u128 parts and every split one  *)
(* of u128 shares, even under the negative multipliers and congestion      *)
(* factors update_config may install: the saturating casts keep each part  *)
(* unsigned.                                                                *)
FeeTypeOK ==
    /\ config \in Config /\ quoteCfg \in Config
    /\ quote \in Quote \cup {NoQuote} /\ quoteOf \in {"tx", "op"}
    /\ dist \in [miner_fees : Nat, stacker_fees : Nat, network_fees : Nat,
                 burned_fees : Nat]
    /\ distIn \in Nat

(* P9: a transaction's fee lies in [min_fee, max_fee] of the config it    *)
(* was quoted under, whatever the payload, size and congestion.            *)
TxFeeClamped ==
    (quote # NoQuote /\ quoteOf = "tx") =>
        quoteCfg.min_fee <= quote.total_fee /\ quote.total_fee <= quoteCfg.max_fee

(* P10, the part the code keeps: the split never pays out more than it    *)
(* was given, and loses less than one unit per share.                     *)
FeeSplitBounded ==
    DistTotal(dist) <= distIn /\ distIn - DistTotal(dist) <= 3

(* Spec 3 (FeeQuote): every quote's total is the clamp of its parts.       *)
QuoteClamped ==
    quote # NoQuote =>
        quote.total_fee =
            ClampFee(quote.base_fee + quote.size_fee + quote.operation_fee
                     + quote.congestion_fee, quoteCfg)

(* P10 and spec 4.12: the four shares plus the remainder, which goes to   *)
(* the treasury, sum to the fees distributed.                              *)
FeeConserved ==
    DistTotal(dist) = distIn
=============================================================================
