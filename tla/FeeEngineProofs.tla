-------------------------- MODULE FeeEngineProofs --------------------------
(***************************************************************************)
(* Proofs about the fee engine for every set of configs, congestion        *)
(* factors, transactions and operation burns.                              *)
(***************************************************************************)
EXTENDS FeeEngine, TLAPS

(* The hypothesis under which a quote can be clamped at all: every config *)
(* update_config may install has min_fee <= max_fee.  BTCZSFeeConfig does  *)
(* not check it, so it is a hypothesis of the theorem, not of the module.  *)
ConfigsOrdered == \A c \in Configs : c.min_fee <= c.max_fee

TxSet == [kind : PayloadKinds, amount : Nat, args : Nat, code : Nat, pcs : Nat]

(* The clamp of calculate_transaction_fee returns a value in [min, max]   *)
(* whenever min <= max.                                                    *)
LEMMA ClampInRange ==
    ASSUME NEW t \in Nat, NEW cfg \in Config, cfg.min_fee <= cfg.max_fee
    PROVE  ClampFee(t, cfg) \in cfg.min_fee..cfg.max_fee
BY DEF ClampFee, Config

(* The saturating cast of a scaled natural is a natural, whatever the     *)
(* sign of the factor.                                                     *)
LEMMA ScaledNat ==
    ASSUME NEW x \in Nat, NEW f \in Int
    PROVE  ScaledAsU128(x, f) \in Nat
BY DEF ScaledAsU128

(* from_total_fees pays out at most what it is given, loses at most three *)
(* units to rounding, and every share is a natural.                        *)
LEMMA SplitBounds ==
    ASSUME NEW t \in Nat
    PROVE  /\ FromTotalFees(t) \in [miner_fees : Nat, stacker_fees : Nat,
                                    network_fees : Nat, burned_fees : Nat]
           /\ DistTotal(FromTotalFees(t)) <= t
           /\ t - DistTotal(FromTotalFees(t)) <= 3
BY DEF FromTotalFees, DistTotal

(* calculate_transaction_fee returns a well-formed calculation whose total *)
(* lies in the limits of the config it was computed under.                 *)
LEMMA TxQuoteClamped ==
    ASSUME NEW cfg \in Config, NEW tx \in TxSet, cfg.min_fee <= cfg.max_fee
    PROVE  /\ CalculateTransactionFee(cfg, tx) \in Quote
           /\ CalculateTransactionFee(cfg, tx).total_fee \in cfg.min_fee..cfg.max_fee
<1>1. EstimateTransactionSize(tx) \in Nat
    BY DEF EstimateTransactionSize, TxSet, PayloadKinds
<1>2. CalculateOperationFee(tx) \in Nat
    BY DEF CalculateOperationFee, MinOf, TxSet, PayloadKinds
<1> DEFINE sz == EstimateTransactionSize(tx) * cfg.base_fee_rate
           op == CalculateOperationFee(tx)
           cg == ScaledAsU128(sz + op, cfg.congestion)
           c  == NewCalculation(cfg.min_fee, sz, op, cg)
<1>a. sz \in Nat /\ sz + op \in Nat
    BY <1>1, <1>2 DEF Config
<1>b. cfg.congestion \in Int
    BY DEF Config
<1>3. sz \in Nat /\ cg \in Nat
    BY <1>a, <1>b, ScaledNat
<1>4. c \in Quote
    BY <1>2, <1>3 DEF NewCalculation, Quote, Config
<1>5. ClampFee(c.total_fee, cfg) \in cfg.min_fee..cfg.max_fee
    BY <1>4, ClampInRange DEF Quote
<1>6. CalculateTransactionFee(cfg, tx) = [c EXCEPT !.total_fee = ClampFee(c.total_fee, cfg)]
    BY DEF CalculateTransactionFee
<1> QED
    BY <1>4, <1>5, <1>6 DEF Quote, Config

(* calculate_bitcoinz_operation_fee returns a well-formed calculation.    *)
LEMMA OpQuoteType ==
    ASSUME NEW cfg \in Config, NEW k \in OpKinds, NEW b \in Nat, MinBurn \in Nat
    PROVE  CalculateBitcoinzOperationFee(cfg, k, b) \in Quote
<1>1. BTCZSFeesOperationFee(k, b) \in Nat
    BY DEF BTCZSFeesOperationFee, OpKinds
<1>2. ScaledAsU128(BTCZSFeesOperationFee(k, b), cfg.multiplier) \in Nat
    BY <1>1, ScaledNat DEF Config
<1>3. 250 * cfg.base_fee_rate \in Nat
    BY DEF Config
<1> DEFINE sum == 250 * cfg.base_fee_rate
                  + ScaledAsU128(BTCZSFeesOperationFee(k, b), cfg.multiplier)
<1>a. sum \in Nat /\ cfg.congestion \in Int
    BY <1>2, <1>3 DEF Config
<1>4. ScaledAsU128(sum, cfg.congestion) \in Nat
    BY <1>a, ScaledNat
<1> QED
    BY <1>1, <1>2, <1>3, <1>4 DEF CalculateBitcoinzOperationFee, NewCalculation, Quote

(* update_congestion_factor keeps the factor in [0.0, 2.0].               *)
LEMMA CapFactorRange ==
    ASSUME NEW f \in Int
    PROVE  CapFactor(f) \in 0..20
BY DEF CapFactor, MinOf

-----------------------------------------------------------------------------
(* The inductive invariant: the types, the installed config's ordering,   *)
(* and the two properties.  TxFeeClamped alone is not inductive: a quote   *)
(* is clamped only because the config it is computed under is ordered.     *)
FeeInv ==
    /\ FeeTypeOK
    /\ config.min_fee <= config.max_fee
    /\ TxFeeClamped
    /\ FeeSplitBounded

LEMMA FeeInitInv ==
    ASSUME ConfigsOrdered
    PROVE  FeeInit => FeeInv
<1> SUFFICES ASSUME FeeInit PROVE FeeInv
    OBVIOUS
<1>1. config \in Config /\ config.min_fee <= config.max_fee
    BY FeeAssumption DEF FeeInit, ConfigsOrdered
<1>2. dist \in [miner_fees : Nat, stacker_fees : Nat, network_fees : Nat, burned_fees : Nat]
      /\ DistTotal(dist) <= distIn /\ distIn - DistTotal(dist) <= 3 /\ distIn \in Nat
    BY SplitBounds DEF FeeInit
<1> QED
    BY <1>1, <1>2 DEF FeeInit, FeeInv, FeeTypeOK, TxFeeClamped, FeeSplitBounded

LEMMA FeeNextInv ==
    ASSUME ConfigsOrdered
    PROVE  FeeInv /\ [FeeNext]_vars => FeeInv'
<1> SUFFICES ASSUME FeeInv, [FeeNext]_vars PROVE FeeInv'
    OBVIOUS
<1> USE FeeAssumption
<1>0. /\ config \in Config /\ quoteCfg \in Config
      /\ quote \in Quote \cup {NoQuote}
    BY DEF FeeInv, FeeTypeOK
<1>1. ASSUME NEW f \in Factors, UpdateCongestionFactor(f) PROVE FeeInv'
    <2>1. CapFactor(f) \in 0..20
        BY CapFactorRange
    <2>2. config' \in Config /\ config'.min_fee = config.min_fee
          /\ config'.max_fee = config.max_fee
        BY <1>0, <1>1, <2>1 DEF UpdateCongestionFactor, Config
    <2> QED
        BY <1>1, <2>2 DEF UpdateCongestionFactor, FeeInv, FeeTypeOK, TxFeeClamped,
                          FeeSplitBounded
<1>2. ASSUME NEW c \in Configs, UpdateConfig(c) PROVE FeeInv'
    <2>1. c \in Config /\ c.min_fee <= c.max_fee
        BY DEF ConfigsOrdered
    <2> QED
        BY <1>2, <2>1 DEF UpdateConfig, FeeInv, FeeTypeOK, TxFeeClamped, FeeSplitBounded
<1>3. ASSUME NEW tx \in Txs, QuoteTransaction(tx) PROVE FeeInv'
    <2>1. tx \in TxSet /\ config.min_fee <= config.max_fee
        BY DEF TxSet, FeeInv
    <2>2. quote' \in Quote /\ quote'.total_fee \in config.min_fee..config.max_fee
        BY <1>0, <1>3, <2>1, TxQuoteClamped DEF QuoteTransaction
    <2> QED
        BY <1>0, <1>3, <2>2 DEF QuoteTransaction, FeeInv, FeeTypeOK, TxFeeClamped,
                                FeeSplitBounded
<1>4. ASSUME NEW k \in OpKinds, NEW b \in OpBurns, QuoteOperation(k, b) PROVE FeeInv'
    <2>1. quote' \in Quote
        BY <1>0, <1>4, OpQuoteType DEF QuoteOperation
    <2> QED
        BY <1>0, <1>4, <2>1 DEF QuoteOperation, FeeInv, FeeTypeOK, TxFeeClamped,
                                FeeSplitBounded
<1>5. ASSUME DistributeFees PROVE FeeInv'
    <2>1. quote \in Quote
        BY <1>0, <1>5 DEF DistributeFees
    <2>2. quote.total_fee \in Nat
        BY <2>1 DEF Quote
    <2>3. /\ dist' \in [miner_fees : Nat, stacker_fees : Nat, network_fees : Nat,
                        burned_fees : Nat]
          /\ DistTotal(dist') <= distIn' /\ distIn' - DistTotal(dist') <= 3
          /\ distIn' \in Nat
        BY <1>5, <2>2, SplitBounds DEF DistributeFees
    <2> QED
        BY <1>5, <2>3 DEF DistributeFees, FeeInv, FeeTypeOK, TxFeeClamped, FeeSplitBounded
<1>6. CASE UNCHANGED vars
    BY <1>6 DEF vars, FeeInv, FeeTypeOK, TxFeeClamped, FeeSplitBounded, DistTotal
<1> QED
    BY <1>1, <1>2, <1>3, <1>4, <1>5, <1>6 DEF FeeNext

(* P9: whatever configs are installed and congestion factors set, every   *)
(* fee calculate_transaction_fee quotes lies in the limits of its config,  *)
(* provided each config installed has min_fee <= max_fee.                 *)
THEOREM FeeTxClamped ==
    ASSUME ConfigsOrdered
    PROVE  FeeSpec => []TxFeeClamped
<1>1. FeeInit => FeeInv
    BY FeeInitInv
<1>2. FeeInv /\ [FeeNext]_vars => FeeInv'
    BY FeeNextInv
<1>3. FeeInv => TxFeeClamped
    BY DEF FeeInv
<1> QED
    BY <1>1, <1>2, <1>3, PTL DEF FeeSpec

(* P10, the part the code keeps: from_total_fees, applied by             *)
(* distribute_fees to any quoted total, never pays out more than it is    *)
(* given and loses at most three units to rounding.                        *)
THEOREM FeeSplitBoundedHolds ==
    ASSUME ConfigsOrdered
    PROVE  FeeSpec => []FeeSplitBounded
<1>1. FeeInit => FeeInv
    BY FeeInitInv
<1>2. FeeInv /\ [FeeNext]_vars => FeeInv'
    BY FeeNextInv
<1>3. FeeInv => FeeSplitBounded
    BY DEF FeeInv
<1> QED
    BY <1>1, <1>2, <1>3, PTL DEF FeeSpec

-----------------------------------------------------------------------------
(* Type correctness needs no hypothesis on the configs: whichever bound   *)
(* the clamp picks, it is a natural.                                       *)
LEMMA TxQuoteType ==
    ASSUME NEW cfg \in Config, NEW tx \in TxSet
    PROVE  CalculateTransactionFee(cfg, tx) \in Quote
<1>1. EstimateTransactionSize(tx) \in Nat /\ CalculateOperationFee(tx) \in Nat
    BY DEF EstimateTransactionSize, CalculateOperationFee, MinOf, TxSet, PayloadKinds
<1> DEFINE sz == EstimateTransactionSize(tx) * cfg.base_fee_rate
           op == CalculateOperationFee(tx)
           c  == NewCalculation(cfg.min_fee, sz, op, ScaledAsU128(sz + op, cfg.congestion))
<1>a. sz \in Nat /\ sz + op \in Nat /\ cfg.congestion \in Int
    BY <1>1 DEF Config
<1>b. ScaledAsU128(sz + op, cfg.congestion) \in Nat
    BY <1>a, ScaledNat
<1>2. c \in Quote
    BY <1>a, <1>b, <1>1, cfg.min_fee \in Nat DEF NewCalculation, Quote, Config
<1>3. ClampFee(c.total_fee, cfg) \in Nat
    BY <1>2 DEF ClampFee, Config, Quote
<1> QED
    BY <1>2, <1>3 DEF CalculateTransactionFee, Quote

LEMMA FeeTypeInit == FeeInit => FeeTypeOK
<1> SUFFICES ASSUME FeeInit PROVE FeeTypeOK
    OBVIOUS
<1>1. FromTotalFees(0) \in [miner_fees : Nat, stacker_fees : Nat,
                            network_fees : Nat, burned_fees : Nat]
    BY SplitBounds
<1> QED
    BY <1>1, FeeAssumption DEF FeeInit, FeeTypeOK

LEMMA FeeTypeNext == FeeTypeOK /\ [FeeNext]_vars => FeeTypeOK'
<1> SUFFICES ASSUME FeeTypeOK, [FeeNext]_vars PROVE FeeTypeOK'
    OBVIOUS
<1> USE FeeAssumption
<1>1. ASSUME NEW f \in Factors, UpdateCongestionFactor(f) PROVE FeeTypeOK'
    <2>1. CapFactor(f) \in 0..20
        BY CapFactorRange
    <2> QED
        BY <1>1, <2>1 DEF UpdateCongestionFactor, FeeTypeOK, Config
<1>2. ASSUME NEW c \in Configs, UpdateConfig(c) PROVE FeeTypeOK'
    BY <1>2 DEF UpdateConfig, FeeTypeOK
<1>3. ASSUME NEW tx \in Txs, QuoteTransaction(tx) PROVE FeeTypeOK'
    <2>1. tx \in TxSet
        BY DEF TxSet
    <2>2. quote' \in Quote
        BY <1>3, <2>1, TxQuoteType DEF QuoteTransaction, FeeTypeOK
    <2> QED
        BY <1>3, <2>2 DEF QuoteTransaction, FeeTypeOK
<1>4. ASSUME NEW k \in OpKinds, NEW b \in OpBurns, QuoteOperation(k, b) PROVE FeeTypeOK'
    <2>1. quote' \in Quote
        BY <1>4, OpQuoteType DEF QuoteOperation, FeeTypeOK
    <2> QED
        BY <1>4, <2>1 DEF QuoteOperation, FeeTypeOK
<1>5. ASSUME DistributeFees PROVE FeeTypeOK'
    <2>1. quote \in Quote /\ quote.total_fee \in Nat
        BY <1>5 DEF DistributeFees, FeeTypeOK, Quote
    <2>2. dist' \in [miner_fees : Nat, stacker_fees : Nat, network_fees : Nat,
                     burned_fees : Nat] /\ distIn' \in Nat
        BY <1>5, <2>1, SplitBounds DEF DistributeFees
    <2> QED
        BY <1>5, <2>2 DEF DistributeFees, FeeTypeOK
<1>6. CASE UNCHANGED vars
    BY <1>6 DEF vars, FeeTypeOK
<1> QED
    BY <1>1, <1>2, <1>3, <1>4, <1>5, <1>6 DEF FeeNext

(* Whatever configs update_config installs, including ones with min_fee   *)
(* above max_fee and negative or unbounded multipliers and congestion      *)
(* factors, and whatever congestion updates follow, every quote and split  *)
(* the fee engine returns has unsigned parts.                              *)
THEOREM FeeTypeCorrect == FeeSpec => []FeeTypeOK
BY FeeTypeInit, FeeTypeNext, PTL DEF FeeSpec
=============================================================================
