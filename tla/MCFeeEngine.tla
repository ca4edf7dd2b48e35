----------------------------- MODULE MCFeeEngine -----------------------------
(***************************************************************************)
(* Model of the fee engine for TLC: the default config, one with a low    *)
(* maximum fee and two with factors outside [0, 2.0]; congestion updates   *)
(* below, inside and above that range; one transaction of each payload    *)
(* kind, and operations with small and large burns.                        *)
(***************************************************************************)
EXTENDS FeeEngine

Tx(k, a, n, c, p) == [kind |-> k, amount |-> a, args |-> n, code |-> c, pcs |-> p]

(* BTCZSFeeConfig::default, the same with max_fee = 0.03 BTCZS, one with  *)
(* congestion 3.0 (above the cap of update_congestion_factor) and one with *)
(* a multiplier and a congestion of -1.0, all of which update_config takes. *)
MCConfigs ==
    { [base_fee_rate |-> 100, min_fee |-> 1000, max_fee |-> 1000000000,
       multiplier |-> 15, congestion |-> 0],
      [base_fee_rate |-> 100, min_fee |-> 1000, max_fee |-> 30000,
       multiplier |-> 15, congestion |-> 0],
      [base_fee_rate |-> 100, min_fee |-> 1000, max_fee |-> 1000000000,
       multiplier |-> 15, congestion |-> 30],
      [base_fee_rate |-> 100, min_fee |-> 1000, max_fee |-> 1000000000,
       multiplier |-> -10, congestion |-> -10] }

(* update_congestion_factor(-1.0), (0.5) and (3.0). *)
MCFactors == {-10, 5, 30}

MCTxs ==
    { Tx("transfer", 1, 0, 0, 0), Tx("transfer", 5000, 0, 0, 1),
      Tx("call", 0, 3, 0, 0), Tx("deploy", 0, 0, 700, 0),
      Tx("coinbase", 0, 0, 0, 0), Tx("poison", 0, 0, 0, 0),
      Tx("tenure", 0, 0, 0, 2) }
=============================================================================
