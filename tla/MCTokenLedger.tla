--------------------------- MODULE MCTokenLedger ---------------------------
(* Model-checking instance of TokenLedger: addresses are model values.   *)
EXTENDS TokenLedger, TLC

CONSTANTS a1, a2, a3

MCAddr == {a1, a2, a3}

MCSymmetry == Permutations(MCAddr)

(* State constraint: a self-transfer creates tokens, so held amounts are   *)
(* unbounded; the runs explore balances and burns up to this bound.         *)
HoldBound == 6

MCConstraint ==
    /\ \A a \in Addr : bal[a].total <= HoldBound
    /\ burnt <= HoldBound
=============================================================================
