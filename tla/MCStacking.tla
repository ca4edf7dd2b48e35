----------------------------- MODULE MCStacking -----------------------------
(***************************************************************************)
(* Model of the stacking ledger for TLC: two addresses, reward cycles of *)
(* three blocks with a one-block prepare phase, two cycles of blocks.      *)
(***************************************************************************)
EXTENDS Stacking, FiniteSets, TLC

CONSTANTS a1, a2

MCAddr == {a1, a2}

MCSymmetry == Permutations(MCAddr)

(* Self-transfers inflate balances without bound; keep every holding, the *)
(* amount burned and the number of stack-stx operations small.             *)
MCHoldBound == 3

MCStackBound == 2

MCConstraint ==
    /\ \A a \in Addr : bal[a].total <= MCHoldBound
    /\ burnt <= MCHoldBound
    /\ Cardinality(promised) <= MCStackBound
=============================================================================
