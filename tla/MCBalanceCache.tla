---------------------------- MODULE MCBalanceCache ----------------------------
(***************************************************************************)
(* Model of the balance cache for TLC: three addresses, a cache of two    *)
(* entries, a TTL of three seconds over five seconds of clock, and two    *)
(* block heights.                                                          *)
(***************************************************************************)
EXTENDS BalanceCache, TLC

CONSTANTS a1, a2, a3

MCAddr == {a1, a2, a3}

MCSymmetry == Permutations(MCAddr)
=============================================================================
