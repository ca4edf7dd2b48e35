------------------------------ MODULE MCIndexer ------------------------------
(***************************************************************************)
(* Model of the header sync for TLC: an L1 chain of up to three blocks    *)
(* above genesis, one reorganisation, syncs from heights 1 or 2 to the    *)
(* tip or to a given end.                                                  *)
(***************************************************************************)
EXTENDS Indexer
=============================================================================
