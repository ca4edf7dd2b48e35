----------------------------- MODULE HeaderSync -----------------------------
(***************************************************************************)
(* What the burnchain indexer promises of a header sync (spec 4.3 and 5),  *)
(* with no RPC, no L1 chain and no loop: a sync over the closed range      *)
(* [lo, hi] presents the heights one at a time, in order and without gaps, *)
(* returns Ok once hi is presented, may return Timeout only after the      *)
(* caller has cleared the cooperative cancellation flag, and may fail with *)
(* an error at any point.                                                  *)
(***************************************************************************)
EXTENDS Naturals

VARIABLES
    status,    \* "idle", "running", "done" (Ok), "timeout" or "failed"
    lo, hi,    \* the range of the sync
    presented, \* the heights presented downstream so far
    cancelled  \* the caller has cleared the cancellation flag

vars == <<status, lo, hi, presented, cancelled>>

Init ==
    /\ status = "idle"
    /\ lo = 0 /\ hi = 0
    /\ presented = {}
    /\ cancelled = FALSE

(* The sync is called on [lo', hi']; an empty range returns Ok at once.   *)
Start ==
    /\ status = "idle"
    /\ lo' \in Nat /\ hi' \in Nat
    /\ status' = IF lo' > hi' THEN "done" ELSE "running"
    /\ UNCHANGED <<presented, cancelled>>

(* The call fails before it reads anything. *)
StartFailed ==
    /\ status = "idle"
    /\ lo' \in Nat
    /\ status' = "failed"
    /\ UNCHANGED <<hi, presented, cancelled>>

(* The next height of the range is presented; the last one ends the sync. *)
Present ==
    /\ status = "running"
    /\ \E h \in lo..hi :
          /\ presented = lo..(h - 1)
          /\ presented' = presented \cup {h}
          /\ status' = IF h = hi THEN "done" ELSE "running"
    /\ UNCHANGED <<lo, hi, cancelled>>

(* A running sync observes the cleared flag and returns Timeout. *)
TimeOut ==
    /\ status = "running" /\ cancelled
    /\ status' = "timeout"
    /\ UNCHANGED <<lo, hi, presented, cancelled>>

(* A running sync fails: an RPC error or a block it cannot parse. *)
Fail ==
    /\ status = "running"
    /\ status' = "failed"
    /\ UNCHANGED <<lo, hi, presented, cancelled>>

(* The caller clears the flag. *)
Clear ==
    /\ ~cancelled
    /\ cancelled' = TRUE
    /\ UNCHANGED <<status, lo, hi, presented>>

Next == Start \/ StartFailed \/ Present \/ TimeOut \/ Fail \/ Clear

Spec == Init /\ [][Next]_vars
=============================================================================
