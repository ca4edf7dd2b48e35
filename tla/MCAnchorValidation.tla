------------------------- MODULE MCAnchorValidation -------------------------
(***************************************************************************)
(* Model of sortition and anchor validation for TLC: two miners, two L2   *)
(* block hashes, two networks, L1 blocks of up to two operations drawn    *)
(* from six, and a range space [0, 31].                                    *)
(***************************************************************************)
EXTENDS AnchorValidation, TLC

CONSTANTS m1, m2, h1, h2, main, test

Mk(k, m, a, c, h, n) == [kind |-> k, miner |-> m, amount |-> a, cycles |-> c,
                         hash |-> h, net |-> n]

(* With MIN = 2: two honest commits whose burns (2 and 4) leave a rounding *)
(* gap, a commit from the other network, a dust commit, a burn and a      *)
(* stack-stx.                                                              *)
MCOps ==
    { Mk("commit", m1, 2, 0, h1, main), Mk("commit", m2, 4, 0, h2, main),
      Mk("commit", m2, 2, 0, h2, test), Mk("commit", m1, 1, 0, h1, main),
      Mk("burn", m1, 2, 0, h1, main),   Mk("stack", m2, 1, 1, h2, main) }

(* Honest commits on the active network only. *)
MCMainCommits == { Mk("commit", m1, 2, 0, h1, main), Mk("commit", m2, 4, 0, h2, main) }

BlocksOver(S) == {<< >>} \cup {<< o >> : o \in S} \cup {<< o, p >> : o, p \in S}

MCBlockOps == BlocksOver(MCOps)

(* Blocks whose commits name different L2 blocks: two honest miners race. *)
MCContestedBlockOps ==
    {<< >>} \cup {<< o >> : o \in MCMainCommits}
            \cup {b \in {<< o, p >> : o, p \in MCMainCommits} : b[1] # b[2]}
=============================================================================
