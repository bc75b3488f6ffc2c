-------------------------- MODULE MCWithdrawPayout --------------------------
(* Bounded instances of WithdrawPayout. *)
EXTENDS WithdrawPayout, TLC

CONSTANTS r1, r2, w1, w2, m1, p1, p2

WorkerSymmetry == Permutations(Workers)
=============================================================================
