------------------------- MODULE MCWithdrawPipeline -------------------------
(* Bounded instances of WithdrawPipeline. *)
EXTENDS WithdrawPipeline, TLC

CONSTANTS r1, r2, w1, w2, m1, p1, p2

RequestSymmetry == Permutations(Requests)
=============================================================================
