--------------------------- MODULE MCWithdrawApply ---------------------------
(* Bounded instances of WithdrawApply.  The amounts 1..3 against an opening *)
(* balance of 4 let two withdrawals fit together, or only one of them.      *)
EXTENDS WithdrawApply, TLC

CONSTANTS r1, r2, r3, m1, m2, p1, p2

RequestSymmetry == Permutations(Requests)
=============================================================================
