----------------------------- MODULE MCBtcSender -----------------------------
(* Bounded instances of BtcSender. *)
EXTENDS BtcSender, TLC

CONSTANTS c1, c2, c3

\* Fees or none, amounts the node does not read, and what Send refuses.
SomePayments ==
    {[total |-> pair[1], arrived |-> pair[2]] :
        pair \in {<<4, 4>>, <<8, 4>>, <<12, 8>>, <<5, 4>>, <<8, 5>>, <<4, 8>>, <<4, 0>>}}

ThreeDeposits == <<4, 8, 12>>

\* As 0.1 + 0.7 < 0.8, 0.3 - 0.1 < 0.2, and a difference that is a little too large.
SomeRounding ==
    (<<<<4, 8>>, 12>> :> -1) @@ (<<<<12>>, 4>> :> -1) @@ (<<<<8>>, 5>> :> 1)
=============================================================================
