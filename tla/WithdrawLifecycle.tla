-------------------------- MODULE WithdrawLifecycle --------------------------
(***************************************************************************)
(* What the withdrawal pipeline promises about one withdrawal, whoever     *)
(* performs it: money leaves only for an accepted withdrawal, a withdrawal *)
(* succeeds only with one of its own transactions written into it, and a   *)
(* finished withdrawal is never changed again.                             *)
(***************************************************************************)
EXTENDS Naturals

CONSTANT Requests

VARIABLES
    stage,     \* stage[r]: "absent", "processing", "success" or "corrected"
    payments,  \* payments[r]: transactions the Bitcoin node accepted for r
    recorded   \* recorded[r]: the transaction written into r, 0 for none

vars == <<stage, payments, recorded>>

Init ==
    /\ stage = [r \in Requests |-> "absent"]
    /\ payments = [r \in Requests |-> 0]
    /\ recorded = [r \in Requests |-> 0]

Accept(r) ==
    /\ stage[r] = "absent"
    /\ stage' = [stage EXCEPT ![r] = "processing"]
    /\ UNCHANGED <<payments, recorded>>

\* A payment needs an accepted withdrawal.  It may repeat: a lost answer of
\* the node cannot be told from a transaction that was never sent.
Pay(r) ==
    /\ stage[r] # "absent"
    /\ payments' = [payments EXCEPT ![r] = @ + 1]
    /\ UNCHANGED <<stage, recorded>>

Succeed(r) ==
    /\ stage[r] = "processing"
    /\ stage' = [stage EXCEPT ![r] = "success"]
    /\ \E tx \in 1..payments[r] : recorded' = [recorded EXCEPT ![r] = tx]
    /\ UNCHANGED payments

Correct(r) ==
    /\ stage[r] = "processing"
    /\ stage' = [stage EXCEPT ![r] = "corrected"]
    /\ UNCHANGED <<payments, recorded>>

Next == \E r \in Requests : Accept(r) \/ Pay(r) \/ Succeed(r) \/ Correct(r)

Spec == Init /\ [][Next]_vars
=============================================================================
