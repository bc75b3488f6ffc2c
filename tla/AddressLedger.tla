---------------------------- MODULE AddressLedger ----------------------------
(***************************************************************************)
(* What Send promises about the address it pays from: the address behaves  *)
(* as one balance.  A payment takes its total amount from it at once and   *)
(* splits it into what arrives and what the miners get.  A total of whole  *)
(* satoshis is taken exactly; one with more decimals than the node keeps   *)
(* is off by less than two Grains.                                         *)
(***************************************************************************)
EXTENDS Integers

CONSTANTS
    Amounts,  \* of deposits
    Payments, \* what may be paid: [total, arrived]
    Satoshi,  \* the node's smallest amount
    Grain     \* the step floorFloat rounds the change to

VARIABLES
    balance,    \* what the address has left
    delivered,  \* what arrived at the destinations
    fees        \* what the miners got

vars == <<balance, delivered, fees>>

Init == balance = 0 /\ delivered = 0 /\ fees = 0

Deposit(amount) ==
    /\ balance' = balance + amount
    /\ UNCHANGED <<delivered, fees>>

\* What rounding may add to the total.
Rests(total) ==
    IF total % Satoshi = 0 THEN {0} ELSE (1 - Grain)..(2 * Grain - 2)

Pay(total, arrived) ==
    /\ 0 < arrived /\ arrived <= total
    /\ \E rest \in Rests(total) :
        /\ balance >= total + rest
        /\ balance' = balance - total - rest
        /\ fees' = fees + total - arrived + rest
    /\ delivered' = delivered + arrived

Next ==
    \/ \E amount \in Amounts : Deposit(amount)
    \/ \E p \in Payments : Pay(p.total, p.arrived)

Spec == Init /\ [][Next]_vars
=============================================================================
