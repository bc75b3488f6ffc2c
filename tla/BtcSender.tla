------------------------------ MODULE BtcSender ------------------------------
(***************************************************************************)
(* pkg/btcx sender.Send, one action per JSON-RPC call to Bitcoin Core, for *)
(* several calls that pay from one address at the same time: the workers   *)
(* of jobcenter pay the withdrawals of a member from the member's address. *)
(* A call that fails is retried, with the same amounts, by the consumer.   *)
(*                                                                         *)
(* An output is named <<n, vout>> by the transaction that made it: n > 0   *)
(* is the n-th transaction the node accepted, n < 0 a deposit from         *)
(* outside.  Amounts are integers: the node keeps whole satoshis, Go adds  *)
(* and subtracts in float64, which is off by less than the step of 1e-10   *)
(* that floorFloat keeps.  The default and the configured range of         *)
(* confirmations takes in every output, so confirmations are left out.     *)
(***************************************************************************)
EXTENDS Integers, Sequences, FiniteSets, FiniteSetsExt, SequencesExt

CONSTANTS
    Calls,      \* calls of Send
    Amounts,    \* amounts of payments and deposits
    Payments,   \* what the calls are asked to pay: [total, arrived]
    Deposits,   \* Deposits[i]: the amount of the i-th deposit
    Satoshi,    \* 1e-8 coin in units of the model
    Grain,      \* floorFloat's 1e-10 coin in units of the model
    Rounding,   \* Rounding[<<amounts, total>>]: the error of float64 in the sum of the
                \* amounts less the total, where it makes one
    MaxFaults,  \* bound on the failed RPCs of a behaviour
    NoPayment   \* the call has not begun

\* The node reads amounts with eight decimals, and refuses those with more.
Whole(amount) == amount % Satoshi = 0

ASSUME SenderAssumption ==
    /\ IsFiniteSet(Calls)
    /\ Amounts \subseteq Int
    /\ Payments \subseteq [total: Amounts, arrived: Amounts]
    /\ Deposits \in Seq(Amounts \cap (Nat \ {0}))
    /\ \A i \in DOMAIN Deposits : Whole(Deposits[i])
    /\ Grain \in Nat \ {0} /\ Satoshi \in Nat /\ 2 * Grain <= Satoshi
    /\ Rounding \in [DOMAIN Rounding -> (1 - Grain)..(Grain - 1)]
    /\ MaxFaults \in Nat

VARIABLES
    unspent,   \* unspent[o]: the amount of the unspent output o of the address
    accepted,  \* transactions the node accepted
    deposited, \* deposits that arrived
    delivered, \* history: what arrived at the destinations
    fees,      \* history: inputs minus outputs of the accepted transactions
    pc,        \* pc[c]: the RPC call c is about to make
    payment,   \* payment[c]: totalAmount and arrivedAmount
    tx,        \* tx[c]: the inputs, and the change output, c chose
    faults     \* failed RPCs so far

nodeVars == <<unspent, accepted, deposited, delivered, fees>>
vars == <<nodeVars, pc, payment, tx, faults>>

Steps == {"idle", "list", "create", "sign", "broadcast",
          "done", "failed", "refused"}

NoTx == [inputs |-> <<>>, change |-> 0]

Goto(c, to) == pc' = [pc EXCEPT ![c] = to]

Fault == faults < MaxFaults /\ faults' = faults + 1

\* What the outputs of the set S are worth.
Worth(S) == SumFunctionOnSet(unspent, S)

Balance == Worth(DOMAIN unspent)

\* The inputs of c are still unspent.
InputsUnspent(c) == Range(tx[c].inputs) \subseteq DOMAIN unspent

-----------------------------------------------------------------------------
(* collectInputs and floorFloat. *)

floorFloat(value) == (value \div Grain) * Grain

\* The sum of the outputs, less the target, as float64 has it.
FloatDifference(utxos, target) ==
    LET pair == <<[i \in DOMAIN utxos |-> unspent[utxos[i]]], target>>
    IN  Worth(Range(utxos)) - target
            + (IF pair \in DOMAIN Rounding THEN Rounding[pair] ELSE 0)

\* How many of the listed outputs reach the target.
enough(utxos, target) ==
    {n \in 1..Len(utxos) : FloatDifference(SubSeq(utxos, 1, n), target) >= 0}

collectInputsLate(utxos, target) ==  \* mutant: compared before the output is added
    SubSeq(utxos, 1, Min({Len(utxos), Min(enough(utxos, target)) + 1}))

\* The loop over the listed outputs returns as soon as the total reaches the
\* target; it is an error when it never does.
collectInputs(utxos, target) == SubSeq(utxos, 1, Min(enough(utxos, target)))

changeOfArrived(inputs, p) ==  \* mutant: the fee goes back to the address
    floorFloat(FloatDifference(inputs, p.arrived))

changeAmount(inputs, p) == floorFloat(FloatDifference(inputs, p.total))

-----------------------------------------------------------------------------
(* Another variant with a bug. *)

\* A retry that keeps the inputs it chose.
RetrySameInputs(c) ==
    /\ pc[c] = "failed"
    /\ Goto(c, IF tx[c] = NoTx THEN "list" ELSE "create")
    /\ UNCHANGED <<nodeVars, payment, tx, faults>>

-----------------------------------------------------------------------------
(* Send. *)

validated(p) == p.total > 0 /\ p.arrived > 0 /\ p.arrived <= p.total

Send(c, p) ==
    /\ pc[c] = "idle"
    /\ payment' = [payment EXCEPT ![c] = p]
    /\ Goto(c, IF validated(p) THEN "list" ELSE "refused")
    /\ UNCHANGED <<nodeVars, tx, faults>>

\* The node lists the outputs in any order; the inputs are chosen and the
\* change is computed from this list.
ListUnspent(c) ==
    /\ pc[c] = "list"
    /\ \E utxos \in SetToSeqs(DOMAIN unspent) :
        LET inputs == collectInputs(utxos, payment[c].total)
        IN  IF enough(utxos, payment[c].total) = {}
            THEN Goto(c, "failed") /\ UNCHANGED tx
            ELSE /\ tx' = [tx EXCEPT ![c] =
                            [inputs |-> inputs,
                             change |-> changeAmount(inputs, payment[c])]]
                 /\ Goto(c, "create")
    /\ UNCHANGED <<nodeVars, payment, faults>>

\* The amounts of the outputs have no more decimals than the node reads.
Readable(c) == Whole(payment[c].arrived) /\ Whole(tx[c].change)

CreateRawTransaction(c) ==
    /\ pc[c] = "create"
    /\ Goto(c, IF Readable(c) THEN "sign" ELSE "failed")
    /\ UNCHANGED <<nodeVars, payment, tx, faults>>

\* The wallet does not complete a signature for an input it has seen spent.
SignRawTransactionWithWallet(c) ==
    /\ pc[c] = "sign"
    /\ Goto(c, IF InputsUnspent(c) THEN "broadcast" ELSE "failed")
    /\ UNCHANGED <<nodeVars, payment, tx, faults>>

\* The node spends the inputs and makes the outputs; there is a change output
\* only for a positive change.
Accept(c) ==
    LET left == DOMAIN unspent \ Range(tx[c].inputs)
        change == IF tx[c].change > 0 THEN {<<accepted + 1, 1>>} ELSE {}
    IN  /\ InputsUnspent(c)
        /\ unspent' = [o \in left \cup change |->
                        IF o \in change THEN tx[c].change ELSE unspent[o]]
        /\ accepted' = accepted + 1
        /\ delivered' = delivered + payment[c].arrived
        /\ fees' = fees + Worth(Range(tx[c].inputs))
                        - payment[c].arrived - tx[c].change
        /\ UNCHANGED deposited

SendRawTransaction(c) ==
    /\ pc[c] = "broadcast"
    /\ Accept(c)
    /\ Goto(c, "done")
    /\ UNCHANGED <<payment, tx, faults>>

\* Another transaction spent an input after it was listed.
SendConflicts(c) ==
    /\ pc[c] = "broadcast"
    /\ ~InputsUnspent(c)
    /\ Goto(c, "failed")
    /\ UNCHANGED <<nodeVars, payment, tx, faults>>

\* The node accepted the transaction and its answer is lost.
SendUnanswered(c) ==
    /\ pc[c] = "broadcast"
    /\ Accept(c)
    /\ Fault
    /\ Goto(c, "failed")
    /\ UNCHANGED <<payment, tx>>

\* An RPC failed and the node did nothing.
CallFails(c) ==
    /\ pc[c] \in {"list", "create", "sign", "broadcast"}
    /\ Fault
    /\ Goto(c, "failed")
    /\ UNCHANGED <<nodeVars, payment, tx>>

\* handleFetchedMessage runs the handler again, which calls Send again.
Retry(c) ==
    /\ pc[c] = "failed"
    /\ Goto(c, "list")
    /\ tx' = [tx EXCEPT ![c] = NoTx]
    /\ UNCHANGED <<nodeVars, payment, faults>>

-----------------------------------------------------------------------------

\* Somebody pays to the address.
Deposit(i) ==
    /\ i \notin deposited
    /\ deposited' = deposited \cup {i}
    /\ unspent' = [o \in DOMAIN unspent \cup {<<-i, 0>>} |->
                    IF o = <<-i, 0>> THEN Deposits[i] ELSE unspent[o]]
    /\ UNCHANGED <<accepted, delivered, fees, pc, payment, tx, faults>>

Init ==
    /\ unspent = [o \in {} |-> 0]
    /\ accepted = 0
    /\ deposited = {}
    /\ delivered = 0
    /\ fees = 0
    /\ pc = [c \in Calls |-> "idle"]
    /\ payment = [c \in Calls |-> NoPayment]
    /\ tx = [c \in Calls |-> NoTx]
    /\ faults = 0

\* What a call does by itself once it has begun.
Progress(c) ==
    \/ ListUnspent(c) \/ CreateRawTransaction(c)
    \/ SignRawTransactionWithWallet(c)
    \/ SendRawTransaction(c) \/ SendConflicts(c)
    \/ Retry(c)

Next ==
    \/ \E c \in Calls :
        \/ \E p \in Payments : Send(c, p)
        \/ Progress(c) \/ SendUnanswered(c) \/ CallFails(c)
    \/ \E i \in DOMAIN Deposits : Deposit(i)

Spec == Init /\ [][Next]_vars

\* A call runs on, and the consumer retries it.
FairSpec == Spec /\ \A c \in Calls : WF_vars(Progress(c))

-----------------------------------------------------------------------------
(* Properties. *)

TypeOK ==
    /\ DOMAIN unspent \subseteq (-Len(Deposits)..accepted) \X {0, 1}
    /\ \A o \in DOMAIN unspent : unspent[o] \in Nat \ {0} /\ Whole(unspent[o])
    /\ accepted \in 0..(Cardinality(Calls) + MaxFaults)
    /\ deposited \subseteq DOMAIN Deposits
    /\ pc \in [Calls -> Steps]
    /\ payment \in [Calls -> Payments \cup {NoPayment}]
    /\ tx \in [Calls -> [inputs: Seq(Int \X {0, 1}), change: Nat]]
    /\ faults \in 0..MaxFaults

\* However the calls interleave, the address behaves as one balance: two
\* calls that chose the same outputs do not both pay with them, and a
\* transaction takes the total amount, exactly when it is of whole satoshis,
\* and otherwise up to the rounding (rpc.go:282-284, 332).
L == INSTANCE AddressLedger WITH balance <- Balance

ImplementsLedger == L!Spec

\* The inputs of a transaction that no other call has invalidated cover the
\* total amount, and not one of them is more than it needs (collectInputs):
\* float64 misses the total by less than a Grain either way.
InputsAreEnough ==
    \A c \in Calls :
        pc[c] \in {"create", "sign", "broadcast"} /\ InputsUnspent(c) =>
            /\ Worth(Range(tx[c].inputs)) > payment[c].total - Grain
            /\ Worth(Range(Front(tx[c].inputs))) < payment[c].total + Grain

\* The types hold, amounts of change above all, and the chosen inputs are enough.
SenderInv == TypeOK /\ InputsAreEnough

\* The outputs of the address do not reach the total, in some order of adding.
Unpayable(c) ==
    /\ pc[c] # "idle"
    /\ \E utxos \in SetToSeqs(DOMAIN unspent) : enough(utxos, payment[c].total) = {}

\* The node does not read the amounts of the transaction.
Refused(c) == pc[c] = "create" /\ ~Readable(c)

\* A conflict, or a failed call, only delays a payment: without a lock between
\* the calls it is sent in the end, as long as the address can pay it and the
\* node reads its amounts.
SentUnlessRefused ==
    \A c \in Calls :
        pc[c] = "list" ~> pc[c] = "done" \/ Unpayable(c) \/ Refused(c)
=============================================================================
