---------------------------- MODULE WithdrawPayout ----------------------------
(***************************************************************************)
(* The pay-out side of a withdrawal in jobcenter: the handler of           *)
(* NewWithdrawConsumer, WithdrawService.ProcessApplied, one action per     *)
(* call it makes to MySQL, Redis, market-rpc and ucenter-rpc, and the      *)
(* Bitcoin node.  It runs inside the loop of KafkaConsumer (INSTANCE K);   *)
(* the event in hand of worker w is the request message(w), and everything *)
(* else about the record is read from MySQL.                               *)
(*                                                                         *)
(* Transactions of record r are numbered from 1 in the order the node      *)
(* accepted them; 0 stands for no transaction id.                          *)
(***************************************************************************)
EXTENDS Integers, Sequences, FiniteSets

CONSTANTS
    Requests, Members, Units, Codes, Amounts, Fees,
    BTC,                 \* the only unit ProcessApplied pays out
    Partitions, Workers, HasDeadLetterTopic, MaxEvents, MaxFaults,
    NoWorker, NoEvent, NoInput

ASSUME PayoutAssumption ==
    /\ Amounts \subseteq Int
    /\ Fees \subseteq Int
    /\ MaxFaults \in Nat
    /\ NoWorker \notin Workers

VARIABLES
    log, committed, owner, position, loop, current, canceled, closed,
    acked, deadLetters, faults,   \* KafkaConsumer
    req,         \* req[r]: the WithdrawReq the record was made from
    status,      \* status[r]: withdraw_record.status, or "absent"
    txid,        \* txid[r]: withdraw_record.transaction_number
    checkpoint,  \* checkpoint[r]: Redis, JOBCENTER::WITHDRAW::TX::<r>
    broadcasts,  \* broadcasts[r]: transactions of r the node accepted
    step,        \* step[w]: the next call of ProcessApplied
    sent,        \* sent[w]: the transaction id ProcessApplied holds
    cacheFailed  \* cacheFailed[w]: cacheErr # nil

K == INSTANCE KafkaConsumer WITH Messages <- Requests, Poison <- {}

consumerVars == <<committed, owner, position, loop, current, canceled, closed,
                  acked, deadLetters>>
recordVars == <<status, txid>>
handlerVars == <<step, sent, cacheFailed>>
payoutVars == <<recordVars, checkpoint, broadcasts, handlerVars>>
vars == <<log, consumerVars, faults, req, payoutVars>>

HandlerSteps == {"find", "load", "finalize", "lookup", "send", "store", "mark"}

TxIds == 0..(1 + MaxFaults)

\* The record the worker is at.
record(w) == K!message(w)

At(w, s) == loop[w] = "handle" /\ step[w] = s

\* The handler calls on.
Call(w, next) ==
    /\ step' = [step EXCEPT ![w] = next]
    /\ UNCHANGED consumerVars

\* The handler returns and its local variables are gone.
Return(w, action) ==
    /\ K!HandlerReturns(w, action)
    /\ step' = [step EXCEPT ![w] = "find"]
    /\ sent' = [sent EXCEPT ![w] = 0]
    /\ cacheFailed' = [cacheFailed EXCEPT ![w] = FALSE]

Fault == faults < MaxFaults /\ faults' = faults + 1

-----------------------------------------------------------------------------
(* Variants with one bug each, which show that a property of this module can *)
(* fail; the specification does not use them.                               *)

\* A missing row taken for a withdrawal that was given up.
RecordNotCommittedAcked(w) ==
    /\ At(w, "find")
    /\ status[record(w)] = "absent"
    /\ Return(w, "ack")
    /\ UNCHANGED <<faults, req, recordVars, checkpoint, broadcasts>>

\* Paying from the event, without waiting for the row.
RecordProcessingOrAbsent(w) ==
    /\ At(w, "find")
    /\ status[record(w)] \in {"absent", "processing"}
    /\ Call(w, "load")
    /\ UNCHANGED <<faults, req, recordVars, checkpoint, broadcasts, sent,
                   cacheFailed>>

\* The checkpoint is written and never read.
LoadCheckpointIgnored(w) ==
    /\ At(w, "load")
    /\ Call(w, "lookup")
    /\ UNCHANGED <<faults, req, recordVars, checkpoint, broadcasts, sent,
                   cacheFailed>>

\* UPDATE ... WHERE id = ?, without the status.
MarkSuccessAnyStatus(r, tx) ==
    /\ status' = [status EXCEPT ![r] = "success"]
    /\ txid' = [txid EXCEPT ![r] = tx]

\* Another status constant than the one FindByID's caller compares with.
MarkSuccessWrongStatus(r, tx) ==
    IF status[r] = "processing"
    THEN /\ status' = [status EXCEPT ![r] = "waiting"]
         /\ txid' = [txid EXCEPT ![r] = tx]
    ELSE UNCHANGED recordVars

\* finalizeFromCache that reports the checkpoint without updating the row.
FinalizeWithoutUpdate(w) ==
    /\ At(w, "finalize")
    /\ Return(w, "ack")
    /\ UNCHANGED <<faults, req, recordVars, checkpoint, broadcasts>>

\* An unsupported coin that is retried.
UnsupportedCoinRetried(w) ==
    /\ At(w, "lookup")
    /\ req[record(w)].unit # BTC
    /\ Return(w, "retry")
    /\ UNCHANGED <<faults, req, recordVars, checkpoint, broadcasts>>

\* A sender that builds and sends a second transaction when the node does
\* not answer the first.
SendTriesAgain(w) ==
    /\ At(w, "send")
    /\ req[record(w)].amount > req[record(w)].fee
    /\ Fault
    /\ broadcasts' = [broadcasts EXCEPT ![record(w)] = @ + 2]
    /\ Return(w, "retry")
    /\ UNCHANGED <<req, recordVars, checkpoint>>

-----------------------------------------------------------------------------
(* ProcessApplied: FindByID. *)

\* The producer publishes before it commits: the row may not be there yet,
\* or ever.
RecordNotCommitted(w) ==
    /\ At(w, "find")
    /\ status[record(w)] = "absent"
    /\ Return(w, "retry")
    /\ UNCHANGED <<faults, req, recordVars, checkpoint, broadcasts>>

RecordSucceeded(w) ==
    /\ At(w, "find")
    /\ status[record(w)] = "success"
    /\ Return(w, "ack")
    /\ UNCHANGED <<faults, req, recordVars, checkpoint, broadcasts>>

RecordUnsupported(w) ==
    /\ At(w, "find")
    /\ status[record(w)] \notin {"absent", "success", "processing"}
    /\ Return(w, "deadletter")
    /\ UNCHANGED <<faults, req, recordVars, checkpoint, broadcasts>>

RecordProcessing(w) ==
    /\ At(w, "find")
    /\ status[record(w)] = "processing"
    /\ Call(w, "load")
    /\ UNCHANGED <<faults, req, recordVars, checkpoint, broadcasts, sent,
                   cacheFailed>>

-----------------------------------------------------------------------------
(* finalizeFromCache. *)

LoadCheckpoint(w) ==
    /\ At(w, "load")
    /\ sent' = [sent EXCEPT ![w] = checkpoint[record(w)]]
    /\ Call(w, IF checkpoint[record(w)] # 0 THEN "finalize" ELSE "lookup")
    /\ UNCHANGED <<faults, req, recordVars, checkpoint, broadcasts, cacheFailed>>

\* UPDATE withdraw_record ... WHERE id = ? AND status = Processing.
MarkSuccess(r, tx) ==
    IF status[r] = "processing"
    THEN /\ status' = [status EXCEPT ![r] = "success"]
         /\ txid' = [txid EXCEPT ![r] = tx]
    ELSE UNCHANGED recordVars

\* Whether a row was updated is not looked at.
FinalizeFromCache(w) ==
    /\ At(w, "finalize")
    /\ MarkSuccess(record(w), sent[w])
    /\ Return(w, "ack")
    /\ UNCHANGED <<faults, req, checkpoint, broadcasts>>

-----------------------------------------------------------------------------
(* FindCoinById, FindWalletBySymbol, Send. *)

UnsupportedCoin(w) ==
    /\ At(w, "lookup")
    /\ req[record(w)].unit # BTC
    /\ Return(w, "deadletter")
    /\ UNCHANGED <<faults, req, recordVars, checkpoint, broadcasts>>

FindWallet(w) ==
    /\ At(w, "lookup")
    /\ req[record(w)].unit = BTC
    /\ Call(w, "send")
    /\ UNCHANGED <<faults, req, recordVars, checkpoint, broadcasts, sent,
                   cacheFailed>>

arrivedAmount(r) == req[r].amount - req[r].fee

NodeAccepts(r) == broadcasts' = [broadcasts EXCEPT ![r] = @ + 1]

\* The node accepts the transaction and answers with its id.
Send(w) ==
    /\ At(w, "send")
    /\ arrivedAmount(record(w)) > 0
    /\ NodeAccepts(record(w))
    /\ sent' = [sent EXCEPT ![w] = broadcasts[record(w)] + 1]
    /\ Call(w, "store")
    /\ UNCHANGED <<faults, req, recordVars, checkpoint, cacheFailed>>

\* A fee that equals the amount passed Apply's validation; btcx refuses to
\* send nothing, with an error that is retried.
SendRefused(w) ==
    /\ At(w, "send")
    /\ arrivedAmount(record(w)) <= 0
    /\ Return(w, "retry")
    /\ UNCHANGED <<faults, req, recordVars, checkpoint, broadcasts>>

\* The node accepted the transaction and its answer is lost (a timeout, a
\* broken connection, the node stopping).
SendUnanswered(w) ==
    /\ At(w, "send")
    /\ arrivedAmount(record(w)) > 0
    /\ Fault
    /\ NodeAccepts(record(w))
    /\ Return(w, "retry")
    /\ UNCHANGED <<req, recordVars, checkpoint>>

-----------------------------------------------------------------------------
(* The checkpoint and the final update. *)

StoreCheckpoint(w) ==
    /\ At(w, "store")
    /\ checkpoint' = [checkpoint EXCEPT ![record(w)] = sent[w]]
    /\ Call(w, "mark")
    /\ UNCHANGED <<faults, req, recordVars, broadcasts, sent, cacheFailed>>

\* SetWithExpireCtx failed; Redis may have stored the entry all the same.
StoreFails(w) ==
    /\ At(w, "store")
    /\ Fault
    /\ checkpoint' \in {checkpoint, [checkpoint EXCEPT ![record(w)] = sent[w]]}
    /\ cacheFailed' = [cacheFailed EXCEPT ![w] = TRUE]
    /\ Call(w, "mark")
    /\ UNCHANGED <<req, recordVars, broadcasts, sent>>

\* A row that is no longer Processing is an error, unless the checkpoint
\* failed too: then nil is returned before the row count is looked at.
MarkRecord(w) ==
    /\ At(w, "mark")
    /\ MarkSuccess(record(w), sent[w])
    /\ Return(w, IF status[record(w)] = "processing" \/ cacheFailed[w]
                 THEN "ack" ELSE "deadletter")
    /\ UNCHANGED <<faults, req, checkpoint, broadcasts>>

\* The UPDATE failed, before or after MySQL ran it.
MarkFails(w) ==
    /\ At(w, "mark")
    /\ Fault
    /\ MarkSuccess(record(w), sent[w]) \/ UNCHANGED recordVars
    /\ Return(w, IF cacheFailed[w] THEN "deadletter" ELSE "retry")
    /\ UNCHANGED <<req, checkpoint, broadcasts>>

\* A query to MySQL, Redis, market-rpc or ucenter-rpc failed, the coin or the
\* wallet address is missing, or Send failed before the broadcast.  The
\* UPDATE of finalizeFromCache may have run.
CallFails(w) ==
    /\ loop[w] = "handle"
    /\ step[w] \in {"find", "load", "finalize", "lookup", "send"}
    /\ Fault
    /\ \/ UNCHANGED recordVars
       \/ step[w] = "finalize" /\ MarkSuccess(record(w), sent[w])
    /\ Return(w, "retry")
    /\ UNCHANGED <<req, checkpoint, broadcasts>>

-----------------------------------------------------------------------------
(* Around the handler. *)

\* The checkpoint's TTL of 24 hours ends, or Redis loses it.
ExpireCheckpoint(r) ==
    /\ checkpoint[r] # 0
    /\ Fault
    /\ checkpoint' = [checkpoint EXCEPT ![r] = 0]
    /\ UNCHANGED <<log, consumerVars, req, recordVars, broadcasts, handlerVars>>

\* Somebody corrects the record by hand, the case MarkSuccess guards against.
CorrectByHand(r) ==
    /\ status[r] = "processing"
    /\ status' = [status EXCEPT ![r] = "corrected"]
    /\ UNCHANGED <<log, consumerVars, faults, req, txid, checkpoint, broadcasts, handlerVars>>

\* A worker that dies loses what its handler held.
Crash(w) ==
    /\ K!Crash(w)
    /\ step' = [step EXCEPT ![w] = "find"]
    /\ sent' = [sent EXCEPT ![w] = 0]
    /\ cacheFailed' = [cacheFailed EXCEPT ![w] = FALSE]
    /\ UNCHANGED <<req, recordVars, checkpoint, broadcasts>>

ProcessApplied(w) ==
    \/ RecordNotCommitted(w) \/ RecordSucceeded(w)
    \/ RecordUnsupported(w) \/ RecordProcessing(w)
    \/ LoadCheckpoint(w) \/ FinalizeFromCache(w)
    \/ UnsupportedCoin(w) \/ FindWallet(w)
    \/ Send(w) \/ SendRefused(w) \/ SendUnanswered(w)
    \/ StoreCheckpoint(w) \/ StoreFails(w)
    \/ MarkRecord(w) \/ MarkFails(w)
    \/ CallFails(w)

\* The loop around the handler; a deployment is taken to stop by a crash
\* (Stop itself is in KafkaConsumer).
ConsumerLoop(w) ==
    \/ K!Consume(w)
    \/ \E p \in Partitions : K!Join(p, w) \/ K!Rebalance(p, w)
    \/ K!Restart(w)

PayoutNext ==
    \/ \E w \in Workers :
        \/ ProcessApplied(w) /\ UNCHANGED log
        \/ ConsumerLoop(w) /\ UNCHANGED <<req, payoutVars>>
        \/ Crash(w)
    \/ \E r \in Requests : ExpireCheckpoint(r) \/ CorrectByHand(r)

-----------------------------------------------------------------------------
(* The environment: whoever applies for withdrawals. An event may come       *)
(* before its row, without one ever following, and more than once.           *)

Receive(r, in) ==
    /\ req[r] = NoInput
    /\ in.amount > 0 /\ in.fee \in 0..in.amount
    /\ req' = [req EXCEPT ![r] = in]
    /\ UNCHANGED <<log, consumerVars, faults, payoutVars>>

Published(r) == \E p \in Partitions : \E i \in DOMAIN log[p] : log[p][i] = r

Publish(r, p) ==
    /\ req[r] # NoInput
    /\ status[r] = "absent"
    /\ Len(log[p]) < MaxEvents
    /\ log' = [log EXCEPT ![p] = Append(@, r)]
    /\ IF Published(r) THEN Fault ELSE UNCHANGED faults
    /\ UNCHANGED <<consumerVars, req, payoutVars>>

CommitRecord(r) ==
    /\ Published(r)
    /\ status[r] = "absent"
    /\ status' = [status EXCEPT ![r] = "processing"]
    /\ UNCHANGED <<log, consumerVars, faults, req, txid, checkpoint, broadcasts, handlerVars>>

Apply ==
    \E r \in Requests :
        \/ \E in \in [member: Members, unit: Units, amount: Amounts,
                      fee: Fees, code: Codes] : Receive(r, in)
        \/ \E p \in Partitions : Publish(r, p)
        \/ CommitRecord(r)

-----------------------------------------------------------------------------

PayoutInit ==
    /\ K!ConsumerInit
    /\ txid = [r \in Requests |-> 0]
    /\ checkpoint = [r \in Requests |-> 0]
    /\ broadcasts = [r \in Requests |-> 0]
    /\ step = [w \in Workers |-> "find"]
    /\ sent = [w \in Workers |-> 0]
    /\ cacheFailed = [w \in Workers |-> FALSE]

Init ==
    /\ PayoutInit
    /\ log = [p \in Partitions |-> <<>>]
    /\ req = [r \in Requests |-> NoInput]
    /\ status = [r \in Requests |-> "absent"]
    /\ faults = 0

Next == PayoutNext \/ Apply

Spec == Init /\ [][Next]_vars

\* jobcenter runs on, is restarted when it dies (docker-compose.yml), and the
\* coordinator assigns every partition.  Faults are finitely many, so no
\* action that could fail needs more than weak fairness.
PayoutFairness ==
    \A w \in Workers :
        /\ WF_vars(ProcessApplied(w) /\ UNCHANGED log)
        /\ WF_vars(K!Consume(w) /\ UNCHANGED <<req, payoutVars>>)
        /\ WF_vars(K!Restart(w) /\ UNCHANGED <<req, payoutVars>>)
        /\ \A p \in Partitions :
            WF_vars(K!Join(p, w) /\ UNCHANGED <<req, payoutVars>>)

FairSpec == Spec /\ PayoutFairness

-----------------------------------------------------------------------------
(* Properties. *)

TypeOK ==
    /\ K!TypeOK
    /\ status \in [Requests -> {"absent", "processing", "success", "corrected"}]
    /\ txid \in [Requests -> TxIds]
    /\ checkpoint \in [Requests -> TxIds]
    /\ broadcasts \in [Requests -> TxIds]
    /\ step \in [Workers -> HandlerSteps]
    /\ sent \in [Workers -> TxIds]
    /\ cacheFailed \in [Workers -> BOOLEAN]

\* What the pay-out does to a withdrawal is what WithdrawLifecycle allows.
L == INSTANCE WithdrawLifecycle
        WITH stage <- status, payments <- broadcasts, recorded <- txid

ImplementsLifecycle == L!Spec

\* A withdrawal is paid once, and at most once more for every fault: without
\* a fault neither the retries of the loop, nor the waiting for the row, nor
\* the order of the events pays it twice (withdraw_service.go:222-225).
PaymentsNeedFaults == \A r \in Requests : broadcasts[r] <= 1 + faults

\* With one worker, no transaction is sent for a record while Redis holds the
\* id of an earlier one: between the read of the checkpoint and Send nothing
\* stores one (withdraw_service.go:268-296).
NoSendOverCheckpoint ==
    [][\A r \in Requests :
        broadcasts[r]' # broadcasts[r] => checkpoint[r] = 0]_vars

\* An event the handler acknowledged is settled: its record succeeded, or
\* was corrected by hand.  This covers the silent return when the checkpoint
\* failed and the ignored row count of finalizeFromCache
\* (withdraw_service.go:314, 351).
AckedIsSettled ==
    \A e \in acked : status[log[e[1]][e[2]]] \in {"success", "corrected"}

\* An event that can never be handled: one whose row was never committed, or
\* one that asks the node to send nothing.
Stuck(r) ==
    /\ Published(r)
    /\ \/ status[r] = "absent"
       \/ req[r].unit = BTC /\ arrivedAmount(r) = 0

DeadLettered(r) == \E e \in deadLetters : log[e[1]][e[2]] = r

\* withdraw_service.go:163, 224: the checkpoint keeps a transaction from
\* being broadcast again.
NeverPaidTwice == \A r \in Requests : broadcasts[r] <= 1

\* withdraw_consumer.go:70-73: an error no retry can cure is not retried, so
\* that it does not block the consumer: every committed record's event is
\* handled in the end, when every published event gets its row.
NoPoisonIsRetried ==
    (\A r \in Requests : [](Published(r) => <>(status[r] # "absent")))
        => \A p \in Partitions : \A i \in 1..MaxEvents :
              Len(log[p]) >= i ~> <<p, i>> \in K!Handled
=============================================================================
