--------------------------- MODULE WithdrawPipeline ---------------------------
(***************************************************************************)
(* The whole withdrawal: WithdrawApply in ucenter-rpc and WithdrawPayout   *)
(* in jobcenter, which meet in the Kafka topic (log), in the               *)
(* withdraw_record table they both open (status; req stands for the        *)
(* columns written once), and in nothing else.  The real WithdrawApply     *)
(* (INSTANCE A) takes the place of WithdrawPayout's own environment.       *)
(***************************************************************************)
EXTENDS WithdrawPayout

CONSTANTS
    Opening, NoCode, NoRequest    \* of WithdrawApply

\* MaxEvents, which WithdrawPayout needs for its open environment, is no bound
\* here: a request publishes once, and once more for a fault.
ASSUME PipelineAssumption ==
    /\ NoInput \notin [member: Members, unit: Units, amount: Amounts,
                       fee: Fees, code: Codes]
    /\ IsFiniteSet(Requests)
    /\ Cardinality(Requests) + MaxFaults <= MaxEvents
    /\ MaxEvents \in Nat

VARIABLES pc, code, balance, frozen, lock

A == INSTANCE WithdrawApply

\* What only one of the two services uses.
applyOnly == <<pc, code, balance, frozen, lock>>
payoutOnly == <<consumerVars, txid, checkpoint, broadcasts, handlerVars>>

pipelineVars == <<vars, applyOnly>>

PipelineInit == A!Init /\ PayoutInit

PipelineNext ==
    \/ A!Next /\ UNCHANGED payoutOnly
    \/ PayoutNext /\ UNCHANGED applyOnly

PipelineSpec == PipelineInit /\ [][PipelineNext]_pipelineVars

\* The fairness of the two services.
PipelineFairness ==
    /\ \A r \in Requests :
        /\ WF_pipelineVars(A!Progress(r) /\ UNCHANGED payoutOnly)
        /\ SF_pipelineVars(/\ A!LockWallet(r) \/ A!InsufficientBalance(r)
                           /\ UNCHANGED payoutOnly)
    /\ \A w \in Workers :
        /\ WF_pipelineVars(ProcessApplied(w) /\ UNCHANGED <<log, applyOnly>>)
        /\ WF_pipelineVars(/\ K!Consume(w) \/ K!Restart(w)
                               \/ \E p \in Partitions : K!Join(p, w)
                           /\ UNCHANGED <<req, payoutVars, applyOnly>>)

PipelineFairSpec == PipelineSpec /\ PipelineFairness

-----------------------------------------------------------------------------
(* Properties; ImplementsLifecycle and NoSendOverCheckpoint are those of     *)
(* WithdrawPayout.                                                           *)

\* What WithdrawPayout assumes of its environment is what WithdrawApply does:
\* rows after events, events without rows, second copies only for faults.
\* And what the pay-out does to the records is all that happens to them.
ImplementsPayout == Spec

Wallets == Members \X Units

\* The withdrawals from wallet w that the node was asked to pay.
Paid(w) == {r \in Requests : broadcasts[r] > 0 /\ A!walletOf(r) = w}

\* Nothing leaves the hot wallet that is not frozen in ucenter: the amounts
\* of the withdrawals the node was asked to pay are frozen in the wallets
\* they come from.
PaidIsFrozen == \A w \in Wallets : A!AmountOf(Paid(w)) <= frozen[w]

\* A withdrawal whose caller was told it is accepted, or whose row committed
\* though the caller was not told, is settled or dead-lettered in the end,
\* unless an event whose row will never come, or that asks to send nothing,
\* stands before it.
AcceptedSettles ==
    \A r \in Requests :
        pc[r] = "accepted" \/ status[r] = "processing" ~>
            \/ status[r] \in {"success", "corrected"}
            \/ DeadLettered(r)
            \/ \E q \in Requests : Stuck(q)
=============================================================================
