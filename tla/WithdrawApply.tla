---------------------------- MODULE WithdrawApply ----------------------------
(***************************************************************************)
(* The write side of a withdrawal in ucenter-rpc: WithdrawService.SendCode *)
(* and WithdrawService.Apply with the MySQL transaction it runs, the       *)
(* wallet row it locks and the Kafka event it publishes BEFORE the         *)
(* transaction commits.                                                    *)
(*                                                                         *)
(* A request is one RPC call; many run at once.  A request creates at most *)
(* one withdraw_record row, so the request is also the record's id.  The   *)
(* rows a transaction has written and not committed are seen by nobody     *)
(* else: they are implied by pc[r], and balance, frozen and status hold    *)
(* the committed rows.  Amounts are integers, in units of 1e-10 coin, the  *)
(* precision floorFloat keeps.                                             *)
(***************************************************************************)
EXTENDS Integers, Sequences, FiniteSets, Functions

CONSTANTS
    Requests,      \* the Apply calls, and the ids of the records they insert
    Members,
    Units,         \* coin units
    Codes,         \* withdrawal verification codes
    Amounts,       \* values of WithdrawReq.Amount
    Fees,          \* values of WithdrawReq.Fee
    Opening,       \* opening balance of every wallet
    Partitions,    \* of the topic "withdraw"
    MaxFaults,     \* bound on the faults of a behaviour
    NoCode,        \* no code is cached for the member
    NoRequest,     \* nobody holds the row lock
    NoInput        \* the request has not arrived

ASSUME AmountsAssumption ==
    /\ Amounts \subseteq Int
    /\ Fees \subseteq Int
    /\ Opening \in Nat
    /\ MaxFaults \in Nat
    /\ NoRequest \notin Requests
    /\ NoCode \notin Codes

Wallets == Members \X Units

Inputs == [member: Members, unit: Units, amount: Amounts, fee: Fees,
           code: Codes]

\* Steps of Apply, in the order the code runs them.
Steps == {"idle", "authenticate", "lock", "freeze", "save", "publish",
          "commit", "accepted", "rejected"}

VARIABLES
    pc,        \* pc[r]: the step request r is about to run
    req,       \* req[r]: the WithdrawReq of r
    code,      \* code[m]: Redis, WITHDRAW::<phone of m>
    balance,   \* balance[w]: member_wallet.balance, committed
    frozen,    \* frozen[w]: member_wallet.frozen_balance, committed
    lock,      \* lock[w]: the request whose transaction has w's row lock
    status,    \* status[r]: withdraw_record.status, or "absent"
    log,       \* log[p]: the events of partition p, oldest first
    faults     \* faults so far

rows == <<balance, frozen, status>>
vars == <<pc, req, code, balance, frozen, lock, status, log, faults>>

-----------------------------------------------------------------------------
(* Reading the state. *)

walletOf(r) == <<req[r].member, req[r].unit>>

\* The transaction of r is open and has found its amount in the wallet.
CheckedBalance(r) == pc[r] \in {"freeze", "save", "publish", "commit"}

Published(r) == \E p \in Partitions : \E i \in DOMAIN log[p] : log[p][i] = r

Finished(r) == pc[r] \in {"accepted", "rejected"}

Step(r, to) == pc' = [pc EXCEPT ![r] = to]

-----------------------------------------------------------------------------
(* Variants with one bug each, which show that a property of this module can *)
(* fail; the specification does not use them.                               *)

\* A SELECT without FOR UPDATE: no wait, no lock.
LockWalletPlainSelect(r) ==
    /\ pc[r] = "lock"
    /\ balance[walletOf(r)] >= req[r].amount
    /\ Step(r, "freeze")
    /\ UNCHANGED <<req, code, lock, rows, log, faults>>

\* An early return of the callback that skips the deferred rollback.
InsufficientBalanceKeepsLock(r) ==
    /\ pc[r] = "lock"
    /\ lock[walletOf(r)] = NoRequest
    /\ balance[walletOf(r)] < req[r].amount
    /\ lock' = [lock EXCEPT ![walletOf(r)] = r]
    /\ Step(r, "rejected")
    /\ UNCHANGED <<req, code, rows, log, faults>>

\* An INSERT on the connection pool instead of the transaction.
SaveRecordAutocommit(r) ==
    /\ pc[r] = "save"
    /\ status' = [status EXCEPT ![r] = "processing"]
    /\ Step(r, "publish")
    /\ UNCHANGED <<req, code, balance, frozen, lock, log, faults>>

\* An asynchronous writer (Sync: false), which answers before the broker.
PublishAsync(r, p) ==
    /\ pc[r] = "publish"
    /\ \/ log' = [log EXCEPT ![p] = Append(@, r)]
       \/ UNCHANGED log
    /\ Step(r, "commit")
    /\ UNCHANGED <<req, code, rows, lock, faults>>

\* A new record that starts out as Success.
CommitRowsWrongStatus(r) ==
    /\ balance' = [balance EXCEPT ![walletOf(r)] = @ - req[r].amount]
    /\ frozen' = [frozen EXCEPT ![walletOf(r)] = @ + req[r].amount]
    /\ status' = [status EXCEPT ![r] = "success"]
    /\ lock' = [w \in Wallets |-> IF lock[w] = r THEN NoRequest ELSE lock[w]]

-----------------------------------------------------------------------------
(* The steps of a transaction. *)

Release(r) ==
    lock' = [w \in Wallets |-> IF lock[w] = r THEN NoRequest ELSE lock[w]]

-----------------------------------------------------------------------------
(* SendCode: a fresh code replaces the cached one; its TTL is five minutes. *)

SendCode(m, c) ==
    /\ code' = [code EXCEPT ![m] = c]
    /\ UNCHANGED <<pc, req, rows, lock, log, faults>>

ExpireCode(m) ==
    /\ code[m] # NoCode
    /\ code' = [code EXCEPT ![m] = NoCode]
    /\ UNCHANGED <<pc, req, rows, lock, log, faults>>

-----------------------------------------------------------------------------
(* Apply. *)

validateWithdrawApplyRequest(in) ==
    /\ in.amount > 0
    /\ in.fee >= 0
    /\ in.fee <= in.amount

Receive(r, in) ==
    /\ pc[r] = "idle"
    /\ IF validateWithdrawApplyRequest(in)
       THEN req' = [req EXCEPT ![r] = in] /\ Step(r, "authenticate")
       ELSE UNCHANGED req /\ Step(r, "rejected")
    /\ UNCHANGED <<code, rows, lock, log, faults>>

\* The cached code is compared and stays cached.
Authenticate(r) ==
    /\ pc[r] = "authenticate"
    /\ code[req[r].member] = req[r].code
    /\ Step(r, "lock")
    /\ UNCHANGED <<req, code, rows, lock, log, faults>>

\* No code, another code, a wrong transaction password, no such member, no
\* phone, or Redis or MySQL failing: the request ends before a transaction.
RejectAuthentication(r) ==
    /\ pc[r] = "authenticate"
    /\ Step(r, "rejected")
    /\ UNCHANGED <<req, code, rows, lock, log, faults>>

\* SELECT ... FOR UPDATE waits for the row lock and reads the last committed
\* balance.
LockWallet(r) ==
    /\ pc[r] = "lock"
    /\ lock[walletOf(r)] = NoRequest
    /\ balance[walletOf(r)] >= req[r].amount
    /\ lock' = [lock EXCEPT ![walletOf(r)] = r]
    /\ Step(r, "freeze")
    /\ UNCHANGED <<req, code, rows, log, faults>>

\* The balance read under the lock is too small: the callback returns an
\* error and the rollback gives the lock back.
InsufficientBalance(r) ==
    /\ pc[r] = "lock"
    /\ lock[walletOf(r)] = NoRequest
    /\ balance[walletOf(r)] < req[r].amount
    /\ Step(r, "rejected")
    /\ UNCHANGED <<req, code, rows, lock, log, faults>>

\* UPDATE member_wallet takes the row lock too when its transaction has not
\* got it yet.
FreezeBalance(r) ==
    /\ pc[r] = "freeze"
    /\ lock[walletOf(r)] \in {r, NoRequest}
    /\ lock' = [lock EXCEPT ![walletOf(r)] = r]
    /\ Step(r, "save")
    /\ UNCHANGED <<req, code, rows, log, faults>>

\* INSERT INTO withdraw_record, status Processing.
SaveRecord(r) ==
    /\ pc[r] = "save"
    /\ Step(r, "publish")
    /\ UNCHANGED <<req, code, rows, lock, log, faults>>

\* WriteMessages hands the event to some partition: the writer balances by
\* LeastBytes, which does not look at the key.  A second copy is a fault.
AppendEvent(r, p) ==
    /\ pc[r] = "publish"
    /\ log' = [log EXCEPT ![p] = Append(@, r)]
    /\ IF Published(r) THEN faults < MaxFaults /\ faults' = faults + 1
                       ELSE UNCHANGED faults
    /\ UNCHANGED <<req, code, rows, lock>>

\* PushWithKey, acknowledged.
Publish(r, p) == AppendEvent(r, p) /\ Step(r, "commit")

\* The broker stored the event and its answer is lost: the writer tries
\* again, or (Rollback) gives up.
PublishUnanswered(r, p) == AppendEvent(r, p) /\ UNCHANGED pc

\* What COMMIT makes visible: the frozen amount and the record.
CommitRows(r) ==
    /\ balance' = [balance EXCEPT ![walletOf(r)] = @ - req[r].amount]
    /\ frozen' = [frozen EXCEPT ![walletOf(r)] = @ + req[r].amount]
    /\ status' = [status EXCEPT ![r] = "processing"]
    /\ Release(r)

Commit(r) ==
    /\ pc[r] = "commit"
    /\ CommitRows(r)
    /\ Step(r, "accepted")
    /\ UNCHANGED <<req, code, log, faults>>

\* MySQL committed and the answer is lost: WithinTx returns an error, its
\* deferred Rollback finds nothing to undo, and the caller is told the
\* request failed.
CommitUnanswered(r) ==
    /\ pc[r] = "commit"
    /\ CommitRows(r)
    /\ Step(r, "rejected")
    /\ UNCHANGED <<req, code, log, faults>>

\* A statement, the publication or the COMMIT failed, the call's deadline
\* passed, or the process died: MySQL rolls the transaction back.
Rollback(r) ==
    /\ pc[r] \in {"lock", "freeze", "save", "publish", "commit"}
    /\ Release(r)
    /\ Step(r, "rejected")
    /\ UNCHANGED <<req, code, rows, log, faults>>

-----------------------------------------------------------------------------

Init ==
    /\ pc = [r \in Requests |-> "idle"]
    /\ req = [r \in Requests |-> NoInput]
    /\ code = [m \in Members |-> NoCode]
    /\ balance = [w \in Wallets |-> Opening]
    /\ frozen = [w \in Wallets |-> 0]
    /\ lock = [w \in Wallets |-> NoRequest]
    /\ status = [r \in Requests |-> "absent"]
    /\ log = [p \in Partitions |-> <<>>]
    /\ faults = 0

Transaction(r) ==
    \/ LockWallet(r) \/ InsufficientBalance(r)
    \/ FreezeBalance(r) \/ SaveRecord(r)
    \/ \E p \in Partitions : Publish(r, p) \/ PublishUnanswered(r, p)
    \/ Commit(r) \/ CommitUnanswered(r) \/ Rollback(r)

Next ==
    \/ \E m \in Members : (\E c \in Codes : SendCode(m, c)) \/ ExpireCode(m)
    \/ \E r \in Requests :
        \/ \E in \in Inputs : Receive(r, in)
        \/ Authenticate(r) \/ RejectAuthentication(r)
        \/ Transaction(r)

Spec == Init /\ [][Next]_vars

\* Once received, a request runs on by itself, a writer that gets no answer
\* gives up after its attempts, and InnoDB serves the waiters of a row lock in
\* turn.  Nothing makes callers send codes or requests.
Progress(r) ==
    \/ Authenticate(r) \/ RejectAuthentication(r)
    \/ FreezeBalance(r) \/ SaveRecord(r)
    \/ \E p \in Partitions : Publish(r, p)
    \/ pc[r] = "publish" /\ Published(r) /\ Rollback(r)
    \/ Commit(r)

Fairness ==
    \A r \in Requests :
        /\ WF_vars(Progress(r))
        /\ SF_vars(LockWallet(r) \/ InsufficientBalance(r))

FairSpec == Spec /\ Fairness

-----------------------------------------------------------------------------
(* Properties. *)

TypeOK ==
    /\ pc \in [Requests -> Steps]
    /\ req \in [Requests -> Inputs \cup {NoInput}]
    /\ code \in [Members -> Codes \cup {NoCode}]
    /\ balance \in [Wallets -> Int]
    /\ frozen \in [Wallets -> Int]
    /\ lock \in [Wallets -> Requests \cup {NoRequest}]
    /\ status \in [Requests -> {"absent", "processing"}]
    /\ log \in [Partitions -> Seq(Requests)]
    /\ faults \in 0..MaxFaults

\* However concurrent withdrawals of a wallet interleave, its balance never
\* goes below zero: the balance each one compared its amount with is still
\* there when it commits (withdraw_service.go:252-271, FOR UPDATE).
NoOverdraft == \A w \in Wallets : balance[w] >= 0

\* Money only moves from the balance to the frozen balance, and what is
\* frozen is exactly what the committed records ask for: the freeze and the
\* record commit or roll back together (wallet_repository.go:154-156).
Committed(w) == {r \in Requests : status[r] # "absent" /\ walletOf(r) = w}

AmountOf(S) == SumFunction([r \in S |-> req[r].amount])

FrozenMatchesRecords ==
    \A w \in Wallets :
        /\ balance[w] + frozen[w] = Opening
        /\ frozen[w] = AmountOf(Committed(w))

\* A committed record has its event in the topic, whatever failed and
\* whenever the process died: no accepted withdrawal is left without a
\* message that will pay it out (publication before commit,
\* withdraw_service.go:284-291).
CommittedIsPublished ==
    \A r \in Requests : status[r] # "absent" => Published(r)

\* An open transaction that found its amount in the wallet still has the row
\* lock, through every other request's waiting, rollback and commit: at most
\* one at a time counts on the same balance (withdraw_service.go:254-255).
CheckedIsLocked ==
    \A r \in Requests : CheckedBalance(r) => lock[walletOf(r)] = r

\* A request that arrived is answered, and so no row lock is kept for ever,
\* whatever step of the transaction fails.
EveryRequestAnswered ==
    \A r \in Requests : pc[r] # "idle" ~> Finished(r)
=============================================================================
