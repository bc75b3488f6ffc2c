------------------------- MODULE WithdrawApplyProofs -------------------------
(***************************************************************************)
(* Theorems about WithdrawApply, for any requests, members, amounts,       *)
(* partitions and bound on the faults.                                     *)
(*                                                                         *)
(* The argument: an open transaction that found its amount in the wallet   *)
(* holds the wallet's row lock, so nobody else changes that balance before *)
(* it commits (CheckedIsCovered); it reaches the commit only with its      *)
(* event in the topic (CommittingIsPublished); and a commit adds one       *)
(* record to those of its wallet and its amount to what is frozen there,   *)
(* which is therefore the sum over the records (SumProofs).                *)
(***************************************************************************)
EXTENDS WithdrawApply, SumProofs, TLAPS

\* A request past its validation has an input.
HasInput(r) == pc[r] \notin {"idle", "rejected"} => req[r] \in Inputs

InputsKnown == \A r \in Requests : HasInput(r)

TypeInv == TypeOK /\ InputsKnown

CheckedIsCovered ==
    \A r \in Requests :
        CheckedBalance(r) => /\ lock[walletOf(r)] = r
                             /\ req[r].amount <= balance[walletOf(r)]

MoneyInv == TypeInv /\ CheckedIsCovered /\ NoOverdraft

CommittingIsPublished ==
    \A r \in Requests : pc[r] = "commit" \/ status[r] # "absent" => Published(r)

TopicInv == TypeInv /\ CommittingIsPublished

-----------------------------------------------------------------------------
(* Types. *)

\* The wallet a request debits is one of the table.
LEMMA WalletOfInput ==
    ASSUME NEW r \in Requests, req[r] \in Inputs
    PROVE  walletOf(r) \in Wallets /\ req[r].amount \in Int
  BY AmountsAssumption DEF walletOf, Wallets, Inputs

\* The types hold at the start.
LEMMA TypeInit == Init => TypeInv
  BY AmountsAssumption DEF Init, TypeInv, TypeOK, InputsKnown, HasInput, Steps

\* One step of the specification keeps every variable in its type.
LEMMA TypeStep == TypeInv /\ [Next]_vars => TypeInv'
  <1> SUFFICES ASSUME TypeInv, [Next]_vars PROVE TypeInv'
    OBVIOUS
  <1> USE AmountsAssumption DEF TypeInv, TypeOK, InputsKnown, HasInput, Steps
  <1>1. ASSUME NEW m \in Members, NEW c \in Codes, SendCode(m, c)
        PROVE  TypeInv'
    BY <1>1 DEF SendCode, rows
  <1>2. ASSUME NEW m \in Members, ExpireCode(m) PROVE TypeInv'
    BY <1>2 DEF ExpireCode, rows
  <1>3. ASSUME NEW r \in Requests, NEW in \in Inputs, Receive(r, in)
        PROVE  TypeInv'
    BY <1>3 DEF Receive, Step, rows
  <1>4. ASSUME NEW r \in Requests, Authenticate(r) \/ RejectAuthentication(r)
        PROVE  TypeInv'
    BY <1>4 DEF Authenticate, RejectAuthentication, Step, rows
  <1>5. ASSUME NEW r \in Requests, LockWallet(r) \/ FreezeBalance(r)
        PROVE  TypeInv'
    BY <1>5 DEF LockWallet, FreezeBalance, Step, rows
  <1>6. ASSUME NEW r \in Requests, InsufficientBalance(r) \/ SaveRecord(r)
        PROVE  TypeInv'
    BY <1>6 DEF InsufficientBalance, SaveRecord, Step, rows
  <1>7. ASSUME NEW r \in Requests, NEW p \in Partitions,
               Publish(r, p) \/ PublishUnanswered(r, p)
        PROVE  TypeInv'
    <2>1. AppendEvent(r, p)
      BY <1>7 DEF Publish, PublishUnanswered
    <2>2. log' \in [Partitions -> Seq(Requests)]
      BY <2>1 DEF AppendEvent
    <2>3. faults' \in 0..MaxFaults
      BY <2>1 DEF AppendEvent
    <2> QED
      BY <1>7, <2>1, <2>2, <2>3
      DEF AppendEvent, Publish, PublishUnanswered, Step, rows
  <1>8. ASSUME NEW r \in Requests, Commit(r) \/ CommitUnanswered(r)
        PROVE  TypeInv'
    <2>1. /\ pc[r] = "commit" /\ CommitRows(r)
          /\ req[r].amount \in Int /\ walletOf(r) \in Wallets
      BY <1>8, WalletOfInput DEF Commit, CommitUnanswered
    <2>2. lock' \in [Wallets -> Requests \cup {NoRequest}]
      BY <2>1 DEF CommitRows, Release
    <2>3. balance' \in [Wallets -> Int] /\ frozen' \in [Wallets -> Int]
      BY <2>1 DEF CommitRows
    <2> QED
      BY <1>8, <2>1, <2>2, <2>3 DEF Commit, CommitUnanswered, CommitRows, Step
  <1>9. ASSUME NEW r \in Requests, Rollback(r) PROVE TypeInv'
    BY <1>9 DEF Rollback, Release, Step, rows
  <1>10. CASE UNCHANGED vars
    BY <1>10 DEF vars, Inputs
  <1> QED
    BY <1>1, <1>2, <1>3, <1>4, <1>5, <1>6, <1>7, <1>8, <1>9, <1>10
    DEF Next, Transaction

\* Every variable keeps its type: the type invariant of withdrawal requests.
THEOREM TypeCorrect == Spec => []TypeOK
  <1>1. TypeInv => TypeOK
    BY DEF TypeInv
  <1> QED
    BY <1>1, TypeInit, TypeStep, PTL DEF Spec

-----------------------------------------------------------------------------
(* The row lock and the balance. *)

\* At the start nobody counts on a balance, and no wallet is overdrawn.
LEMMA MoneyInit == Init => MoneyInv
  BY TypeInit, AmountsAssumption
  DEF Init, MoneyInv, CheckedIsCovered, CheckedBalance, NoOverdraft

\* Steps that leave the wallet rows and the row locks alone, of requests that
\* do not begin to count on a balance by them.
LEMMA MoneyUntouched ==
    ASSUME MoneyInv, TypeInv', UNCHANGED <<balance, lock>>,
           \A r \in Requests : CheckedBalance(r)' =>
               CheckedBalance(r) /\ req'[r] = req[r]
    PROVE  MoneyInv'
  BY DEF MoneyInv, CheckedIsCovered, NoOverdraft, walletOf

\* The balance of a wallet is changed only by a request that holds its row
\* lock, and a row lock is taken only while nobody holds it.
LEMMA MoneyStep == MoneyInv /\ [Next]_vars => MoneyInv'
  <1> SUFFICES ASSUME MoneyInv, [Next]_vars PROVE MoneyInv'
    OBVIOUS
  <1> USE DEF MoneyInv
  <1>t. TypeInv'
    BY TypeStep
  <1>w. \A r \in Requests : pc[r] \notin {"idle", "rejected"} =>
            walletOf(r) \in Wallets /\ req[r].amount \in Int
    BY WalletOfInput DEF TypeInv, InputsKnown, HasInput
  <1>1. ASSUME NEW m \in Members, NEW c \in Codes, SendCode(m, c)
        PROVE  MoneyInv'
    BY <1>1, <1>t, MoneyUntouched DEF SendCode, rows, CheckedBalance
  <1>2. ASSUME NEW m \in Members, ExpireCode(m) PROVE MoneyInv'
    BY <1>2, <1>t, MoneyUntouched DEF ExpireCode, rows, CheckedBalance
  <1>3. ASSUME NEW r \in Requests, NEW in \in Inputs, Receive(r, in)
        PROVE  MoneyInv'
    BY <1>3, <1>t, MoneyUntouched
    DEF Receive, Step, rows, CheckedBalance, TypeInv, TypeOK
  <1>4. ASSUME NEW r \in Requests, Authenticate(r) \/ RejectAuthentication(r)
        PROVE  MoneyInv'
    BY <1>4, <1>t, MoneyUntouched
    DEF Authenticate, RejectAuthentication, Step, rows, CheckedBalance,
        TypeInv, TypeOK
  <1>5. ASSUME NEW r \in Requests, InsufficientBalance(r) \/ SaveRecord(r)
        PROVE  MoneyInv'
    BY <1>5, <1>t, MoneyUntouched
    DEF InsufficientBalance, SaveRecord, Step, rows, CheckedBalance,
        TypeInv, TypeOK
  <1>6. ASSUME NEW r \in Requests, NEW p \in Partitions,
               Publish(r, p) \/ PublishUnanswered(r, p)
        PROVE  MoneyInv'
    BY <1>6, <1>t, MoneyUntouched
    DEF Publish, PublishUnanswered, AppendEvent, Step, rows, CheckedBalance,
        TypeInv, TypeOK
  <1>7. ASSUME NEW r \in Requests, LockWallet(r) PROVE MoneyInv'
    <2> DEFINE w == walletOf(r)
    <2>1. w \in Wallets /\ lock[w] = NoRequest /\ req[r].amount <= balance[w]
      BY <1>7, <1>w DEF LockWallet, TypeInv, TypeOK
    <2>2. /\ pc' = [pc EXCEPT ![r] = "freeze"]
          /\ lock' = [lock EXCEPT ![w] = r]
          /\ UNCHANGED <<req, balance>>
      BY <1>7 DEF LockWallet, Step, rows
    <2>3. ASSUME NEW q \in Requests, CheckedBalance(q)'
          PROVE  /\ lock'[walletOf(q)'] = q
                 /\ req'[q].amount <= balance'[walletOf(q)']
      <3>1. CASE q = r
        BY <2>1, <2>2, <3>1 DEF walletOf, TypeInv, TypeOK
      <3>2. CASE q # r
        <4>1. CheckedBalance(q)
          BY <2>2, <2>3, <3>2 DEF CheckedBalance, TypeInv, TypeOK
        <4>2. lock[walletOf(q)] = q /\ walletOf(q) # w
          BY <4>1, <2>1, AmountsAssumption DEF CheckedIsCovered
        <4> QED
          BY <2>2, <4>1, <4>2 DEF CheckedIsCovered, walletOf, TypeInv, TypeOK
      <3> QED
        BY <3>1, <3>2
    <2> QED
      BY <1>t, <2>2, <2>3 DEF CheckedIsCovered, NoOverdraft
  <1>8. ASSUME NEW r \in Requests, FreezeBalance(r) PROVE MoneyInv'
    <2>1. lock[walletOf(r)] = r
      BY <1>8 DEF FreezeBalance, CheckedBalance, CheckedIsCovered
    <2>2. UNCHANGED <<lock, balance, req>>
      BY <1>8, <2>1 DEF FreezeBalance, rows, TypeInv, TypeOK
    <2>3. \A q \in Requests : CheckedBalance(q)' => CheckedBalance(q)
      BY <1>8 DEF FreezeBalance, Step, CheckedBalance, TypeInv, TypeOK
    <2> QED
      BY <1>t, <2>2, <2>3, MoneyUntouched
  <1>9. ASSUME NEW r \in Requests, Commit(r) \/ CommitUnanswered(r)
        PROVE  MoneyInv'
    <2> DEFINE w == walletOf(r)
    <2>1. /\ lock[w] = r /\ req[r].amount <= balance[w]
          /\ w \in Wallets /\ req[r].amount \in Int
      BY <1>9, <1>w
      DEF Commit, CommitUnanswered, CheckedBalance, CheckedIsCovered
    <2>2. /\ balance' = [balance EXCEPT ![w] = @ - req[r].amount]
          /\ lock' = [v \in Wallets |-> IF lock[v] = r THEN NoRequest ELSE lock[v]]
          /\ UNCHANGED req
          /\ \/ pc' = [pc EXCEPT ![r] = "accepted"]
             \/ pc' = [pc EXCEPT ![r] = "rejected"]
      BY <1>9 DEF Commit, CommitUnanswered, CommitRows, Release, Step
    <2>3. NoOverdraft'
      BY <2>1, <2>2 DEF NoOverdraft, TypeInv, TypeOK
    <2>4. ASSUME NEW q \in Requests, CheckedBalance(q)'
          PROVE  /\ lock'[walletOf(q)'] = q
                 /\ req'[q].amount <= balance'[walletOf(q)']
      <3>1. q # r /\ CheckedBalance(q)
        BY <2>2, <2>4 DEF CheckedBalance, TypeInv, TypeOK
      <3>2. /\ walletOf(q) \in Wallets
            /\ lock[walletOf(q)] = q
            /\ req[q].amount <= balance[walletOf(q)]
        BY <1>w, <3>1 DEF CheckedBalance, CheckedIsCovered
      <3>3. walletOf(q) # w
        BY <2>1, <3>1, <3>2
      <3> QED
        BY <2>2, <3>1, <3>2, <3>3 DEF walletOf, TypeInv, TypeOK
    <2> QED
      BY <1>t, <2>3, <2>4 DEF CheckedIsCovered
  <1>10. ASSUME NEW r \in Requests, Rollback(r) PROVE MoneyInv'
    <2>1. /\ lock' = [v \in Wallets |-> IF lock[v] = r THEN NoRequest ELSE lock[v]]
          /\ pc' = [pc EXCEPT ![r] = "rejected"]
          /\ UNCHANGED <<req, balance>>
      BY <1>10 DEF Rollback, Release, Step, rows
    <2>2. ASSUME NEW q \in Requests, CheckedBalance(q)'
          PROVE  /\ lock'[walletOf(q)'] = q
                 /\ req'[q].amount <= balance'[walletOf(q)']
      <3>1. q # r /\ CheckedBalance(q)
        BY <2>1, <2>2 DEF CheckedBalance, TypeInv, TypeOK
      <3> QED
        BY <1>w, <2>1, <3>1
        DEF CheckedBalance, CheckedIsCovered, walletOf, TypeInv, TypeOK
    <2> QED
      BY <1>t, <2>1, <2>2 DEF CheckedIsCovered, NoOverdraft
  <1>11. CASE UNCHANGED vars
    BY <1>11, <1>t, MoneyUntouched DEF vars, CheckedBalance
  <1> QED
    BY <1>1, <1>2, <1>3, <1>4, <1>5, <1>6, <1>7, <1>8, <1>9, <1>10, <1>11
    DEF Next, Transaction

\* No wallet is overdrawn, however many withdrawals of it run at once.
THEOREM NeverOverdrawn == Spec => []NoOverdraft
  <1>1. MoneyInv => NoOverdraft
    BY DEF MoneyInv
  <1> QED
    BY <1>1, MoneyInit, MoneyStep, PTL DEF Spec

\* A request that counts on a balance has the wallet's row lock.
THEOREM CheckedLocked == Spec => []CheckedIsLocked
  <1>1. MoneyInv => CheckedIsLocked
    BY DEF MoneyInv, CheckedIsCovered, CheckedIsLocked
  <1> QED
    BY <1>1, MoneyInit, MoneyStep, PTL DEF Spec

-----------------------------------------------------------------------------
(* The event and the record. *)

\* At the start the topic is empty.
LEMMA TopicInit == Init => TopicInv
  BY TypeInit DEF Init, TopicInv, CommittingIsPublished

\* An event that is in the topic stays there.
LEMMA AppendPublishes ==
    ASSUME TypeOK, NEW r \in Requests, NEW p \in Partitions,
           log' = [log EXCEPT ![p] = Append(@, r)]
    PROVE  /\ Published(r)'
           /\ \A q \in Requests : Published(q) => Published(q)'
  <1>1. log \in [Partitions -> Seq(Requests)]
    BY DEF TypeOK
  <1>2. Len(log[p]) + 1 \in DOMAIN log'[p] /\ log'[p][Len(log[p]) + 1] = r
    BY <1>1
  <1>3. \A s \in Partitions : \A i \in DOMAIN log[s] :
            i \in DOMAIN log'[s] /\ log'[s][i] = log[s][i]
    BY <1>1
  <1> QED
    BY <1>2, <1>3 DEF Published

\* No step commits a record whose event is not in the topic, or takes an event out.
LEMMA TopicStep == TopicInv /\ [Next]_vars => TopicInv'
  <1> SUFFICES ASSUME TopicInv, [Next]_vars PROVE TopicInv'
    OBVIOUS
  <1> USE DEF TopicInv
  <1>t. TypeInv'
    BY TypeStep
  <1>1. ASSUME NEW r \in Requests, NEW p \in Partitions,
               Publish(r, p) \/ PublishUnanswered(r, p)
        PROVE  TopicInv'
    <2>1. /\ log' = [log EXCEPT ![p] = Append(@, r)]
          /\ UNCHANGED status
          /\ UNCHANGED pc \/ pc' = [pc EXCEPT ![r] = "commit"]
      BY <1>1 DEF Publish, PublishUnanswered, AppendEvent, Step, rows
    <2>2. /\ Published(r)'
          /\ \A q \in Requests : Published(q) => Published(q)'
      BY <2>1, AppendPublishes DEF TypeInv
    <2> QED
      BY <1>t, <2>1, <2>2 DEF CommittingIsPublished, TypeInv, TypeOK
  <1>2. ASSUME NEW r \in Requests, Commit(r) \/ CommitUnanswered(r)
        PROVE  TopicInv'
    <2>1. /\ UNCHANGED log /\ pc[r] = "commit"
          /\ status' = [status EXCEPT ![r] = "processing"]
          /\ \/ pc' = [pc EXCEPT ![r] = "accepted"]
             \/ pc' = [pc EXCEPT ![r] = "rejected"]
      BY <1>2 DEF Commit, CommitUnanswered, CommitRows, Step
    <2> QED
      BY <1>t, <2>1 DEF CommittingIsPublished, Published, TypeInv, TypeOK
  <1>3. ASSUME UNCHANGED <<log, status>>,
               \A q \in Requests : pc'[q] = "commit" => pc[q] = "commit"
        PROVE  TopicInv'
    BY <1>t, <1>3 DEF CommittingIsPublished, Published
  <1>4. ASSUME NEW m \in Members,
               (\E c \in Codes : SendCode(m, c)) \/ ExpireCode(m)
        PROVE  TopicInv'
    BY <1>3, <1>4 DEF SendCode, ExpireCode, rows
  <1>5. ASSUME NEW r \in Requests,
               \/ \E in \in Inputs : Receive(r, in)
               \/ Authenticate(r) \/ RejectAuthentication(r)
               \/ LockWallet(r) \/ InsufficientBalance(r)
               \/ FreezeBalance(r) \/ SaveRecord(r) \/ Rollback(r)
        PROVE  TopicInv'
    BY <1>3, <1>5
    DEF Receive, Authenticate, RejectAuthentication, LockWallet,
        InsufficientBalance, FreezeBalance, SaveRecord, Rollback, Step, rows,
        TypeInv, TypeOK
  <1>6. CASE UNCHANGED vars
    BY <1>3, <1>6 DEF vars
  <1> QED
    BY <1>1, <1>2, <1>4, <1>5, <1>6 DEF Next, Transaction

\* No withdrawal is committed without the event that will pay it out.
THEOREM CommittedPublished == Spec => []CommittedIsPublished
  <1>1. TopicInv => CommittedIsPublished
    BY DEF TopicInv, CommittingIsPublished, CommittedIsPublished
  <1> QED
    BY <1>1, TopicInit, TopicStep, PTL DEF Spec

-----------------------------------------------------------------------------
(* The frozen balance and the records. *)

\* A request whose record committed was answered, and its input stays.
RecordedIsAnswered ==
    \A r \in Requests :
        status[r] # "absent" => /\ pc[r] \in {"accepted", "rejected"}
                                /\ req[r] \in Inputs

\* Few requests have committed, whatever their number: a sum over the records
\* of a wallet is a sum over a finite set.
Balanced(w) ==
    /\ IsFiniteSet(Committed(w))
    /\ balance[w] + frozen[w] = Opening
    /\ frozen[w] = AmountOf(Committed(w))

LedgerInv == TypeInv /\ RecordedIsAnswered /\ \A w \in Wallets : Balanced(w)

\* At the start nothing is frozen, and nothing is recorded.
LEMMA LedgerInit == Init => LedgerInv
  <1> SUFFICES ASSUME Init PROVE LedgerInv
    OBVIOUS
  <1>1. \A w \in Wallets : Committed(w) = {}
    BY DEF Init, Committed
  <1>2. AmountOf({}) = 0
    BY SumOfNone DEF AmountOf, SumFunction
  <1>3. ASSUME NEW w \in Wallets PROVE Balanced(w)
    <2>1. Opening \in Nat /\ balance[w] = Opening /\ frozen[w] = 0
      BY AmountsAssumption DEF Init
    <2> QED
      BY <1>1, <1>2, <2>1, FS_EmptySet DEF Balanced
  <1> QED
    BY <1>3, TypeInit DEF Init, LedgerInv, RecordedIsAnswered

\* Steps that leave the wallet rows, the records and the requests that have
\* one alone.
LEMMA LedgerUntouched ==
    ASSUME LedgerInv, TypeInv', UNCHANGED rows,
           \A r \in Requests :
               status[r] # "absent" => pc'[r] = pc[r] /\ req'[r] = req[r]
    PROVE  LedgerInv'
  <1>1. RecordedIsAnswered'
    BY DEF LedgerInv, RecordedIsAnswered, rows
  <1>2. ASSUME NEW w \in Wallets PROVE Balanced(w)'
    <2>1. Committed(w)' = Committed(w)
      BY DEF Committed, walletOf, rows
    <2>2. AmountOf(Committed(w))' = AmountOf(Committed(w))
      <3>1. [r \in Committed(w)' |-> req'[r].amount]
              = [r \in Committed(w) |-> req[r].amount]
        BY <2>1 DEF Committed
      <3> QED
        BY <3>1 DEF AmountOf
    <2> QED
      BY <2>1, <2>2 DEF LedgerInv, Balanced, rows
  <1> QED
    BY <1>1, <1>2 DEF LedgerInv

\* The freeze and the record commit together.
LEMMA LedgerCommit ==
    ASSUME LedgerInv, TypeInv', NEW r \in Requests,
           Commit(r) \/ CommitUnanswered(r)
    PROVE  LedgerInv'
  <1> DEFINE v == walletOf(r)
             a == req[r].amount
  <1>1. /\ pc[r] = "commit" /\ UNCHANGED req
        /\ balance' = [balance EXCEPT ![v] = @ - a]
        /\ frozen' = [frozen EXCEPT ![v] = @ + a]
        /\ status' = [status EXCEPT ![r] = "processing"]
        /\ \/ pc' = [pc EXCEPT ![r] = "accepted"]
           \/ pc' = [pc EXCEPT ![r] = "rejected"]
    BY DEF Commit, CommitUnanswered, CommitRows, Step
  <1>2. TypeOK /\ status[r] = "absent" /\ req[r] \in Inputs
    BY <1>1 DEF LedgerInv, TypeInv, InputsKnown, HasInput, RecordedIsAnswered
  <1>3. v \in Wallets /\ a \in Int
    BY <1>2, WalletOfInput
  <1>4. RecordedIsAnswered'
    BY <1>1, <1>2 DEF LedgerInv, RecordedIsAnswered, TypeOK
  <1>5. ASSUME NEW w \in Wallets, w # v PROVE Balanced(w)'
    <2>1. Committed(w)' = Committed(w)
      BY <1>1, <1>2, <1>5 DEF Committed, walletOf, TypeOK
    <2>2. balance'[w] = balance[w] /\ frozen'[w] = frozen[w]
      BY <1>1, <1>2, <1>5 DEF TypeOK
    <2>3. AmountOf(Committed(w))' = AmountOf(Committed(w))
      <3>1. [q \in Committed(w)' |-> req'[q].amount]
              = [q \in Committed(w) |-> req[q].amount]
        BY <1>1, <2>1
      <3> QED
        BY <3>1 DEF AmountOf
    <2> QED
      BY <2>1, <2>2, <2>3 DEF LedgerInv, Balanced
  <1>6. ASSUME NEW w \in Wallets, w = v PROVE Balanced(w)'
    <2> DEFINE C == Committed(w)
               D == C \cup {r}
               f == [q \in D |-> req[q].amount]
    <2>1. Committed(w)' = D
      BY <1>1, <1>2, <1>6 DEF Committed, walletOf, TypeOK
    <2>2. balance'[w] = balance[w] - a /\ frozen'[w] = frozen[w] + a
      BY <1>1, <1>2, <1>6 DEF TypeOK
    <2>3. /\ IsFiniteSet(C) /\ balance[w] + frozen[w] = Opening
          /\ frozen[w] = AmountOf(C)
          /\ balance[w] \in Int /\ frozen[w] \in Int
      BY <1>2 DEF LedgerInv, Balanced, TypeOK
    <2>4. r \notin C /\ \A q \in C : req[q].amount \in Int
      BY <1>2, WalletOfInput DEF Committed, LedgerInv, RecordedIsAnswered
    <2>5. SumFunctionOnSet(f, C) = AmountOf(C)
      <3>1. AmountOf(C) = SumFunctionOnSet([q \in C |-> req[q].amount], C)
        BY DEF AmountOf, SumFunction
      <3>2. \A q \in C : f[q] = [x \in C |-> req[x].amount][q]
        OBVIOUS
      <3> HIDE DEF f, C
      <3> QED
        BY <2>3, <3>1, <3>2, SumOfSame
    <2>6. SumFunctionOnSet(f, D) = SumFunctionOnSet(f, C) + a
      <3>1. \A q \in C : f[q] \in Int
        BY <2>4
      <3>2. f[r] = a
        OBVIOUS
      <3> HIDE DEF f, C, a
      <3> QED
        BY <1>3, <2>3, <2>4, <3>1, <3>2, SumOfMore
    <2>7. AmountOf(Committed(w))' = SumFunctionOnSet(f, D)
      <3>1. [q \in Committed(w)' |-> req'[q].amount] = f
        BY <1>1, <2>1
      <3> QED
        BY <3>1 DEF AmountOf, SumFunction
    <2>8. IsFiniteSet(Committed(w))'
      BY <2>1, <2>3, FS_AddElement
    <2> HIDE DEF C, D, f, a
    <2>9. /\ balance'[w] + frozen'[w] = Opening
          /\ frozen'[w] = AmountOf(Committed(w))'
      BY <1>3, <2>2, <2>3, <2>5, <2>6, <2>7
    <2> QED
      BY <2>8, <2>9 DEF Balanced
  <1> QED
    BY <1>4, <1>5, <1>6 DEF LedgerInv

\* Only a commit touches the wallet rows and the records.
LEMMA LedgerStep == LedgerInv /\ [Next]_vars => LedgerInv'
  <1> SUFFICES ASSUME LedgerInv, [Next]_vars PROVE LedgerInv'
    OBVIOUS
  <1>t. TypeInv' /\ TypeOK
    BY TypeStep DEF LedgerInv, TypeInv
  <1>a. \A r \in Requests :
            status[r] # "absent" => pc[r] \in {"accepted", "rejected"}
    BY DEF LedgerInv, RecordedIsAnswered
  <1>1. ASSUME NEW r \in Requests, Commit(r) \/ CommitUnanswered(r)
        PROVE  LedgerInv'
    BY <1>1, <1>t, LedgerCommit
  <1>2. ASSUME NEW m \in Members,
               (\E c \in Codes : SendCode(m, c)) \/ ExpireCode(m)
        PROVE  LedgerInv'
    BY <1>2, <1>t, LedgerUntouched DEF SendCode, ExpireCode
  <1>3. ASSUME NEW r \in Requests, NEW in \in Inputs, Receive(r, in)
        PROVE  LedgerInv'
    BY <1>3, <1>t, <1>a, LedgerUntouched DEF Receive, Step, TypeOK
  <1>4. ASSUME NEW r \in Requests,
               \/ Authenticate(r) \/ RejectAuthentication(r)
               \/ LockWallet(r) \/ InsufficientBalance(r)
               \/ FreezeBalance(r) \/ SaveRecord(r) \/ Rollback(r)
        PROVE  LedgerInv'
    <2>1. /\ UNCHANGED <<req, rows>>
          /\ pc[r] \notin {"accepted", "rejected"}
          /\ pc' = [pc EXCEPT ![r] = pc'[r]]
      BY <1>4, <1>t
      DEF Authenticate, RejectAuthentication, LockWallet, InsufficientBalance,
          FreezeBalance, SaveRecord, Rollback, Step, TypeOK
    <2> QED
      BY <1>t, <1>a, <2>1, LedgerUntouched DEF TypeOK
  <1>5. ASSUME NEW r \in Requests, NEW p \in Partitions,
               Publish(r, p) \/ PublishUnanswered(r, p)
        PROVE  LedgerInv'
    <2>1. /\ UNCHANGED <<req, rows>> /\ pc[r] = "publish"
          /\ UNCHANGED pc \/ pc' = [pc EXCEPT ![r] = "commit"]
      BY <1>5 DEF Publish, PublishUnanswered, AppendEvent, Step
    <2>2. \A q \in Requests :
              status[q] # "absent" => pc'[q] = pc[q] /\ req'[q] = req[q]
      BY <1>t, <1>a, <2>1 DEF TypeOK
    <2> QED
      BY <1>t, <2>1, <2>2, LedgerUntouched
  <1>6. CASE UNCHANGED vars
    BY <1>6, <1>t, LedgerUntouched DEF vars, rows
  <1> QED
    BY <1>1, <1>2, <1>3, <1>4, <1>5, <1>6 DEF Next, Transaction

\* Money only moves from a wallet's balance to its frozen balance, and the
\* frozen balance is the sum of the amounts of the wallet's records, however
\* many withdrawals commit and fail at once.
THEOREM FrozenIsRecorded == Spec => []FrozenMatchesRecords
  <1>1. LedgerInv => FrozenMatchesRecords
    BY DEF LedgerInv, Balanced, FrozenMatchesRecords
  <1> QED
    BY <1>1, LedgerInit, LedgerStep, PTL DEF Spec
=============================================================================
