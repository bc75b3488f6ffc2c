------------------------ MODULE WithdrawPipelineProofs ------------------------
(***************************************************************************)
(* Theorems about WithdrawPayout, for any requests, partitions, workers    *)
(* and bounds, and about WithdrawPipeline, which extends it.               *)
(*                                                                         *)
(* How often a withdrawal can be paid does not follow from the row and the *)
(* checkpoint: between their reads and the final update several workers    *)
(* may hold an event of the same record.  SourcesInv counts who can still  *)
(* pay it without a fault: each partition with an event of the record,     *)
(* through its owner, and each worker that lost its partition in the       *)
(* middle of such an event.  A payment uses its source up, and only a      *)
(* fault (a second copy of the event, a rebalance, a crash, a failed call) *)
(* gives rise to another.                                                  *)
(*                                                                         *)
(* The pipeline: every step of WithdrawApply is a step of the environment  *)
(* that WithdrawPayout assumes, or is none of its business; so the         *)
(* pipeline implements WithdrawPayout, and what was proved of that, its    *)
(* inductive invariant PayoutInv among it, holds in the pipeline.  What is *)
(* paid is then recorded, and what is recorded is frozen, by the sums of   *)
(* SumProofs.                                                              *)
(***************************************************************************)
EXTENDS WithdrawPipeline, SumProofs, FiniteSetTheorems, TLAPS

(***************************************************************************)
(* WithdrawPayout.                                                         *)
(***************************************************************************)

\* The types of the variables the consumer loop does not have; the bound of
\* the transaction ids comes with the payments.
PayoutTypes ==
    /\ status \in [Requests -> {"absent", "processing", "success", "corrected"}]
    /\ txid \in [Requests -> Nat]
    /\ checkpoint \in [Requests -> Nat]
    /\ broadcasts \in [Requests -> Nat]
    /\ step \in [Workers -> HandlerSteps]
    /\ sent \in [Workers -> Nat]
    /\ cacheFailed \in [Workers -> BOOLEAN]

TypeInv == K!TypeOK /\ PayoutTypes

\* An event of the log.
Stored(e) == e \in K!Events /\ e[2] <= Len(log[e[1]])

\* What the group knows of is in the log.
LogInv ==
    /\ \A p \in Partitions :
        position[p] <= Len(log[p]) /\ committed[p] <= Len(log[p])
    /\ \A w \in Workers : K!InHand(w) => Stored(current[w])
    /\ \A e \in acked : Stored(e)

\* A worker whose context is done is dead, and a handler that does not run
\* is at its beginning.
RunInv ==
    \A w \in Workers :
        /\ canceled[w] \/ closed[w] => loop[w] = "stopped"
        /\ loop[w] # "handle" => step[w] = "find"

ConsumerInv == TypeInv /\ LogInv /\ RunInv

\* The event in hand names a record.
LEMMA RecordType ==
    ASSUME ConsumerInv, NEW w \in Workers, K!InHand(w)
    PROVE  record(w) \in Requests
  <1>1. Stored(current[w])
    BY DEF ConsumerInv, LogInv
  <1> QED
    BY <1>1 DEF record, K!message, Stored, K!Events, ConsumerInv, TypeInv, K!TypeOK

\* The types and the facts about the log hold at the start.
LEMMA ConsumerInit == Init => ConsumerInv
  BY PayoutAssumption
  DEF Init, PayoutInit, K!ConsumerInit, ConsumerInv, TypeInv, LogInv, RunInv,
      K!TypeOK, K!InHand, K!Loops, PayoutTypes, HandlerSteps, Stored

-----------------------------------------------------------------------------
(* What the actions change, each fact stated once for the invariants below.  *)

\* The part of a step of the handler of w that is the loop's.
LoopEffect(w) ==
    /\ loop[w] = "handle"
    /\ UNCHANGED <<log, committed, owner, position, current, canceled, closed,
                   deadLetters, req>>
    /\ \A v \in Workers \ {w} :
        /\ loop'[v] = loop[v] /\ step'[v] = step[v]
        /\ sent'[v] = sent[v] /\ cacheFailed'[v] = cacheFailed[v]
    /\ faults' = faults \/ Fault
    /\ loop' \in [Workers -> K!Loops]
    /\ \/ loop' = loop
       \/ loop'[w] \in {"commit", "deadletter", "backoff"} /\ step'[w] = "find"
    /\ acked' \in {acked, acked \cup {current[w]}}
    /\ step' \in [Workers -> HandlerSteps]
    /\ sent' \in [Workers -> Nat]
    /\ cacheFailed' \in [Workers -> BOOLEAN]

\* The part that is written to MySQL, to Redis and to the chain.
RecordEffect(w) ==
    /\ \/ UNCHANGED recordVars
       \/ step[w] \in {"finalize", "mark"} /\ MarkSuccess(record(w), sent[w])
    /\ \/ UNCHANGED checkpoint
       \/ /\ step[w] = "store"
          /\ checkpoint' = [checkpoint EXCEPT ![record(w)] = sent[w]]
    /\ \/ UNCHANGED broadcasts
       \/ step[w] = "send" /\ NodeAccepts(record(w))

\* What a step of the handler does to the consumer loop.
LEMMA HandlerLoop ==
    ASSUME ConsumerInv, NEW w \in Workers, ProcessApplied(w), UNCHANGED log
    PROVE  LoopEffect(w)
  <1> USE DEF ConsumerInv, TypeInv, K!TypeOK, PayoutTypes, LoopEffect
  <1>1. ASSUME NEW action \in {"ack", "retry", "deadletter"}, Return(w, action),
               UNCHANGED req, faults' = faults \/ Fault
        PROVE  LoopEffect(w)
    BY <1>1
    DEF Return, K!HandlerReturns, K!Goto, K!groupVars, K!Loops, HandlerSteps
  <1>2. ASSUME NEW s \in HandlerSteps, Call(w, s), loop[w] = "handle",
               UNCHANGED req, faults' = faults \/ Fault,
               UNCHANGED sent \/ \E n \in Nat : sent' = [sent EXCEPT ![w] = n],
               \/ UNCHANGED cacheFailed
               \/ cacheFailed' = [cacheFailed EXCEPT ![w] = TRUE]
        PROVE  LoopEffect(w)
    BY <1>2 DEF Call, consumerVars
  <1> HIDE DEF LoopEffect
  <1>3. CASE RecordNotCommitted(w) \/ RecordSucceeded(w) \/ RecordUnsupported(w)
             \/ UnsupportedCoin(w) \/ SendRefused(w)
    BY <1>1, <1>3
    DEF RecordNotCommitted, RecordSucceeded, RecordUnsupported, UnsupportedCoin,
        SendRefused
  <1>4. CASE FinalizeFromCache(w) \/ MarkRecord(w)
    BY <1>1, <1>4 DEF FinalizeFromCache, MarkRecord
  <1>5. CASE SendUnanswered(w) \/ MarkFails(w) \/ CallFails(w)
    BY <1>1, <1>5 DEF SendUnanswered, MarkFails, CallFails
  <1>6. CASE RecordProcessing(w) \/ FindWallet(w)
    BY <1>2, <1>6 DEF RecordProcessing, FindWallet, At, HandlerSteps
  <1>7. CASE LoadCheckpoint(w)
    <2>1. loop[w] = "handle" /\ checkpoint[record(w)] \in Nat
      BY <1>7, RecordType DEF LoadCheckpoint, At, K!InHand
    <2>2. PICK s \in HandlerSteps : Call(w, s)
      BY <1>7 DEF LoadCheckpoint, HandlerSteps
    <2> QED
      BY <1>2, <1>7, <2>1, <2>2 DEF LoadCheckpoint
  <1>8. CASE Send(w)
    <2>1. loop[w] = "handle" /\ broadcasts[record(w)] + 1 \in Nat
      BY <1>8, RecordType DEF Send, At, K!InHand
    <2> QED
      BY <1>2, <1>8, <2>1 DEF Send, HandlerSteps
  <1>9. CASE StoreCheckpoint(w) \/ StoreFails(w)
    BY <1>2, <1>9 DEF StoreCheckpoint, StoreFails, At, HandlerSteps
  <1> QED
    BY <1>3, <1>4, <1>5, <1>6, <1>7, <1>8, <1>9 DEF ProcessApplied

\* What a step of the handler does to the records and the chain.
LEMMA HandlerRecords ==
    ASSUME NEW w \in Workers, ProcessApplied(w) PROVE RecordEffect(w)
  BY DEF ProcessApplied, RecordNotCommitted, RecordSucceeded, RecordUnsupported,
         RecordProcessing, LoadCheckpoint, FinalizeFromCache, UnsupportedCoin,
         FindWallet, Send, SendRefused, SendUnanswered, StoreCheckpoint,
         StoreFails, MarkRecord, MarkFails, CallFails, At, RecordEffect

\* A step that leaves the records alone keeps their types.
LEMMA UnchangedRecords ==
    ASSUME PayoutTypes, UNCHANGED payoutVars PROVE PayoutTypes'
  BY DEF PayoutTypes, payoutVars, recordVars, handlerVars

\* Every step keeps the types.
LEMMA TypeStep ==
    ASSUME ConsumerInv, [Next]_vars PROVE TypeInv'
  <1> USE DEF ConsumerInv, TypeInv
  <1>f. K!Fault \/ Fault \/ UNCHANGED faults => faults' \in 0..MaxFaults
    BY PayoutAssumption DEF K!Fault, Fault, K!TypeOK
  <1>1. ASSUME NEW w \in Workers, ProcessApplied(w), UNCHANGED log
        PROVE  TypeInv'
    <2>1. LoopEffect(w) /\ RecordEffect(w)
      BY <1>1, HandlerLoop, HandlerRecords
    <2>2. record(w) \in Requests /\ Stored(current[w])
      BY <2>1, RecordType DEF LoopEffect, LogInv, K!InHand
    <2>3. faults' \in 0..MaxFaults
      BY <1>f, <2>1 DEF LoopEffect
    <2>4. K!TypeOK'
      BY <2>1, <2>2, <2>3 DEF LoopEffect, K!TypeOK, Stored
    <2>5. sent[w] \in Nat
      BY DEF PayoutTypes
    <2>6. PayoutTypes'
      BY <2>1, <2>2, <2>5
      DEF LoopEffect, RecordEffect, PayoutTypes, MarkSuccess, recordVars,
          NodeAccepts
    <2> QED
      BY <2>4, <2>6
  <1>2. ASSUME NEW w \in Workers, K!Consume(w), UNCHANGED <<req, payoutVars>>
        PROVE  TypeInv'
    <2>1. K!InHand(w) => current[w] \in K!Events
      BY DEF LogInv, Stored
    <2> SUFFICES K!TypeOK'
      BY <1>2, UnchangedRecords
    <2> USE DEF K!TypeOK, K!Goto, K!Loops
    <2>2. ASSUME NEW p \in Partitions, K!FetchMessage(w, p) PROVE K!TypeOK'
      BY <2>2 DEF K!FetchMessage, K!Events, K!outcomeVars
    <2>3. CASE K!FetchCanceled(w) \/ K!BackoffEnds(w)
      BY <2>3
      DEF K!FetchCanceled, K!BackoffEnds, K!groupVars, K!outcomeVars
    <2>4. CASE K!PublishDeadLetter(w) \/ K!DeadLetterFails(w)
      <3>1. faults' \in 0..MaxFaults
        BY <1>f, <2>4 DEF K!PublishDeadLetter, K!DeadLetterFails
      <3> QED
        BY <2>1, <2>4, <3>1
        DEF K!PublishDeadLetter, K!DeadLetterFails, K!InHand, K!groupVars
    <2>5. CASE K!CommitMessages(w)
      <3>1. current[w][1] \in Partitions /\ current[w][2] \in Nat
        BY <2>1, <2>5 DEF K!CommitMessages, K!InHand, K!Events
      <3> QED
        BY <2>5, <3>1 DEF K!CommitMessages, K!outcomeVars
    <2>6. CASE K!CommitFails(w)
      <3>1. faults' \in 0..MaxFaults
        BY <1>f, <2>6 DEF K!CommitFails
      <3> QED
        BY <2>6, <3>1 DEF K!CommitFails, K!groupVars, K!outcomeVars
    <2> QED
      BY <1>2, <2>2, <2>3, <2>4, <2>5, <2>6, UnchangedRecords DEF K!Consume
  <1>3. ASSUME NEW w \in Workers, NEW p \in Partitions,
               K!Join(p, w) \/ K!Rebalance(p, w), UNCHANGED <<req, payoutVars>>
        PROVE  TypeInv'
    <2>1. K!Assign(p, w) /\ faults' \in 0..MaxFaults
      BY <1>f, <1>3 DEF K!Join, K!Rebalance
    <2> QED
      BY <1>3, <2>1, UnchangedRecords
      DEF K!TypeOK, K!Assign, K!workerVars, K!outcomeVars
  <1>4. ASSUME NEW w \in Workers, K!Restart(w), UNCHANGED <<req, payoutVars>>
        PROVE  TypeInv'
    BY <1>4, UnchangedRecords
    DEF K!TypeOK, K!Restart, K!Goto, K!Loops, K!groupVars, K!outcomeVars
  <1>5. ASSUME NEW w \in Workers, Crash(w) PROVE TypeInv'
    <2>1. faults' \in 0..MaxFaults
      BY <1>f, <1>5 DEF Crash, K!Crash
    <2>2. K!TypeOK'
      BY <1>5, <2>1
      DEF K!TypeOK, Crash, K!Crash, K!Goto, K!Loops, K!LeaveGroup, K!outcomeVars
    <2>3. PayoutTypes'
      BY <1>5 DEF PayoutTypes, Crash, recordVars, HandlerSteps
    <2> QED
      BY <2>2, <2>3
  <1>6. ASSUME NEW r \in Requests, ExpireCheckpoint(r) \/ CorrectByHand(r)
        PROVE  TypeInv'
    <2>1. faults' \in 0..MaxFaults
      BY <1>f, <1>6 DEF ExpireCheckpoint, CorrectByHand
    <2>2. K!TypeOK'
      BY <1>6, <2>1 DEF K!TypeOK, ExpireCheckpoint, CorrectByHand, consumerVars
    <2>3. PayoutTypes'
      BY <1>6
      DEF PayoutTypes, ExpireCheckpoint, CorrectByHand, recordVars, handlerVars
    <2> QED
      BY <2>2, <2>3
  <1>7. ASSUME NEW r \in Requests, NEW in, Receive(r, in) PROVE TypeInv'
    BY <1>7, UnchangedRecords DEF K!TypeOK, Receive, consumerVars
  <1>8. ASSUME NEW r \in Requests, NEW p \in Partitions, Publish(r, p)
        PROVE  TypeInv'
    <2>1. faults' \in 0..MaxFaults
      BY <1>f, <1>8 DEF Publish
    <2>2. log' \in [Partitions -> Seq(Requests)]
      BY <1>8 DEF Publish, K!TypeOK
    <2> QED
      BY <1>8, <2>1, <2>2, UnchangedRecords DEF K!TypeOK, Publish, consumerVars
  <1>9. ASSUME NEW r \in Requests, CommitRecord(r) PROVE TypeInv'
    BY <1>9 DEF K!TypeOK, PayoutTypes, CommitRecord, consumerVars, handlerVars
  <1>10. CASE UNCHANGED vars
    BY <1>10, UnchangedRecords DEF K!TypeOK, vars, consumerVars
  <1> QED
    BY <1>1, <1>2, <1>3, <1>4, <1>5, <1>6, <1>7, <1>8, <1>9, <1>10
    DEF Next, PayoutNext, Apply, ConsumerLoop

\* A step of the consumer loop reads the log and never writes it.
LEMMA ConsumeEffect ==
    ASSUME NEW w \in Workers,
           \/ K!Consume(w)
           \/ \E p \in Partitions : K!Join(p, w) \/ K!Rebalance(p, w)
           \/ K!Restart(w)
           \/ Crash(w)
    PROVE  UNCHANGED <<log, acked>>
  BY DEF K!Consume, K!FetchMessage, K!FetchCanceled, K!BackoffEnds,
         K!PublishDeadLetter, K!DeadLetterFails, K!CommitMessages, K!CommitFails,
         K!Join, K!Rebalance, K!Assign, K!Restart, Crash, K!Crash, K!groupVars,
         K!outcomeVars

\* The log grows at its end, and acknowledged events stay acknowledged.
LEMMA LogGrows ==
    ASSUME ConsumerInv, [Next]_vars
    PROVE  /\ \A e : Stored(e) => /\ Stored(e)'
                                  /\ log'[e[1]][e[2]] = log[e[1]][e[2]]
           /\ \A p \in Partitions : Len(log[p]) <= Len(log'[p])
  <1> USE DEF ConsumerInv, TypeInv, K!TypeOK
  <1>1. CASE UNCHANGED log
    BY <1>1 DEF Stored, K!Events
  <1>2. ASSUME NEW r \in Requests, NEW p \in Partitions, Publish(r, p)
        PROVE  /\ \A e : Stored(e) => /\ Stored(e)'
                                      /\ log'[e[1]][e[2]] = log[e[1]][e[2]]
               /\ \A q \in Partitions : Len(log[q]) <= Len(log'[q])
    <2>1. log' = [log EXCEPT ![p] = Append(log[p], r)] /\ log[p] \in Seq(Requests)
      BY <1>2 DEF Publish
    <2>2. /\ Len(log'[p]) = Len(log[p]) + 1
          /\ \A i \in 1..Len(log[p]) : log'[p][i] = log[p][i]
      BY <2>1
    <2>3. \A q \in Partitions \ {p} : log'[q] = log[q]
      BY <2>1
    <2>4. \A q \in Partitions : Len(log[q]) \in Nat
      OBVIOUS
    <2>5. ASSUME NEW e, Stored(e)
          PROVE  Stored(e)' /\ log'[e[1]][e[2]] = log[e[1]][e[2]]
      <3>1. /\ e \in K!Events /\ e[1] \in Partitions
            /\ e[2] \in 1..Len(log[e[1]])
        BY <2>4, <2>5 DEF Stored, K!Events
      <3>2. CASE e[1] = p
        BY <2>2, <2>4, <3>1, <3>2 DEF Stored
      <3>3. CASE e[1] # p
        BY <2>3, <3>1, <3>3 DEF Stored
      <3> QED
        BY <3>2, <3>3
    <2>6. ASSUME NEW q \in Partitions PROVE Len(log[q]) <= Len(log'[q])
      <3>1. CASE q = p
        BY <2>2, <2>4, <3>1
      <3>2. CASE q # p
        BY <2>3, <2>4, <3>2
      <3> QED
        BY <3>1, <3>2
    <2> QED
      BY <2>5, <2>6, Zenon
  <1> QED
    BY <1>1, <1>2, ConsumeEffect
    DEF Next, PayoutNext, ConsumerLoop, Apply, ExpireCheckpoint, CorrectByHand,
        Receive, CommitRecord, vars

\* Every step keeps the facts about the log and the runs.
LEMMA LogStep ==
    ASSUME ConsumerInv, [Next]_vars PROVE LogInv' /\ RunInv'
  <1> USE DEF ConsumerInv, TypeInv
  <1>g. /\ \A e : Stored(e) => Stored(e)'
        /\ \A p \in Partitions : Len(log[p]) <= Len(log'[p])
        /\ \A p \in Partitions : Len(log[p]) \in Nat /\ Len(log'[p]) \in Nat
    BY LogGrows, TypeStep DEF K!TypeOK
  <1>1. ASSUME NEW w \in Workers, ProcessApplied(w), UNCHANGED log
        PROVE  LogInv' /\ RunInv'
    <2>1. LoopEffect(w)
      BY <1>1, HandlerLoop
    <2>2. LogInv'
      BY <1>1, <1>g, <2>1 DEF LogInv, LoopEffect, K!InHand
    <2>3. RunInv'
      BY <2>1 DEF RunInv, LoopEffect
    <2> QED
      BY <2>2, <2>3
  <1>2. ASSUME NEW w \in Workers, K!Consume(w), UNCHANGED <<req, payoutVars>>
        PROVE  LogInv' /\ RunInv'
    <2>1. UNCHANGED <<log, acked, step>>
      BY <1>2, ConsumeEffect DEF payoutVars, handlerVars
    <2> USE DEF LogInv, RunInv, K!Goto, K!TypeOK, K!InHand
    <2>2. ASSUME NEW p \in Partitions, K!FetchMessage(w, p)
          PROVE  LogInv' /\ RunInv'
      <3>1. Stored(<<p, position[p] + 1>>)
        BY <2>2 DEF K!FetchMessage, Stored, K!Events
      <3>2. LogInv'
        BY <1>g, <2>1, <2>2, <3>1 DEF K!FetchMessage
      <3>3. RunInv'
        BY <2>1, <2>2 DEF K!FetchMessage
      <3> QED
        BY <3>2, <3>3
    <2>3. CASE K!FetchCanceled(w) \/ K!BackoffEnds(w)
      BY <1>g, <2>1, <2>3 DEF K!FetchCanceled, K!BackoffEnds, K!groupVars
    <2>4. CASE K!PublishDeadLetter(w) \/ K!DeadLetterFails(w)
      BY <1>g, <2>1, <2>4
      DEF K!PublishDeadLetter, K!DeadLetterFails, K!groupVars
    <2>5. CASE K!CommitMessages(w)
      <3>1. Stored(current[w])
        BY <2>5 DEF K!CommitMessages
      <3>2. \A p \in Partitions : committed'[p] <= Len(log[p])
        BY <2>5, <3>1 DEF K!CommitMessages, Stored, K!Events
      <3> QED
        BY <1>g, <2>1, <2>5, <3>2 DEF K!CommitMessages
    <2>6. CASE K!CommitFails(w)
      BY <1>g, <2>1, <2>6 DEF K!CommitFails, K!groupVars
    <2> QED
      BY <1>2, <2>2, <2>3, <2>4, <2>5, <2>6 DEF K!Consume
  <1>3. ASSUME NEW w \in Workers, NEW p \in Partitions,
               K!Join(p, w) \/ K!Rebalance(p, w), UNCHANGED <<req, payoutVars>>
        PROVE  LogInv' /\ RunInv'
    BY <1>3, <1>g
    DEF LogInv, RunInv, K!Join, K!Rebalance, K!Assign, K!workerVars,
        K!outcomeVars, K!InHand, K!TypeOK, payoutVars, handlerVars
  <1>4. ASSUME NEW w \in Workers, K!Restart(w), UNCHANGED <<req, payoutVars>>
        PROVE  LogInv' /\ RunInv'
    BY <1>4, <1>g
    DEF LogInv, RunInv, K!Restart, K!Goto, K!groupVars, K!outcomeVars, K!InHand,
        K!TypeOK, payoutVars, handlerVars
  <1>5. ASSUME NEW w \in Workers, Crash(w) PROVE LogInv' /\ RunInv'
    BY <1>5, <1>g
    DEF LogInv, RunInv, Crash, K!Crash, K!Goto, K!outcomeVars, K!InHand,
        K!TypeOK, PayoutTypes
  <1>6. ASSUME UNCHANGED <<consumerVars, handlerVars>> PROVE LogInv' /\ RunInv'
    BY <1>6, <1>g DEF LogInv, RunInv, consumerVars, handlerVars, K!InHand, K!TypeOK
  <1> QED
    BY <1>1, <1>2, <1>3, <1>4, <1>5, <1>6
    DEF Next, PayoutNext, Apply, ConsumerLoop, ExpireCheckpoint, CorrectByHand,
        Receive, Publish, CommitRecord, vars, payoutVars

-----------------------------------------------------------------------------
(* What the handler knows between its calls. *)

\* Past FindByID the row is there; an id the handler is about to write is that
\* of a transaction of this record.
HandlerOk(w) ==
    /\ step[w] # "find" => status[record(w)] # "absent"
    /\ step[w] \in {"finalize", "store", "mark"} =>
          sent[w] \in 1..broadcasts[record(w)]
    /\ step[w] \notin {"finalize", "store", "mark"} => sent[w] = 0

HandlerInv == \A w \in Workers : HandlerOk(w)

\* So are the ids in Redis and in the row.
CheckpointInv ==
    \A r \in Requests : checkpoint[r] <= broadcasts[r] /\ txid[r] <= broadcasts[r]

Settled(r) == status[r] \in {"success", "corrected"}

\* The rows and the chain only move forward.
LEMMA RecordsGrow ==
    ASSUME ConsumerInv, [Next]_vars, NEW r \in Requests
    PROVE  /\ status[r] # "absent" => status'[r] # "absent"
           /\ Settled(r) => status'[r] = status[r] /\ txid'[r] = txid[r]
           /\ broadcasts[r] <= broadcasts'[r]
  <1> USE DEF ConsumerInv, TypeInv, PayoutTypes
  <1>1. CASE UNCHANGED <<status, txid, broadcasts>>
    BY <1>1 DEF Settled
  <1>2. ASSUME NEW w \in Workers, ProcessApplied(w), UNCHANGED log
        PROVE  /\ status[r] # "absent" => status'[r] # "absent"
               /\ Settled(r) => status'[r] = status[r] /\ txid'[r] = txid[r]
               /\ broadcasts[r] <= broadcasts'[r]
    <2>1. RecordEffect(w) /\ record(w) \in Requests
      BY <1>2, HandlerRecords, HandlerLoop, RecordType DEF LoopEffect, K!InHand
    <2>2. /\ status[r] # "absent" => status'[r] # "absent"
          /\ Settled(r) => status'[r] = status[r] /\ txid'[r] = txid[r]
      BY <2>1 DEF RecordEffect, MarkSuccess, recordVars, Settled
    <2>3. broadcasts[r] <= broadcasts'[r]
      BY <2>1 DEF RecordEffect, NodeAccepts
    <2> QED
      BY <2>2, <2>3
  <1>3. ASSUME NEW q \in Requests, CorrectByHand(q) \/ CommitRecord(q)
        PROVE  /\ status[r] # "absent" => status'[r] # "absent"
               /\ Settled(r) => status'[r] = status[r] /\ txid'[r] = txid[r]
               /\ broadcasts[r] <= broadcasts'[r]
    BY <1>3 DEF CorrectByHand, CommitRecord, Settled
  <1> QED
    BY <1>1, <1>2, <1>3
    DEF Next, PayoutNext, Apply, ConsumerLoop, Crash, ExpireCheckpoint, Receive,
        Publish, vars, payoutVars, recordVars

\* A worker that holds its event keeps its record, whatever is appended.
LEMMA RecordStays ==
    ASSUME ConsumerInv, [Next]_vars, NEW w \in Workers, K!InHand(w),
           current'[w] = current[w]
    PROVE  record(w)' = record(w) /\ record(w) \in Requests
  <1>1. Stored(current[w])
    BY DEF ConsumerInv, LogInv
  <1> QED
    BY <1>1, LogGrows, RecordType DEF record, K!message

\* What a handler knows is not disturbed by the steps of others.
LEMMA HandlerStays ==
    ASSUME ConsumerInv, [Next]_vars, NEW v \in Workers, HandlerOk(v),
           step'[v] = step[v], sent'[v] = sent[v],
           step[v] # "find" => current'[v] = current[v]
    PROVE  HandlerOk(v)'
  <1>1. CASE step[v] = "find"
    BY <1>1 DEF HandlerOk
  <1>2. CASE step[v] # "find"
    <2>1. K!InHand(v)
      BY <1>2 DEF ConsumerInv, RunInv, K!InHand
    <2>2. record(v)' = record(v) /\ record(v) \in Requests
      BY <1>2, <2>1, RecordStays
    <2>3. /\ status[record(v)] # "absent" => status'[record(v)] # "absent"
          /\ broadcasts[record(v)] <= broadcasts'[record(v)]
          /\ broadcasts[record(v)] \in Nat /\ broadcasts'[record(v)] \in Nat
      BY <2>2, RecordsGrow, TypeStep DEF ConsumerInv, TypeInv, PayoutTypes
    <2> QED
      BY <2>2, <2>3 DEF HandlerOk
  <1> QED
    BY <1>1, <1>2

\* Nor by its own.
LEMMA HandlerOkStep ==
    ASSUME ConsumerInv, HandlerInv, CheckpointInv, NEW w \in Workers,
           ProcessApplied(w), UNCHANGED log
    PROVE  HandlerOk(w)' /\ CheckpointInv'
  <1>1. LoopEffect(w) /\ RecordEffect(w) /\ record(w) \in Requests /\ HandlerOk(w)
    BY HandlerLoop, HandlerRecords, RecordType DEF LoopEffect, K!InHand, HandlerInv
  <1>2. record(w)' = record(w)
    BY <1>1 DEF LoopEffect, record, K!message
  <1>3. /\ sent \in [Workers -> Nat] /\ step \in [Workers -> HandlerSteps]
        /\ status \in [Requests -> {"absent", "processing", "success", "corrected"}]
        /\ checkpoint \in [Requests -> Nat] /\ broadcasts \in [Requests -> Nat]
        /\ txid \in [Requests -> Nat]
    BY DEF ConsumerInv, TypeInv, PayoutTypes
  <1>4. HandlerOk(w)'
    <2>1. CASE step'[w] = "find" /\ sent'[w] = 0
      BY <2>1 DEF HandlerOk
    <2>2. CASE RecordProcessing(w) \/ FindWallet(w)
      BY <1>1, <1>2, <1>3, <2>2
      DEF HandlerOk, RecordProcessing, FindWallet, Call, At, recordVars
    <2>3. CASE LoadCheckpoint(w)
      <3>1. /\ sent'[w] = checkpoint[record(w)]
            /\ step'[w] = IF checkpoint[record(w)] # 0 THEN "finalize" ELSE "lookup"
            /\ UNCHANGED <<status, broadcasts>> /\ step[w] = "load"
        BY <1>3, <2>3 DEF LoadCheckpoint, Call, At, recordVars
      <3>2. checkpoint[record(w)] <= broadcasts[record(w)]
        BY <1>1 DEF CheckpointInv
      <3> QED
        BY <1>1, <1>2, <1>3, <3>1, <3>2 DEF HandlerOk
    <2>4. CASE Send(w)
      <3>1. /\ sent'[w] = broadcasts[record(w)] + 1 /\ step'[w] = "store"
            /\ broadcasts'[record(w)] = broadcasts[record(w)] + 1
            /\ UNCHANGED status /\ step[w] = "send"
        BY <1>1, <1>3, <2>4 DEF Send, Call, At, recordVars, NodeAccepts
      <3> QED
        BY <1>1, <1>2, <1>3, <3>1 DEF HandlerOk
    <2>5. CASE StoreCheckpoint(w) \/ StoreFails(w)
      BY <1>1, <1>2, <1>3, <2>5
      DEF HandlerOk, StoreCheckpoint, StoreFails, Call, At, recordVars
    <2> QED
      BY <1>3, <2>1, <2>2, <2>3, <2>4, <2>5
      DEF ProcessApplied, RecordNotCommitted, RecordSucceeded,
          RecordUnsupported, FinalizeFromCache, UnsupportedCoin, SendRefused,
          SendUnanswered, MarkRecord, MarkFails, CallFails, Return
  <1>5. CheckpointInv'
    <2>1. ASSUME NEW r \in Requests PROVE broadcasts[r] <= broadcasts'[r]
      BY <1>1, <1>3 DEF RecordEffect, NodeAccepts
    <2>2. ASSUME NEW r \in Requests
          PROVE  /\ checkpoint'[r] = checkpoint[r] \/ checkpoint'[r] <= broadcasts[r]
                 /\ txid'[r] = txid[r] \/ txid'[r] <= broadcasts[r]
      BY <1>1, <1>3 DEF RecordEffect, HandlerOk, MarkSuccess, recordVars
    <2>3. /\ checkpoint' \in [Requests -> Nat] /\ broadcasts' \in [Requests -> Nat]
          /\ txid' \in [Requests -> Nat]
      BY <1>1, <1>3 DEF RecordEffect, NodeAccepts, MarkSuccess, recordVars
    <2> QED
      BY <1>3, <2>1, <2>2, <2>3 DEF CheckpointInv
  <1> QED
    BY <1>4, <1>5

\* Every step keeps what the handlers know, and what a checkpoint says.
LEMMA HandlerStep ==
    ASSUME ConsumerInv, HandlerInv, CheckpointInv, [Next]_vars
    PROVE  HandlerInv' /\ CheckpointInv'
  <1>1. ASSUME NEW w \in Workers, ProcessApplied(w), UNCHANGED log
        PROVE  HandlerInv' /\ CheckpointInv'
    <2>1. HandlerOk(w)' /\ CheckpointInv'
      BY <1>1, HandlerOkStep
    <2>2. ASSUME NEW v \in Workers, v # w PROVE HandlerOk(v)'
      BY <1>1, <2>2, HandlerLoop, HandlerStays DEF LoopEffect, HandlerInv
    <2> QED
      BY <2>1, <2>2 DEF HandlerInv
  <1>2. ASSUME NEW w \in Workers, Crash(w) PROVE HandlerInv' /\ CheckpointInv'
    <2>1. /\ \A v \in Workers \ {w} : step'[v] = step[v] /\ sent'[v] = sent[v]
          /\ step'[w] = "find" /\ sent'[w] = 0
          /\ UNCHANGED <<checkpoint, broadcasts, current, txid>>
      BY <1>2
      DEF Crash, K!Crash, ConsumerInv, TypeInv, PayoutTypes, recordVars
    <2>2. ASSUME NEW v \in Workers PROVE HandlerOk(v)'
      <3>1. CASE v = w
        BY <2>1, <3>1 DEF HandlerOk
      <3>2. CASE v # w
        BY <1>2, <2>1, <3>2, HandlerStays DEF HandlerInv
      <3> QED
        BY <3>1, <3>2
    <2> QED
      BY <2>1, <2>2 DEF HandlerInv, CheckpointInv
  <1>3. ASSUME UNCHANGED handlerVars,
               \A v \in Workers : step[v] # "find" => current'[v] = current[v],
               \/ UNCHANGED <<checkpoint, broadcasts, txid>>
               \/ \E r \in Requests : ExpireCheckpoint(r)
        PROVE  HandlerInv' /\ CheckpointInv'
    <2>1. HandlerInv'
      BY <1>3, HandlerStays DEF HandlerInv, handlerVars
    <2>2. CheckpointInv'
      BY <1>3
      DEF CheckpointInv, ExpireCheckpoint, recordVars, ConsumerInv, TypeInv, PayoutTypes
    <2> QED
      BY <2>1, <2>2
  <1>4. ASSUME NEW w \in Workers, ConsumerLoop(w), UNCHANGED <<req, payoutVars>>
        PROVE  HandlerInv' /\ CheckpointInv'
    <2>1. loop[w] = "handle" => UNCHANGED current
      BY <1>4
      DEF ConsumerLoop, K!Consume, K!FetchMessage, K!FetchCanceled,
          K!BackoffEnds, K!PublishDeadLetter, K!DeadLetterFails,
          K!CommitMessages, K!CommitFails, K!Join, K!Rebalance, K!Assign,
          K!Restart, K!workerVars
    <2>2. \A v \in Workers \ {w} : current'[v] = current[v]
      BY <1>4
      DEF ConsumerLoop, K!Consume, K!FetchMessage, K!FetchCanceled,
          K!BackoffEnds, K!PublishDeadLetter, K!DeadLetterFails,
          K!CommitMessages, K!CommitFails, K!Join, K!Rebalance, K!Assign,
          K!Restart, K!workerVars, ConsumerInv, TypeInv, K!TypeOK
    <2>3. step[w] # "find" => loop[w] = "handle"
      BY DEF ConsumerInv, RunInv
    <2> QED
      BY <1>3, <1>4, <2>1, <2>2, <2>3 DEF payoutVars, recordVars
  <1> QED
    BY <1>1, <1>2, <1>3, <1>4
    DEF Next, PayoutNext, Apply, ExpireCheckpoint, CorrectByHand, Receive,
        Publish, CommitRecord, vars, consumerVars, payoutVars, recordVars,
        handlerVars

-----------------------------------------------------------------------------
(* Acknowledgement. *)

\* Every step keeps what is acknowledged settled.
LEMMA AckedStep ==
    ASSUME ConsumerInv, HandlerInv, AckedIsSettled, [Next]_vars
    PROVE  AckedIsSettled'
  <1>1. ASSUME NEW e, Stored(e), Settled(log[e[1]][e[2]])
        PROVE  Settled(log[e[1]][e[2]])'
    <2>1. log[e[1]][e[2]] \in Requests
      BY <1>1 DEF Stored, K!Events, ConsumerInv, TypeInv, K!TypeOK
    <2> QED
      BY <1>1, <2>1, LogGrows, RecordsGrow DEF Settled
  <1>2. ASSUME UNCHANGED acked PROVE AckedIsSettled'
    BY <1>1, <1>2 DEF AckedIsSettled, Settled, ConsumerInv, LogInv
  <1>3. ASSUME NEW w \in Workers, ProcessApplied(w), UNCHANGED log
        PROVE  AckedIsSettled'
    <2>1. /\ LoopEffect(w) /\ record(w) \in Requests /\ HandlerOk(w)
          /\ Stored(current[w])
      BY <1>3, HandlerLoop, RecordType
      DEF LoopEffect, K!InHand, HandlerInv, ConsumerInv, LogInv
    <2>2. CASE UNCHANGED acked
      BY <1>2, <2>2
    <2>3. CASE ~UNCHANGED acked
      <3>1. RecordSucceeded(w) \/ FinalizeFromCache(w) \/ MarkRecord(w)
        BY <1>3, <2>3
        DEF ProcessApplied, RecordNotCommitted, RecordUnsupported,
            RecordProcessing, LoadCheckpoint, UnsupportedCoin, FindWallet, Send,
            SendRefused, SendUnanswered, StoreCheckpoint, StoreFails, MarkFails,
            CallFails, Return, Call, consumerVars, K!HandlerReturns
      <3>2. status[record(w)] # "absent"
        BY <2>1, <3>1
        DEF RecordSucceeded, FinalizeFromCache, MarkRecord, At, HandlerOk
      <3>3. status'[record(w)] \in {"success", "corrected"}
        BY <2>1, <3>1, <3>2
        DEF RecordSucceeded, FinalizeFromCache, MarkRecord, MarkSuccess,
            recordVars, ConsumerInv, TypeInv, PayoutTypes
      <3>4. Settled(log[current[w][1]][current[w][2]])'
        BY <2>1, <3>3 DEF Settled, LoopEffect, record, K!message
      <3>5. acked' = acked \cup {current[w]} /\ UNCHANGED <<log, current>>
        BY <2>1, <2>3 DEF LoopEffect
      <3> QED
        BY <1>1, <3>4, <3>5
        DEF AckedIsSettled, Settled, ConsumerInv, LogInv
    <2> QED
      BY <2>2, <2>3
  <1> QED
    BY <1>2, <1>3, ConsumeEffect
    DEF Next, PayoutNext, Apply, ConsumerLoop, ExpireCheckpoint, CorrectByHand,
        Receive, Publish, CommitRecord, vars, consumerVars

-----------------------------------------------------------------------------
(* Payments. *)

HasEvent(r, p) == \E i \in DOMAIN log[p] : log[p][i] = r

Handles(w, r, p) ==
    loop[w] \in {"handle", "backoff"} /\ current[w][1] = p /\ record(w) = r

\* The handler has seen the row as Processing and not yet sent.
PastCheck(w) == step[w] \in {"load", "lookup", "send"}

\* The handler has sent and not yet written the row.
Paying(w) == step[w] \in {"store", "mark"}

\* The partition can lead to one more payment of r without a fault: through
\* its owner, who handles its events one after the other.
Slot(r, p) ==
    IF Settled(r)
    THEN \E w \in Workers : owner[p] = w /\ Handles(w, r, p) /\ PastCheck(w)
    ELSE /\ HasEvent(r, p)
         /\ ~ \E w \in Workers : owner[p] = w /\ Handles(w, r, p) /\ Paying(w)

\* So can a worker that lost the partition in the middle of an event.
Stray(r, p, w) ==
    /\ owner[p] # w
    /\ Handles(w, r, p)
    /\ IF Settled(r) THEN PastCheck(w) ELSE ~Paying(w)

\* Everything that can still pay r without a fault; NoWorker stands for the
\* partition itself.
Sources(r) ==
    {x \in Partitions \X (Workers \cup {NoWorker}) :
        IF x[2] = NoWorker THEN Slot(r, x[1]) ELSE Stray(r, x[1], x[2])}

SourcesInv ==
    \A r \in Requests :
        /\ IsFiniteSet(Sources(r))
        /\ broadcasts[r] + Cardinality(Sources(r)) <= 1 + faults
        /\ ~Published(r) => broadcasts[r] = 0

\* One more than before at the most.
LEMMA AtMostOneMore ==
    ASSUME NEW S, IsFiniteSet(S), NEW T, NEW x, T \subseteq S \cup {x}
    PROVE  IsFiniteSet(T) /\ Cardinality(T) <= Cardinality(S) + 1
  <1>1. /\ IsFiniteSet(S \cup {x})
        /\ Cardinality(S \cup {x}) <= Cardinality(S) + 1
        /\ Cardinality(S) \in Nat
    BY FS_AddElement, FS_CardinalityType
  <1>2. /\ IsFiniteSet(T) /\ Cardinality(T) <= Cardinality(S \cup {x})
        /\ Cardinality(T) \in Nat /\ Cardinality(S \cup {x}) \in Nat
    BY <1>1, FS_Subset, FS_CardinalityType
  <1> QED
    BY <1>1, <1>2

\* One less at least.
LEMMA AtLeastOneLess ==
    ASSUME NEW S, IsFiniteSet(S), NEW x \in S, NEW T, T \subseteq S \ {x}
    PROVE  IsFiniteSet(T) /\ Cardinality(T) + 1 <= Cardinality(S)
  <1>1. /\ IsFiniteSet(S \ {x})
        /\ Cardinality(S \ {x}) = Cardinality(S) - 1
        /\ Cardinality(S) \in Nat
    BY FS_RemoveElement, FS_CardinalityType
  <1>2. /\ IsFiniteSet(T) /\ Cardinality(T) <= Cardinality(S \ {x})
        /\ Cardinality(T) \in Nat
    BY <1>1, FS_Subset, FS_CardinalityType
  <1> QED
    BY <1>1, <1>2

Budget(r) ==
    /\ IsFiniteSet(Sources(r))
    /\ broadcasts[r] + Cardinality(Sources(r)) <= 1 + faults

\* Who handles a record has its event in hand.
LEMMA HandlesEvent ==
    ASSUME ConsumerInv, NEW w \in Workers, NEW r, NEW p, Handles(w, r, p)
    PROVE  p \in Partitions /\ HasEvent(r, p) /\ K!InHand(w)
  <1>1. Stored(current[w]) /\ K!InHand(w)
    BY DEF Handles, K!InHand, ConsumerInv, LogInv
  <1>2. /\ current[w][1] \in Partitions /\ current[w][2] \in Nat \ {0}
        /\ log[current[w][1]] \in Seq(Requests)
        /\ current[w][2] <= Len(log[current[w][1]])
    BY <1>1 DEF Stored, K!Events, ConsumerInv, TypeInv, K!TypeOK
  <1>3. current[w][2] \in DOMAIN log[current[w][1]]
    BY <1>2
  <1> QED
    BY <1>1, <1>2, <1>3 DEF Handles, HasEvent, record, K!message

\* Steps that start no handler, end none that is paying, and may settle r.
LEMMA SourcesShrink ==
    ASSUME ConsumerInv, NEW r, Settled(r) => Settled(r)',
           UNCHANGED <<owner, step>>,
           \A p \in Partitions : HasEvent(r, p)' => HasEvent(r, p),
           \A p \in Partitions, v \in Workers : Handles(v, r, p)' => Handles(v, r, p),
           \A p \in Partitions, v \in Workers :
              Handles(v, r, p) /\ Paying(v) => Handles(v, r, p)'
    PROVE  Sources(r)' \subseteq Sources(r)
  <1> USE DEF PastCheck, Paying
  <1>1. ASSUME NEW p \in Partitions, Slot(r, p)' PROVE Slot(r, p)
    <2>1. CASE Settled(r)'
      <3>1. PICK v \in Workers : owner[p] = v /\ Handles(v, r, p) /\ PastCheck(v)
        BY <1>1, <2>1 DEF Slot
      <3> QED
        BY <3>1, HandlesEvent DEF Slot
    <2>2. CASE ~Settled(r)'
      BY <1>1, <2>2 DEF Slot
    <2> QED
      BY <2>1, <2>2
  <1>2. ASSUME NEW p \in Partitions, NEW v \in Workers, Stray(r, p, v)'
        PROVE  Stray(r, p, v)
    BY <1>2 DEF Stray
  <1> QED
    BY <1>1, <1>2, PayoutAssumption DEF Sources

\* The source that w is, or takes up, with the event it has in hand.
mine(w) ==
    <<current[w][1], IF owner[current[w][1]] = w THEN NoWorker ELSE w>>

\* A step of w alone changes no other source.
LEMMA OnlyMine ==
    ASSUME ConsumerInv, NEW w \in Workers, NEW r, Settled(r) => Settled(r)',
           UNCHANGED <<log, owner, current>>,
           \A v \in Workers \ {w} : loop'[v] = loop[v] /\ step'[v] = step[v]
    PROVE  /\ Sources(r)' \subseteq Sources(r) \cup {mine(w)}
           /\ record(w) # r => Sources(r)' \subseteq Sources(r)
  <1> USE DEF PastCheck, Paying
  <1>1. \A v \in Workers : record(v)' = record(v)
    BY DEF record, K!message
  <1>2. \A p \in Partitions, v \in Workers \ {w} :
            Handles(v, r, p)' <=> Handles(v, r, p)
    BY <1>1 DEF Handles
  <1>3. ASSUME NEW p \in Partitions, Slot(r, p)', ~Slot(r, p)
        PROVE  <<p, NoWorker>> = mine(w) /\ record(w) = r
    <2>1. owner[p] = w /\ current[w][1] = p /\ record(w) = r
      <3>1. CASE Settled(r)'
        <4>1. PICK v \in Workers :
                owner[p] = v /\ Handles(v, r, p)' /\ PastCheck(v)'
          BY <1>3, <3>1 DEF Slot
        <4>2. CASE v # w
          BY <1>2, <1>3, <4>1, <4>2, HandlesEvent DEF Slot
        <4>3. CASE v = w
          BY <1>1, <4>1, <4>3 DEF Handles
        <4> QED
          BY <4>2, <4>3
      <3>2. CASE ~Settled(r)'
        <4>1. HasEvent(r, p)' <=> HasEvent(r, p)
          BY DEF HasEvent
        <4>2. PICK v \in Workers :
                owner[p] = v /\ Handles(v, r, p) /\ Paying(v)
          BY <1>3, <3>2, <4>1 DEF Slot
        <4>3. CASE v # w
          BY <1>2, <1>3, <3>2, <4>2, <4>3 DEF Slot
        <4>4. CASE v = w
          BY <4>2, <4>4 DEF Handles
        <4> QED
          BY <4>3, <4>4
      <3> QED
        BY <3>1, <3>2
    <2> QED
      BY <2>1 DEF mine
  <1>4. ASSUME NEW p \in Partitions, NEW v \in Workers, Stray(r, p, v)',
               ~Stray(r, p, v)
        PROVE  <<p, v>> = mine(w) /\ record(w) = r
    <2>1. CASE v # w
      BY <1>2, <1>4, <2>1 DEF Stray
    <2>2. CASE v = w
      BY <1>1, <1>4, <2>2 DEF Stray, Handles, mine
    <2> QED
      BY <2>1, <2>2
  <1>5. ASSUME NEW x \in Sources(r)', x \notin Sources(r)
        PROVE  x = mine(w) /\ record(w) = r
    <2>1. PICK p \in Partitions, v \in Workers \cup {NoWorker} : x = <<p, v>>
      BY <1>5 DEF Sources
    <2>2. CASE v = NoWorker
      BY <1>3, <1>5, <2>1, <2>2 DEF Sources
    <2>3. CASE v # NoWorker
      BY <1>4, <1>5, <2>1, <2>3 DEF Sources
    <2> QED
      BY <2>2, <2>3
  <1> QED
    BY <1>5

\* A worker that can still send is a source; one that has sent, or holds a
\* settled record it has not checked, is none.
LEMMA MineIn ==
    ASSUME ConsumerInv, NEW w \in Workers, Handles(w, record(w), current[w][1]),
           IF Settled(record(w)) THEN PastCheck(w) ELSE ~Paying(w)
    PROVE  mine(w) \in Sources(record(w))
  <1>1. current[w][1] \in Partitions /\ HasEvent(record(w), current[w][1])
    BY HandlesEvent
  <1> QED
    BY <1>1, PayoutAssumption DEF mine, Sources, Slot, Stray

\* A worker that can no longer send is no source.
LEMMA MineOut ==
    ASSUME NEW w \in Workers, NEW r, UNCHANGED <<owner, current>>,
           record(w)' = r,
           IF Settled(r)' THEN ~PastCheck(w)'
                          ELSE Paying(w)' /\ loop'[w] = "handle"
    PROVE  mine(w) \notin Sources(r)'
  BY PayoutAssumption DEF mine, Sources, Slot, Stray, Handles

\* No new source, no payment: the budget holds.
LEMMA BudgetKept ==
    ASSUME ConsumerInv, NEW r \in Requests, Budget(r),
           Sources(r)' \subseteq Sources(r),
           broadcasts'[r] = broadcasts[r],
           faults' \in Nat, faults <= faults'
    PROVE  Budget(r)'
  <1>1. /\ IsFiniteSet(Sources(r)')
        /\ Cardinality(Sources(r)') <= Cardinality(Sources(r))
        /\ Cardinality(Sources(r)') \in Nat /\ Cardinality(Sources(r)) \in Nat
    BY FS_Subset, FS_CardinalityType DEF Budget
  <1>2. broadcasts[r] \in Nat /\ faults \in Nat
    BY PayoutAssumption DEF ConsumerInv, TypeInv, PayoutTypes, K!TypeOK
  <1> QED
    BY <1>1, <1>2 DEF Budget

\* A new source costs a fault.
LEMMA BudgetFault ==
    ASSUME ConsumerInv, NEW r \in Requests, Budget(r), NEW x,
           Sources(r)' \subseteq Sources(r) \cup {x},
           broadcasts'[r] = broadcasts[r],
           faults' = faults + 1
    PROVE  Budget(r)'
  <1>1. /\ IsFiniteSet(Sources(r)')
        /\ Cardinality(Sources(r)') <= Cardinality(Sources(r)) + 1
        /\ Cardinality(Sources(r)') \in Nat /\ Cardinality(Sources(r)) \in Nat
    BY AtMostOneMore, FS_CardinalityType DEF Budget
  <1>2. broadcasts[r] \in Nat /\ faults \in Nat
    BY PayoutAssumption DEF ConsumerInv, TypeInv, PayoutTypes, K!TypeOK
  <1> QED
    BY <1>1, <1>2 DEF Budget

\* A payment uses its source up.
LEMMA BudgetSpent ==
    ASSUME ConsumerInv, NEW r \in Requests, Budget(r), NEW x \in Sources(r),
           Sources(r)' \subseteq Sources(r) \ {x},
           broadcasts'[r] = broadcasts[r] + 1,
           UNCHANGED faults
    PROVE  Budget(r)'
  <1>1. /\ IsFiniteSet(Sources(r)')
        /\ Cardinality(Sources(r)') + 1 <= Cardinality(Sources(r))
        /\ Cardinality(Sources(r)') \in Nat /\ Cardinality(Sources(r)) \in Nat
    BY AtLeastOneLess, FS_CardinalityType DEF Budget
  <1>2. broadcasts[r] \in Nat /\ faults \in Nat
    BY PayoutAssumption DEF ConsumerInv, TypeInv, PayoutTypes, K!TypeOK
  <1> QED
    BY <1>1, <1>2 DEF Budget

\* A payment that keeps its source costs a fault.
LEMMA BudgetLost ==
    ASSUME ConsumerInv, NEW r \in Requests, Budget(r),
           Sources(r)' \subseteq Sources(r),
           broadcasts'[r] = broadcasts[r] + 1,
           faults' = faults + 1
    PROVE  Budget(r)'
  <1>1. /\ IsFiniteSet(Sources(r)')
        /\ Cardinality(Sources(r)') <= Cardinality(Sources(r))
        /\ Cardinality(Sources(r)') \in Nat /\ Cardinality(Sources(r)) \in Nat
    BY FS_Subset, FS_CardinalityType DEF Budget
  <1>2. broadcasts[r] \in Nat /\ faults \in Nat
    BY PayoutAssumption DEF ConsumerInv, TypeInv, PayoutTypes, K!TypeOK
  <1> QED
    BY <1>1, <1>2 DEF Budget

\* A handler that fails costs a fault; one that does not has spent its source
\* once it has sent, and gets none back.
LEMMA HandlerBudget ==
    ASSUME ConsumerInv, HandlerInv, [Next]_vars, NEW w \in Workers,
           ProcessApplied(w), UNCHANGED log, NEW r \in Requests, Budget(r)
    PROVE  Budget(r)'
  <1>1. /\ LoopEffect(w) /\ RecordEffect(w) /\ record(w) \in Requests
        /\ HandlerOk(w) /\ record(w)' = record(w)
    BY HandlerLoop, HandlerRecords, RecordType, RecordStays
    DEF LoopEffect, K!InHand, HandlerInv
  <1>2. /\ step \in [Workers -> HandlerSteps] /\ faults \in Nat
        /\ broadcasts \in [Requests -> Nat]
        /\ status[record(w)] \in {"absent", "processing", "success", "corrected"}
    BY <1>1, PayoutAssumption DEF ConsumerInv, TypeInv, PayoutTypes, K!TypeOK
  <1>3. Settled(r) => Settled(r)'
    BY RecordsGrow DEF Settled
  <1>4. /\ Sources(r)' \subseteq Sources(r) \cup {mine(w)}
        /\ record(w) # r => Sources(r)' \subseteq Sources(r)
    BY <1>1, <1>3, OnlyMine DEF LoopEffect
  <1>5. faults' \in {faults, faults + 1}
    BY <1>1 DEF LoopEffect, Fault
  <1>6. CASE record(w) # r
    <2>1. broadcasts'[r] = broadcasts[r]
      BY <1>1, <1>2, <1>6 DEF RecordEffect, NodeAccepts
    <2> QED
      BY <1>2, <1>4, <1>5, <1>6, <2>1, BudgetKept
  <1>7. CASE record(w) = r /\ UNCHANGED broadcasts
    <2>1. CASE faults' = faults + 1
      BY <1>4, <1>7, <2>1, BudgetFault
    <2>2. CASE /\ faults' = faults
               /\ IF Settled(r) THEN PastCheck(w) ELSE ~Paying(w)
      <3>1. mine(w) \in Sources(r)
        BY <1>1, <1>7, <2>2, MineIn DEF Handles, LoopEffect
      <3> QED
        BY <1>2, <1>4, <1>7, <2>2, <3>1, BudgetKept
    <2>3. CASE /\ faults' = faults
               /\ ~ IF Settled(r) THEN PastCheck(w) ELSE ~Paying(w)
      <3>1. IF Settled(r)' THEN ~PastCheck(w)'
                           ELSE Paying(w)' /\ loop'[w] = "handle"
        <4>1. CASE Settled(r)
          BY <1>1, <1>2, <1>3, <1>7, <2>3, <4>1
          DEF ProcessApplied, RecordNotCommitted, RecordSucceeded,
              RecordUnsupported, RecordProcessing, LoadCheckpoint,
              FinalizeFromCache, UnsupportedCoin, FindWallet, Send, SendRefused,
              SendUnanswered, StoreCheckpoint, StoreFails, MarkRecord, MarkFails,
              CallFails, At, Call, Return, PastCheck, Settled
        <4>2. CASE ~Settled(r)
          <5>1. step[w] \in {"store", "mark"} /\ status[r] = "processing"
            BY <1>1, <1>2, <1>7, <2>3, <4>2 DEF Paying, HandlerOk, Settled
          <5>2. StoreCheckpoint(w) \/ MarkRecord(w)
            BY <1>2, <2>3, <5>1
            DEF ProcessApplied, RecordNotCommitted, RecordSucceeded,
                RecordUnsupported, RecordProcessing, LoadCheckpoint,
                FinalizeFromCache, UnsupportedCoin, FindWallet, Send,
                SendRefused, SendUnanswered, StoreFails, MarkFails, CallFails,
                At, Fault
          <5>3. CASE StoreCheckpoint(w)
            BY <1>2, <4>2, <5>3
            DEF StoreCheckpoint, Call, At, Paying, Settled, recordVars,
                consumerVars
          <5>4. CASE MarkRecord(w)
            BY <1>2, <1>7, <5>1, <5>4
            DEF MarkRecord, MarkSuccess, Return, PastCheck, Settled, ConsumerInv,
                TypeInv, PayoutTypes
          <5> QED
            BY <5>2, <5>3, <5>4
        <4> QED
          BY <4>1, <4>2
      <3>2. mine(w) \notin Sources(r)'
        BY <1>1, <1>7, <3>1, MineOut DEF LoopEffect
      <3> QED
        BY <1>2, <1>4, <1>7, <2>3, <3>2, BudgetKept
    <2> QED
      BY <1>5, <2>1, <2>2, <2>3
  <1>8. CASE record(w) = r /\ ~UNCHANGED broadcasts
    <2>1. /\ step[w] = "send" /\ broadcasts'[r] = broadcasts[r] + 1
          /\ Send(w) \/ SendUnanswered(w)
      BY <1>1, <1>2, <1>8
      DEF RecordEffect, NodeAccepts, ProcessApplied, RecordNotCommitted,
          RecordSucceeded, RecordUnsupported, RecordProcessing, LoadCheckpoint,
          FinalizeFromCache, UnsupportedCoin, FindWallet, SendRefused,
          StoreCheckpoint, StoreFails, MarkRecord, MarkFails, CallFails
    <2>2. mine(w) \in Sources(r)
      BY <1>1, <1>8, <2>1, MineIn DEF Handles, LoopEffect, PastCheck, Paying
    <2>3. CASE Send(w)
      <3>1. /\ step'[w] = "store" /\ loop'[w] = "handle" /\ UNCHANGED faults
        BY <1>2, <2>3 DEF Send, Call, At, consumerVars
      <3>2. mine(w) \notin Sources(r)'
        BY <1>1, <1>8, <3>1, MineOut DEF LoopEffect, PastCheck, Paying
      <3> QED
        BY <1>4, <2>1, <2>2, <3>1, <3>2, BudgetSpent
    <2>4. CASE SendUnanswered(w)
      <3>1. faults' = faults + 1
        BY <2>4 DEF SendUnanswered, Fault
      <3> QED
        BY <1>4, <2>1, <2>2, <3>1, BudgetLost
    <2> QED
      BY <2>1, <2>3, <2>4
  <1> QED
    BY <1>6, <1>7, <1>8

\* The loop takes up an event of a partition it owns, goes back to the handler
\* after a backoff, or leaves the event; only what fails costs a fault.
LEMMA ConsumeBudget ==
    ASSUME ConsumerInv, NEW w \in Workers, K!Consume(w),
           UNCHANGED <<req, payoutVars>>, NEW r \in Requests, Budget(r)
    PROVE  Budget(r)'
  <1> USE DEF ConsumerInv, TypeInv
  <1>1. /\ UNCHANGED <<log, status, broadcasts, step>> /\ faults \in Nat
        /\ loop \in [Workers -> K!Loops]
    BY ConsumeEffect, PayoutAssumption
    DEF payoutVars, recordVars, handlerVars, K!TypeOK
  <1>2. /\ Settled(r)' = Settled(r)
        /\ \A p \in Partitions : HasEvent(r, p)' = HasEvent(r, p)
    BY <1>1 DEF Settled, HasEvent
  <1>3. ASSUME NEW p \in Partitions, K!FetchMessage(w, p) PROVE Budget(r)'
    <2>1. /\ UNCHANGED <<owner, faults>> /\ owner[p] = w /\ step[w] = "find"
          /\ loop[w] = "fetch" /\ loop' = [loop EXCEPT ![w] = "handle"]
          /\ current'[w][1] = p
          /\ \A v \in Workers \ {w} : current'[v] = current[v]
      BY <1>3 DEF K!FetchMessage, K!Goto, K!TypeOK, RunInv
    <2>2. \A q \in Partitions, v \in Workers \ {w} :
              Handles(v, r, q)' = Handles(v, r, q)
      BY <1>1, <2>1 DEF Handles, record, K!message
    <2>3. ASSUME NEW q \in Partitions, Slot(r, q)' PROVE Slot(r, q)
      <3>1. CASE Settled(r)
        BY <1>1, <1>2, <2>1, <2>2, <2>3, <3>1 DEF Slot, PastCheck
      <3>2. CASE ~Settled(r)
        <4>1. \A v \in Workers : Paying(v) => v # w
          BY <2>1 DEF Paying
        <4> QED
          BY <1>1, <1>2, <2>1, <2>2, <2>3, <3>2, <4>1 DEF Slot, Paying
      <3> QED
        BY <3>1, <3>2
    <2>4. ASSUME NEW q \in Partitions, NEW v \in Workers, Stray(r, q, v)'
          PROVE  Stray(r, q, v)
      <3>1. v # w
        BY <2>1, <2>4 DEF Stray, Handles
      <3> QED
        BY <1>1, <1>2, <2>1, <2>2, <2>4, <3>1 DEF Stray, PastCheck, Paying
    <2>5. Sources(r)' \subseteq Sources(r)
      BY <2>3, <2>4, PayoutAssumption DEF Sources
    <2> QED
      BY <1>1, <2>1, <2>5, BudgetKept
  <1>4. ASSUME UNCHANGED <<owner, current, faults>>,
               \A v \in Workers \ {w} : loop'[v] = loop[v],
               loop'[w] \in {"handle", "backoff"} =>
                  loop[w] \in {"handle", "backoff"},
               loop[w] # "handle"
        PROVE  Budget(r)'
    <2>1. \A v \in Workers : record(v)' = record(v)
      BY <1>1, <1>4 DEF record, K!message
    <2>2. /\ ~Paying(w)
          /\ \A p \in Partitions, v \in Workers :
                Handles(v, r, p)' => Handles(v, r, p)
          /\ \A p \in Partitions, v \in Workers :
                Handles(v, r, p) /\ Paying(v) => Handles(v, r, p)'
      BY <1>4, <2>1 DEF Handles, Paying, RunInv
    <2>3. Sources(r)' \subseteq Sources(r)
      BY <1>1, <1>2, <1>4, <2>2, SourcesShrink
    <2> QED
      BY <1>1, <1>4, <2>3, BudgetKept
  <1>5. ASSUME UNCHANGED <<owner, current>>, faults' = faults + 1,
               \A v \in Workers \ {w} : loop'[v] = loop[v]
        PROVE  Budget(r)'
    <2>1. Sources(r)' \subseteq Sources(r) \cup {mine(w)}
      BY <1>1, <1>2, <1>5, OnlyMine
    <2> QED
      BY <1>1, <1>5, <2>1, BudgetFault
  <1>6. CASE K!FetchCanceled(w) \/ K!BackoffEnds(w) \/ K!PublishDeadLetter(w)
             \/ K!CommitMessages(w)
    BY <1>1, <1>4, <1>6
    DEF K!FetchCanceled, K!BackoffEnds, K!PublishDeadLetter, K!CommitMessages,
        K!Goto, K!groupVars, K!outcomeVars
  <1>7. CASE K!DeadLetterFails(w)
    <2>1. ~canceled[w]
      BY <1>7 DEF K!DeadLetterFails, RunInv
    <2> QED
      BY <1>1, <1>5, <1>7, <2>1
      DEF K!DeadLetterFails, K!Goto, K!Fault, K!groupVars
  <1>8. CASE K!CommitFails(w)
    <2>1. ~closed[w]
      BY <1>8 DEF K!CommitFails, RunInv
    <2> QED
      BY <1>1, <1>5, <1>8, <2>1
      DEF K!CommitFails, K!Goto, K!Fault, K!groupVars
  <1> QED
    BY <1>3, <1>6, <1>7, <1>8 DEF K!Consume

\* A partition that gets its first owner is the source it was; if that owner
\* holds an event of it already, the worker no longer is one.
LEMMA JoinBudget ==
    ASSUME ConsumerInv, NEW w \in Workers, NEW p \in Partitions, K!Join(p, w),
           UNCHANGED <<req, payoutVars>>, NEW r \in Requests, Budget(r)
    PROVE  Budget(r)'
  <1>1. /\ UNCHANGED <<log, status, broadcasts, step, loop, current, faults>>
        /\ owner[p] = NoWorker /\ owner'[p] = w
        /\ \A q \in Partitions \ {p} : owner'[q] = owner[q]
        /\ faults \in Nat /\ broadcasts[r] \in Nat
    BY PayoutAssumption
    DEF K!Join, K!Assign, K!workerVars, payoutVars, recordVars, handlerVars,
        ConsumerInv, TypeInv, K!TypeOK, PayoutTypes
  <1>2. /\ Settled(r)' = Settled(r)
        /\ \A q \in Partitions : HasEvent(r, q)' = HasEvent(r, q)
        /\ \A q \in Partitions, v \in Workers : Handles(v, r, q)' = Handles(v, r, q)
        /\ \A v \in Workers : PastCheck(v)' = PastCheck(v) /\ Paying(v)' = Paying(v)
    BY <1>1 DEF Settled, HasEvent, Handles, record, K!message, PastCheck, Paying
  <1>3. \A q \in Partitions, v \in Workers : Stray(r, q, v)' => Stray(r, q, v)
    BY <1>1, <1>2, PayoutAssumption DEF Stray
  <1>4. \A q \in Partitions \ {p} : Slot(r, q)' => Slot(r, q)
    BY <1>1, <1>2 DEF Slot
  <1>5. Sources(r)' \subseteq Sources(r) \cup {<<p, NoWorker>>}
    BY <1>3, <1>4, PayoutAssumption DEF Sources
  <1>6. CASE Slot(r, p) \/ ~Slot(r, p)'
    <2>1. Sources(r)' \subseteq Sources(r)
      BY <1>3, <1>4, <1>6, PayoutAssumption DEF Sources
    <2> QED
      BY <1>1, <2>1, BudgetKept
  <1>7. CASE ~Slot(r, p) /\ Slot(r, p)'
    <2>1. Settled(r) /\ Handles(w, r, p) /\ PastCheck(w)
      BY <1>1, <1>2, <1>7, PayoutAssumption DEF Slot
    <2>2. <<p, w>> \in Sources(r) /\ <<p, w>> \notin Sources(r)'
      BY <1>1, <2>1, PayoutAssumption DEF Sources, Stray
    <2>3. Sources(r)' \subseteq (Sources(r) \ {<<p, w>>}) \cup {<<p, NoWorker>>}
      BY <1>5, <2>2
    <2>4. /\ IsFiniteSet(Sources(r) \ {<<p, w>>})
          /\ Cardinality(Sources(r) \ {<<p, w>>}) + 1 <= Cardinality(Sources(r))
          /\ Cardinality(Sources(r)) \in Nat
          /\ Cardinality(Sources(r) \ {<<p, w>>}) \in Nat
      BY <2>2, AtLeastOneLess, FS_CardinalityType DEF Budget
    <2>5. /\ IsFiniteSet(Sources(r)')
          /\ Cardinality(Sources(r)') <= Cardinality(Sources(r) \ {<<p, w>>}) + 1
          /\ Cardinality(Sources(r)') \in Nat
      BY <2>3, <2>4, AtMostOneMore, FS_CardinalityType
    <2> QED
      BY <1>1, <2>4, <2>5 DEF Budget
  <1> QED
    BY <1>6, <1>7

\* Who takes a partition over adds one source: the partition, if its owner was
\* paying from it, or else the owner that holds an event of it no longer as
\* the owner.
LEMMA RebalanceBudget ==
    ASSUME ConsumerInv, NEW w \in Workers, NEW p \in Partitions,
           K!Rebalance(p, w), UNCHANGED <<req, payoutVars>>,
           NEW r \in Requests, Budget(r)
    PROVE  Budget(r)'
  <1>1. /\ UNCHANGED <<log, status, broadcasts, step, loop, current>>
        /\ owner[p] \in Workers /\ owner'[p] = w /\ faults' = faults + 1
        /\ \A q \in Partitions \ {p} : owner'[q] = owner[q]
    BY DEF K!Rebalance, K!Assign, K!workerVars, K!Fault, payoutVars, recordVars,
           handlerVars, ConsumerInv, TypeInv, K!TypeOK
  <1>0. PICK o \in Workers : o = owner[p]
    BY <1>1
  <1>2. /\ Settled(r)' = Settled(r)
        /\ \A q \in Partitions : HasEvent(r, q)' = HasEvent(r, q)
        /\ \A q \in Partitions, v \in Workers : Handles(v, r, q)' = Handles(v, r, q)
        /\ \A v \in Workers : PastCheck(v)' = PastCheck(v) /\ Paying(v)' = Paying(v)
    BY <1>1 DEF Settled, HasEvent, Handles, record, K!message, PastCheck, Paying
  <1>3. \A q \in Partitions, v \in Workers :
            Stray(r, q, v)' => Stray(r, q, v) \/ (q = p /\ v = o)
    BY <1>1, <1>2, <1>0 DEF Stray
  <1>4. \A q \in Partitions \ {p} : Slot(r, q)' => Slot(r, q)
    BY <1>1, <1>2 DEF Slot
  <1>5. CASE Slot(r, p)
    <2>1. Sources(r)' \subseteq Sources(r) \cup {<<p, o>>}
      BY <1>3, <1>4, <1>5, PayoutAssumption DEF Sources
    <2> QED
      BY <1>1, <2>1, BudgetFault
  <1>6. CASE ~Slot(r, p)
    <2>1. ~Stray(r, p, o)'
      BY <1>1, <1>2, <1>6, <1>0, HandlesEvent DEF Slot, Stray
    <2>2. Sources(r)' \subseteq Sources(r) \cup {<<p, NoWorker>>}
      BY <1>3, <1>4, <2>1, PayoutAssumption DEF Sources
    <2> QED
      BY <1>1, <2>2, BudgetFault
  <1> QED
    BY <1>5, <1>6

\* A dead worker's event is fetched again by whoever gets its partition.
LEMMA CrashBudget ==
    ASSUME ConsumerInv, NEW w \in Workers, Crash(w), NEW r \in Requests, Budget(r)
    PROVE  Budget(r)'
  <1>1. /\ UNCHANGED <<log, status, broadcasts, current>> /\ faults' = faults + 1
        /\ loop' = [loop EXCEPT ![w] = "stopped"]
        /\ \A v \in Workers \ {w} : loop'[v] = loop[v] /\ step'[v] = step[v]
        /\ owner' = [p \in Partitions |-> IF owner[p] = w THEN NoWorker ELSE owner[p]]
        /\ loop \in [Workers -> K!Loops]
    BY DEF Crash, K!Crash, K!Goto, K!Fault, K!LeaveGroup, recordVars, ConsumerInv,
           TypeInv, K!TypeOK, PayoutTypes
  <1>2. /\ Settled(r)' = Settled(r)
        /\ \A q \in Partitions : HasEvent(r, q)' = HasEvent(r, q)
        /\ \A q \in Partitions, v \in Workers \ {w} :
              Handles(v, r, q)' = Handles(v, r, q)
        /\ \A q \in Partitions : ~Handles(w, r, q)'
    BY <1>1 DEF Settled, HasEvent, Handles, record, K!message
  <1>3. \A q \in Partitions, v \in Workers : Stray(r, q, v)' => Stray(r, q, v)
    BY <1>1, <1>2, PayoutAssumption DEF Stray, PastCheck, Paying
  <1>4. ASSUME NEW q \in Partitions, q # current[w][1], Slot(r, q)'
        PROVE  Slot(r, q)
    <2>1. ~Handles(w, r, q)
      BY <1>4 DEF Handles
    <2>2. CASE Settled(r)
      BY <1>1, <1>2, <1>4, <2>2, PayoutAssumption DEF Slot, PastCheck
    <2>3. CASE ~Settled(r)
      BY <1>1, <1>2, <1>4, <2>1, <2>3 DEF Slot, Paying
    <2> QED
      BY <2>2, <2>3
  <1>5. Sources(r)' \subseteq Sources(r) \cup {<<current[w][1], NoWorker>>}
    BY <1>3, <1>4, PayoutAssumption DEF Sources
  <1> QED
    BY <1>1, <1>5, BudgetFault

\* The second copy of an event is a fault, and the first one is the only
\* source there is.
LEMMA PublishBudget ==
    ASSUME ConsumerInv, SourcesInv, [Next]_vars, NEW q \in Requests,
           NEW p \in Partitions, Publish(q, p), NEW r \in Requests
    PROVE  Budget(r)'
  <1> USE DEF PastCheck, Paying
  <1>1. /\ UNCHANGED <<status, broadcasts, step, loop, current, owner>>
        /\ status[q] = "absent" /\ log' = [log EXCEPT ![p] = Append(log[p], q)]
        /\ faults' = IF Published(q) THEN faults + 1 ELSE faults
        /\ faults \in Nat /\ broadcasts[r] \in Nat
        /\ log \in [Partitions -> Seq(Requests)]
    BY PayoutAssumption
    DEF Publish, Fault, consumerVars, payoutVars, recordVars, handlerVars,
        ConsumerInv, TypeInv, K!TypeOK, PayoutTypes
  <1>2. Settled(r)' = Settled(r) /\ ~Settled(q)
    BY <1>1 DEF Settled
  <1>3. \A s \in Partitions, v \in Workers : Handles(v, r, s)' = Handles(v, r, s)
    BY <1>1, RecordStays DEF Handles, K!InHand
  <1>4. \A s \in Partitions :
            (r # q \/ s # p) => HasEvent(r, s)' = HasEvent(r, s)
    <2> SUFFICES ASSUME NEW s \in Partitions, r # q \/ s # p
                 PROVE  HasEvent(r, s)' = HasEvent(r, s)
      OBVIOUS
    <2>1. CASE s # p
      BY <1>1, <2>1 DEF HasEvent
    <2>2. CASE s = p /\ r # q
      <3>1. /\ log[p] \in Seq(Requests) /\ log'[p] = Append(log[p], q)
            /\ Len(log[p]) \in Nat
        BY <1>1
      <3>2. /\ DOMAIN log[p] = 1..Len(log[p])
            /\ DOMAIN log'[p] = 1..(Len(log[p]) + 1)
            /\ log'[p][Len(log[p]) + 1] = q
            /\ \A i \in 1..Len(log[p]) : log'[p][i] = log[p][i]
        BY <3>1
      <3> QED
        BY <2>2, <3>1, <3>2 DEF HasEvent
    <2> QED
      BY <2>1, <2>2
  <1>5. \A s \in Partitions, v \in Workers : Stray(r, s, v)' => Stray(r, s, v)
    BY <1>1, <1>2, <1>3 DEF Stray
  <1>6. \A s \in Partitions :
            (r # q \/ s # p) => (Slot(r, s)' => Slot(r, s))
    BY <1>1, <1>2, <1>3, <1>4 DEF Slot
  <1>7. CASE r # q
    <2>1. Sources(r)' \subseteq Sources(r)
      BY <1>5, <1>6, <1>7, PayoutAssumption DEF Sources
    <2> QED
      BY <1>1, <2>1, BudgetKept DEF SourcesInv, Budget
  <1>8. CASE r = q
    <2>1. Sources(r)' \subseteq Sources(r) \cup {<<p, NoWorker>>}
      BY <1>5, <1>6, PayoutAssumption DEF Sources
    <2>2. CASE Published(q)
      BY <1>1, <1>8, <2>1, <2>2, BudgetFault DEF SourcesInv, Budget
    <2>3. CASE ~Published(q)
      <3>1. \A s \in Partitions : ~HasEvent(r, s)
        BY <1>8, <2>3 DEF Published, HasEvent
      <3>2. Sources(r) = {}
        BY <3>1, HandlesEvent, PayoutAssumption DEF Sources, Slot, Stray
      <3>3. broadcasts'[r] = 0
        BY <1>1, <1>8, <2>3 DEF SourcesInv
      <3>4. /\ IsFiniteSet(Sources(r)') /\ Cardinality(Sources(r)') <= 0 + 1
            /\ Cardinality(Sources(r)') \in Nat
        BY <2>1, <3>2, AtMostOneMore, FS_EmptySet, FS_CardinalityType
      <3> QED
        BY <1>1, <3>3, <3>4 DEF Budget
    <2> QED
      BY <2>2, <2>3
  <1> QED
    BY <1>7, <1>8

\* Nothing is paid that was not published.
LEMMA PublishedStep ==
    ASSUME ConsumerInv, SourcesInv, [Next]_vars, NEW r \in Requests,
           ~Published(r)'
    PROVE  broadcasts'[r] = 0
  <1>1. ~Published(r)
    <2> SUFFICES ASSUME Published(r) PROVE Published(r)'
      OBVIOUS
    <2>0. PICK p \in Partitions : \E i \in DOMAIN log[p] : log[p][i] = r
      BY DEF Published
    <2>1. PICK i \in DOMAIN log[p] : log[p][i] = r
      BY <2>0
    <2>2. /\ log[p] \in Seq(Requests) /\ log'[p] \in Seq(Requests)
          /\ DOMAIN log[p] = 1..Len(log[p]) /\ DOMAIN log'[p] = 1..Len(log'[p])
          /\ Len(log[p]) \in Nat /\ Len(log'[p]) \in Nat
      BY TypeStep DEF ConsumerInv, TypeInv, K!TypeOK
    <2>3. Stored(<<p, i>>)
      BY <2>1, <2>2 DEF Stored, K!Events
    <2>4. log'[p][i] = log[p][i] /\ i \in DOMAIN log'[p]
      BY <2>1, <2>2, <2>3, LogGrows
    <2> QED
      BY <2>1, <2>4 DEF Published
  <1>2. broadcasts[r] = 0
    BY <1>1 DEF SourcesInv
  <1>3. CASE UNCHANGED broadcasts
    BY <1>2, <1>3
  <1>4. ASSUME NEW w \in Workers, ProcessApplied(w), UNCHANGED log
        PROVE  broadcasts'[r] = 0
    <2>1. LoopEffect(w) /\ RecordEffect(w) /\ record(w) \in Requests
      BY <1>4, HandlerLoop, HandlerRecords, RecordType DEF LoopEffect, K!InHand
    <2>2. record(w) # r
      BY <1>1, <2>1, HandlesEvent DEF LoopEffect, Handles, HasEvent, Published
    <2> QED
      BY <1>2, <2>1, <2>2
      DEF RecordEffect, NodeAccepts, ConsumerInv, TypeInv, PayoutTypes
  <1> QED
    BY <1>3, <1>4
    DEF Next, PayoutNext, Apply, ConsumerLoop, Crash, ExpireCheckpoint,
        CorrectByHand, Receive, Publish, CommitRecord, vars, payoutVars

\* Every step keeps the budget of every record.
LEMMA SourcesStep ==
    ASSUME ConsumerInv, HandlerInv, SourcesInv, [Next]_vars
    PROVE  SourcesInv'
  <1> SUFFICES ASSUME NEW r \in Requests PROVE Budget(r)'
    BY PublishedStep DEF SourcesInv, Budget
  <1>0. Budget(r) /\ faults \in Nat
    BY PayoutAssumption DEF SourcesInv, Budget, ConsumerInv, TypeInv, K!TypeOK
  <1>1. ASSUME NEW w \in Workers, ProcessApplied(w), UNCHANGED log
        PROVE  Budget(r)'
    BY <1>0, <1>1, HandlerBudget
  <1>2. ASSUME NEW w \in Workers, ConsumerLoop(w), UNCHANGED <<req, payoutVars>>
        PROVE  Budget(r)'
    <2>1. CASE K!Restart(w)
      <3>1. /\ UNCHANGED <<log, owner, status, step, broadcasts, faults>>
            /\ loop[w] = "stopped" /\ loop'[w] = "fetch"
            /\ \A v \in Workers \ {w} :
                  loop'[v] = loop[v] /\ current'[v] = current[v]
        BY <1>2, <2>1
        DEF K!Restart, K!Goto, K!groupVars, payoutVars, recordVars, handlerVars,
            ConsumerInv, TypeInv, K!TypeOK
      <3>2. /\ Settled(r)' = Settled(r)
            /\ \A p \in Partitions : HasEvent(r, p)' = HasEvent(r, p)
            /\ \A p \in Partitions, v \in Workers :
                  Handles(v, r, p)' = Handles(v, r, p)
        BY <3>1 DEF Settled, HasEvent, Handles, record, K!message
      <3>3. Sources(r)' \subseteq Sources(r)
        BY <3>1, <3>2, SourcesShrink
      <3> QED
        BY <1>0, <3>1, <3>3, BudgetKept
    <2> QED
      BY <1>0, <1>2, <2>1, ConsumeBudget, JoinBudget, RebalanceBudget
      DEF ConsumerLoop
  <1>3. ASSUME NEW w \in Workers, Crash(w) PROVE Budget(r)'
    BY <1>0, <1>3, CrashBudget
  <1>4. ASSUME NEW q \in Requests, NEW p \in Partitions, Publish(q, p)
        PROVE  Budget(r)'
    BY <1>4, PublishBudget
  <1>5. ASSUME UNCHANGED <<log, owner, current, loop, step, broadcasts>>,
               faults' \in Nat, faults <= faults'
        PROVE  Budget(r)'
    <2>1. /\ Settled(r) => Settled(r)'
          /\ \A p \in Partitions : HasEvent(r, p)' = HasEvent(r, p)
          /\ \A p \in Partitions, v \in Workers :
                Handles(v, r, p)' = Handles(v, r, p)
      BY <1>5, RecordsGrow DEF Settled, HasEvent, Handles, record, K!message
    <2>2. Sources(r)' \subseteq Sources(r)
      BY <1>5, <2>1, SourcesShrink
    <2> QED
      BY <1>0, <1>5, <2>2, BudgetKept
  <1>6. ASSUME NEW q \in Requests,
               \/ ExpireCheckpoint(q) \/ CorrectByHand(q) \/ CommitRecord(q)
               \/ \E in : Receive(q, in)
        PROVE  Budget(r)'
    BY <1>0, <1>5, <1>6
    DEF ExpireCheckpoint, CorrectByHand, CommitRecord, Receive, Fault,
        consumerVars, payoutVars, handlerVars
  <1>7. CASE UNCHANGED vars
    BY <1>0, <1>5, <1>7 DEF vars, consumerVars, payoutVars, handlerVars
  <1> QED
    BY <1>1, <1>2, <1>3, <1>4, <1>6, <1>7 DEF Next, PayoutNext, Apply

-----------------------------------------------------------------------------
(* The theorems. *)

PayoutInv ==
    /\ ConsumerInv
    /\ HandlerInv
    /\ CheckpointInv
    /\ AckedIsSettled
    /\ SourcesInv

\* The inductive invariant holds at the start.
LEMMA InvInit == Init => PayoutInv
  <1> SUFFICES ASSUME Init PROVE PayoutInv
    OBVIOUS
  <1>1. ConsumerInv
    BY ConsumerInit
  <1>2. HandlerInv /\ CheckpointInv /\ AckedIsSettled
    BY DEF Init, PayoutInit, K!ConsumerInit, HandlerInv, HandlerOk, CheckpointInv,
           AckedIsSettled
  <1>3. ASSUME NEW r \in Requests
        PROVE  /\ IsFiniteSet(Sources(r))
               /\ broadcasts[r] + Cardinality(Sources(r)) <= 1 + faults
               /\ broadcasts[r] = 0
    <2>1. /\ \A p \in Partitions : ~HasEvent(r, p)
          /\ \A p \in Partitions, w \in Workers : ~Handles(w, r, p)
          /\ broadcasts[r] = 0 /\ faults = 0
      BY DEF Init, PayoutInit, K!ConsumerInit, HasEvent, Handles
    <2>2. Sources(r) = {}
      BY <2>1, PayoutAssumption DEF Sources, Slot, Stray
    <2> QED
      BY <2>1, <2>2, FS_EmptySet
  <1> QED
    BY <1>1, <1>2, <1>3 DEF PayoutInv, SourcesInv

\* Every step keeps the inductive invariant.
LEMMA InvStep == PayoutInv /\ [Next]_vars => PayoutInv'
  BY TypeStep, LogStep, HandlerStep, AckedStep, SourcesStep
  DEF PayoutInv, ConsumerInv

\* The inductive invariant always holds.
LEMMA InvAlways == Spec => []PayoutInv
  BY InvInit, InvStep, PTL DEF Spec

\* The payments of a record stay within the bound of the lifecycle.
LEMMA InvBounds ==
    ASSUME PayoutInv, NEW r \in Requests
    PROVE  broadcasts[r] <= 1 + faults /\ faults \in 0..MaxFaults
  <1>1. /\ broadcasts[r] \in Nat /\ faults \in 0..MaxFaults
        /\ IsFiniteSet(Sources(r))
        /\ broadcasts[r] + Cardinality(Sources(r)) <= 1 + faults
    BY DEF PayoutInv, ConsumerInv, TypeInv, PayoutTypes, K!TypeOK, SourcesInv
  <1>2. Cardinality(Sources(r)) \in Nat
    BY <1>1, FS_CardinalityType
  <1> QED
    BY <1>1, <1>2, PayoutAssumption

\* Every variable of the pay-out keeps its type; that the transaction ids stay
\* within TxIds is the bound on the payments.
THEOREM PayoutTypeCorrect == Spec => []TypeOK
  <1>1. PayoutInv => TypeOK
    <2> SUFFICES ASSUME PayoutInv PROVE TypeOK
      OBVIOUS
    <2> USE PayoutAssumption
    <2>1. TypeInv
      BY DEF PayoutInv, ConsumerInv
    <2>2. ASSUME NEW r \in Requests
          PROVE  txid[r] \in TxIds /\ checkpoint[r] \in TxIds /\ broadcasts[r] \in TxIds
      BY <2>1, InvBounds
      DEF PayoutInv, CheckpointInv, TypeInv, PayoutTypes, TxIds
    <2>3. ASSUME NEW w \in Workers PROVE sent[w] \in TxIds
      <3>1. CASE sent[w] = 0
        BY <3>1 DEF TxIds
      <3>2. CASE sent[w] # 0
        <4>1. step[w] # "find" /\ sent[w] \in 1..broadcasts[record(w)]
          BY <3>2 DEF PayoutInv, HandlerInv, HandlerOk
        <4>2. record(w) \in Requests
          BY <4>1, RecordType DEF PayoutInv, ConsumerInv, RunInv, K!InHand
        <4> QED
          BY <2>2, <4>1, <4>2 DEF TxIds
      <3> QED
        BY <3>1, <3>2
    <2> QED
      BY <2>1, <2>2, <2>3 DEF TypeOK, TypeInv, PayoutTypes
  <1> QED
    BY <1>1, InvAlways, PTL

\* An event whose handler returned nil is settled for ever, whatever failed on
\* the way, however many workers handled it, and in whatever order.
THEOREM AcknowledgedIsSettled == Spec => []AckedIsSettled
  <1>1. PayoutInv => AckedIsSettled
    BY DEF PayoutInv
  <1> QED
    BY <1>1, InvAlways, PTL

\* However many workers and partitions there are, a withdrawal is paid once,
\* and at most once more for every fault.
THEOREM ExtraPaymentsNeedFaults == Spec => []PaymentsNeedFaults
  <1>1. PayoutInv => PaymentsNeedFaults
    BY InvBounds DEF PaymentsNeedFaults
  <1> QED
    BY <1>1, InvAlways, PTL

-----------------------------------------------------------------------------
(* Refinement. *)

\* Writing a row makes the withdrawal succeed with one of its transactions, or
\* finds it settled.
LEMMA MarkIsSucceed ==
    ASSUME PayoutInv, NEW w \in Workers,
           step[w] \in {"finalize", "mark"}, record(w) \in Requests,
           MarkSuccess(record(w), sent[w]) \/ UNCHANGED recordVars,
           UNCHANGED broadcasts
    PROVE  L!Succeed(record(w)) \/ UNCHANGED L!vars
  <1>1. sent[w] \in 1..broadcasts[record(w)]
    BY DEF PayoutInv, HandlerInv, HandlerOk
  <1> QED
    BY <1>1 DEF MarkSuccess, recordVars, L!Succeed, L!vars

\* Every step is a step of the lifecycle, or changes nothing it sees.
LEMMA LifecycleStep ==
    ASSUME PayoutInv, [Next]_vars PROVE [L!Next]_(L!vars)
  <1>1. CASE UNCHANGED <<status, txid, broadcasts>>
    BY <1>1 DEF L!vars
  <1>2. ASSUME NEW w \in Workers, ProcessApplied(w), UNCHANGED log
        PROVE  [L!Next]_(L!vars)
    <2>1. /\ LoopEffect(w) /\ RecordEffect(w) /\ record(w) \in Requests
          /\ HandlerOk(w)
      BY <1>2, HandlerLoop, HandlerRecords, RecordType
      DEF LoopEffect, K!InHand, PayoutInv, HandlerInv
    <2>2. CASE step[w] \in {"finalize", "mark"}
      <3>1. /\ MarkSuccess(record(w), sent[w]) \/ UNCHANGED recordVars
            /\ UNCHANGED broadcasts
        BY <2>1, <2>2 DEF RecordEffect
      <3> QED
        BY <2>1, <2>2, <3>1, MarkIsSucceed DEF L!Next
    <2>3. CASE step[w] = "send"
      BY <2>1, <2>3
      DEF RecordEffect, NodeAccepts, recordVars, HandlerOk, L!Next, L!Pay, L!vars
    <2>4. CASE step[w] \notin {"finalize", "mark", "send"}
      BY <2>1, <2>4 DEF RecordEffect, recordVars, L!vars
    <2> QED
      BY <2>2, <2>3, <2>4
  <1>3. ASSUME NEW r \in Requests, CorrectByHand(r) PROVE [L!Next]_(L!vars)
    BY <1>3 DEF CorrectByHand, L!Next, L!Correct
  <1>4. ASSUME NEW r \in Requests, CommitRecord(r) PROVE [L!Next]_(L!vars)
    BY <1>4 DEF CommitRecord, L!Next, L!Accept
  <1> QED
    BY <1>1, <1>2, <1>3, <1>4
    DEF Next, PayoutNext, Apply, ConsumerLoop, Crash, ExpireCheckpoint, Receive,
        Publish, vars, payoutVars, recordVars

\* The pay-out does to a withdrawal what WithdrawLifecycle allows and nothing
\* else: money leaves only for a committed row, a row succeeds only with one of
\* its own transactions, and a settled row is not touched again.
THEOREM PayoutImplementsLifecycle == Spec => ImplementsLifecycle
  <1>1. Init => L!Init
    BY DEF Init, PayoutInit, L!Init
  <1>2. PayoutInv /\ [Next]_vars => [L!Next]_(L!vars)
    BY LifecycleStep
  <1> QED
    BY <1>1, <1>2, InvAlways, PTL DEF Spec, ImplementsLifecycle, L!Spec

-----------------------------------------------------------------------------
(* One worker. *)

\* Between the read of the checkpoint and Send the only worker holds on to its
\* record, and nobody else writes an id to Redis.
SendingUnchecked ==
    \A w \in Workers :
        step[w] \in {"lookup", "send"} => checkpoint[record(w)] = 0

\* Every step of a lone worker keeps its checkpoint empty while it sends.
LEMMA SendingStep ==
    ASSUME NEW w, Workers = {w}, PayoutInv, SendingUnchecked, [Next]_vars
    PROVE  SendingUnchecked'
  <1> SUFFICES ASSUME step'[w] \in {"lookup", "send"}
               PROVE  checkpoint'[record(w)'] = 0
    BY DEF SendingUnchecked
  <1> USE DEF PayoutInv
  <1>t. /\ step \in [Workers -> HandlerSteps]
        /\ checkpoint \in [Requests -> Nat]
    BY DEF ConsumerInv, TypeInv, PayoutTypes
  <1>1. ASSUME ProcessApplied(w), UNCHANGED log
        PROVE  checkpoint'[record(w)'] = 0
    <2>1. LoadCheckpoint(w) \/ FindWallet(w)
      BY <1>1, <1>t
      DEF ProcessApplied, RecordNotCommitted, RecordSucceeded, RecordUnsupported,
          RecordProcessing, FinalizeFromCache, UnsupportedCoin, Send,
          SendRefused, SendUnanswered, StoreCheckpoint, StoreFails, MarkRecord,
          MarkFails, CallFails, Call, Return
    <2>2. record(w)' = record(w)
      BY <1>1, HandlerLoop DEF LoopEffect, record, K!message
    <2> QED
      BY <1>t, <2>1, <2>2
      DEF LoadCheckpoint, FindWallet, At, Call, SendingUnchecked
  <1>2. ASSUME UNCHANGED step,
               loop[w] = "handle" => UNCHANGED current,
               \/ UNCHANGED checkpoint
               \/ \E r \in Requests : ExpireCheckpoint(r)
        PROVE  checkpoint'[record(w)'] = 0
    <2>1. loop[w] = "handle" /\ checkpoint[record(w)] = 0
      BY <1>2 DEF SendingUnchecked, ConsumerInv, RunInv
    <2>2. record(w)' = record(w) /\ record(w) \in Requests
      BY <1>2, <2>1, RecordStays DEF K!InHand
    <2> QED
      BY <1>t, <1>2, <2>1, <2>2 DEF ExpireCheckpoint
  <1>3. ASSUME ConsumerLoop(w), UNCHANGED <<req, payoutVars>>
        PROVE  checkpoint'[record(w)'] = 0
    BY <1>2, <1>3
    DEF ConsumerLoop, K!Consume, K!FetchMessage, K!FetchCanceled, K!BackoffEnds,
        K!PublishDeadLetter, K!DeadLetterFails, K!CommitMessages, K!CommitFails,
        K!Join, K!Rebalance, K!Assign, K!Restart, K!workerVars, payoutVars,
        handlerVars
  <1>4. ~Crash(w)
    BY <1>t DEF Crash
  <1> QED
    BY <1>1, <1>2, <1>3, <1>4
    DEF Next, PayoutNext, Apply, ExpireCheckpoint, CorrectByHand, Receive,
        Publish, CommitRecord, vars, consumerVars, payoutVars, handlerVars

\* With one worker no transaction is sent over a checkpoint that is there.
THEOREM OneWorkerSendsUnchecked ==
    ASSUME NEW w, Workers = {w} PROVE Spec => NoSendOverCheckpoint
  <1>1. Init => SendingUnchecked
    BY DEF Init, PayoutInit, SendingUnchecked
  <1>2. PayoutInv /\ SendingUnchecked /\ [Next]_vars => SendingUnchecked'
    BY SendingStep
  <1>3. PayoutInv /\ SendingUnchecked /\ [Next]_vars =>
            [\A r \in Requests :
                broadcasts[r]' # broadcasts[r] => checkpoint[r] = 0]_vars
    <2> SUFFICES ASSUME PayoutInv, SendingUnchecked, [Next]_vars,
                        NEW r \in Requests, broadcasts'[r] # broadcasts[r]
                 PROVE  checkpoint[r] = 0
      OBVIOUS
    <2>1. ProcessApplied(w) /\ UNCHANGED log
      BY DEF Next, PayoutNext, Apply, ConsumerLoop, Crash, ExpireCheckpoint,
             CorrectByHand, Receive, Publish, CommitRecord, vars, payoutVars
    <2>2. LoopEffect(w) /\ RecordEffect(w)
      BY <2>1, HandlerLoop, HandlerRecords DEF PayoutInv
    <2>3. step[w] = "send" /\ record(w) = r
      BY <2>2
      DEF RecordEffect, NodeAccepts, PayoutInv, ConsumerInv, TypeInv, PayoutTypes
    <2> QED
      BY <2>3 DEF SendingUnchecked
  <1> QED
    BY <1>1, <1>2, <1>3, InvAlways, PTL DEF Spec, NoSendOverCheckpoint

(***************************************************************************)
(* WithdrawPipeline.                                                       *)
(***************************************************************************)

\* The types WithdrawApply needs; a status may also be one of the pay-out's.
ApplyTypes ==
    /\ pc \in [Requests -> A!Steps]
    /\ req \in [Requests -> A!Inputs \cup {NoInput}]
    /\ frozen \in [Wallets -> Int]
    /\ log \in [Partitions -> Seq(Requests)]
    /\ status \in [Requests -> {"absent", "processing", "success", "corrected"}]
    /\ faults \in 0..MaxFaults

\* What a request has done before each of its steps.
RequestOk(r) ==
    /\ pc[r] = "idle" => req[r] = NoInput
    /\ pc[r] \notin {"idle", "rejected"} => req[r] \in A!Inputs
    /\ req[r] # NoInput => req[r].amount > 0
    /\ pc[r] = "commit" => Published(r)
    /\ status[r] # "absent" => pc[r] \in {"accepted", "rejected"}
                               /\ req[r] \in A!Inputs

SentRequests == {r \in Requests : Published(r)}

\* An event for every request that published, and one more for every fault.
EventsFit ==
    \A p \in Partitions : Len(log[p]) <= Cardinality(SentRequests) + faults

FrozenIsSum == \A w \in Wallets : frozen[w] = A!AmountOf(A!Committed(w))

RequestInv == ApplyTypes /\ \A r \in Requests : RequestOk(r)

-----------------------------------------------------------------------------
(* What the steps of the two services change.                                *)

\* The request arrives, and is valid.
Arrives(r, in) ==
    /\ pc[r] = "idle" /\ pc' = [pc EXCEPT ![r] = "authenticate"]
    /\ in.amount > 0 /\ in.fee >= 0 /\ in.fee <= in.amount
    /\ req' = [req EXCEPT ![r] = in]
    /\ UNCHANGED <<log, status, faults, frozen>>

\* The request is at another of its steps, neither the first nor the commit.
MovesOn(r) ==
    /\ pc[r] \notin {"accepted", "rejected"}
    /\ \E s \in A!Steps \ {"idle", "commit"} :
        /\ pc' = [pc EXCEPT ![r] = s]
        /\ pc[r] = "idle" => s = "rejected"
    /\ UNCHANGED <<req, log, status, faults, frozen>>

\* Its event is stored in partition p.
Appends(r, p) ==
    /\ pc[r] = "publish"
    /\ pc' = pc \/ pc' = [pc EXCEPT ![r] = "commit"]
    /\ log' = [log EXCEPT ![p] = Append(log[p], r)]
    /\ IF Published(r) THEN Fault ELSE UNCHANGED faults
    /\ UNCHANGED <<req, status, frozen>>

\* Its rows are committed.
Commits(r) ==
    /\ pc[r] = "commit"
    /\ \/ pc' = [pc EXCEPT ![r] = "accepted"]
       \/ pc' = [pc EXCEPT ![r] = "rejected"]
    /\ frozen' = [frozen EXCEPT ![A!walletOf(r)] = @ + req[r].amount]
    /\ status' = [status EXCEPT ![r] = "processing"]
    /\ UNCHANGED <<req, log, faults>>

\* A step that is nobody's but the code cache's.
Elsewhere == UNCHANGED <<pc, req, log, status, faults, frozen>>

\* Every step of WithdrawApply is one of these.
LEMMA ApplySteps ==
    ASSUME ApplyTypes, A!Next
    PROVE  \/ Elsewhere
           \/ \E r \in Requests :
                \/ \E in \in A!Inputs : Arrives(r, in)
                \/ MovesOn(r)
                \/ \E p \in Partitions : Appends(r, p)
                \/ Commits(r)
  <1> USE DEF A!Step, A!rows
  <1>1. ASSUME NEW m \in Members,
               (\E c \in Codes : A!SendCode(m, c)) \/ A!ExpireCode(m)
        PROVE  Elsewhere
    BY <1>1 DEF A!SendCode, A!ExpireCode, Elsewhere
  <1>2. ASSUME NEW r \in Requests, NEW in \in A!Inputs, A!Receive(r, in)
        PROVE  Arrives(r, in) \/ MovesOn(r)
    <2>1. CASE A!validateWithdrawApplyRequest(in)
      BY <1>2, <2>1 DEF A!Receive, A!validateWithdrawApplyRequest, Arrives
    <2>2. CASE ~A!validateWithdrawApplyRequest(in)
      BY <1>2, <2>2 DEF A!Receive, MovesOn, A!Steps
    <2> QED
      BY <2>1, <2>2
  <1>3. ASSUME NEW r \in Requests,
               \/ A!Authenticate(r) \/ A!RejectAuthentication(r)
               \/ A!LockWallet(r) \/ A!InsufficientBalance(r)
               \/ A!FreezeBalance(r) \/ A!SaveRecord(r) \/ A!Rollback(r)
        PROVE  MovesOn(r)
    BY <1>3
    DEF A!Authenticate, A!RejectAuthentication, A!LockWallet,
        A!InsufficientBalance, A!FreezeBalance, A!SaveRecord, A!Rollback,
        MovesOn, A!Steps
  <1>4. ASSUME NEW r \in Requests, NEW p \in Partitions,
               A!Publish(r, p) \/ A!PublishUnanswered(r, p)
        PROVE  Appends(r, p)
    BY <1>4
    DEF A!Publish, A!PublishUnanswered, A!AppendEvent, A!Published, Published,
        Fault, Appends
  <1>5. ASSUME NEW r \in Requests, A!Commit(r) \/ A!CommitUnanswered(r)
        PROVE  Commits(r)
    BY <1>5 DEF A!Commit, A!CommitUnanswered, A!CommitRows, Commits
  <1> QED
    BY <1>1, <1>2, <1>3, <1>4, <1>5 DEF A!Next, A!Transaction

\* The pay-out reads the topic and the requests, and writes no first status.
PayoutEffect ==
    /\ UNCHANGED <<log, req>>
    /\ status' \in [Requests -> {"absent", "processing", "success", "corrected"}]
    /\ \A r \in Requests : status'[r] = "absent" <=> status[r] = "absent"
    /\ faults' = faults \/ Fault

\* Every step of the pay-out is one of these.
LEMMA PayoutSteps ==
    ASSUME ApplyTypes, PayoutNext PROVE PayoutEffect
  <1> USE DEF ApplyTypes
  <1>1. ASSUME NEW w \in Workers, ProcessApplied(w), UNCHANGED log
        PROVE  PayoutEffect
    <2>1. UNCHANGED req /\ (faults' = faults \/ Fault)
      BY <1>1
      DEF ProcessApplied, RecordNotCommitted, RecordSucceeded, RecordUnsupported,
          RecordProcessing, LoadCheckpoint, FinalizeFromCache, UnsupportedCoin,
          FindWallet, Send, SendRefused, SendUnanswered, StoreCheckpoint,
          StoreFails, MarkRecord, MarkFails, CallFails
    <2>2. UNCHANGED recordVars \/ MarkSuccess(record(w), sent[w])
      BY <1>1, HandlerRecords DEF RecordEffect
    <2> QED
      BY <1>1, <2>1, <2>2 DEF MarkSuccess, recordVars, PayoutEffect
  <1>2. ASSUME NEW w \in Workers, ConsumerLoop(w), UNCHANGED <<req, payoutVars>>
        PROVE  PayoutEffect
    <2>1. UNCHANGED <<log, req, status>>
      BY <1>2, ConsumeEffect DEF ConsumerLoop, payoutVars, recordVars
    <2>2. faults' = faults \/ Fault
      BY <1>2
      DEF ConsumerLoop, K!Consume, K!FetchMessage, K!FetchCanceled,
          K!BackoffEnds, K!PublishDeadLetter, K!DeadLetterFails,
          K!CommitMessages, K!CommitFails, K!Join, K!Rebalance, K!Restart,
          K!Fault, Fault
    <2> QED
      BY <2>1, <2>2 DEF PayoutEffect
  <1>3. ASSUME NEW w \in Workers, Crash(w) PROVE PayoutEffect
    BY <1>3, ConsumeEffect DEF Crash, K!Crash, K!Fault, Fault, recordVars, PayoutEffect
  <1>4. ASSUME NEW r \in Requests, ExpireCheckpoint(r) \/ CorrectByHand(r)
        PROVE  PayoutEffect
    BY <1>4 DEF ExpireCheckpoint, CorrectByHand, recordVars, PayoutEffect
  <1> QED
    BY <1>1, <1>2, <1>3, <1>4 DEF PayoutNext

\* A step of the pipeline, as far as WithdrawApply is concerned.
LEMMA PipelineSteps ==
    ASSUME ApplyTypes, [PipelineNext]_pipelineVars
    PROVE  \/ PayoutEffect /\ UNCHANGED <<pc, frozen>>
           \/ Elsewhere
           \/ \E r \in Requests :
                \/ \E in \in A!Inputs : Arrives(r, in)
                \/ MovesOn(r)
                \/ \E p \in Partitions : Appends(r, p)
                \/ Commits(r)
  <1>1. CASE A!Next
    BY <1>1, ApplySteps
  <1>2. CASE PayoutNext /\ UNCHANGED applyOnly
    BY <1>2, PayoutSteps DEF applyOnly
  <1>3. CASE UNCHANGED pipelineVars
    BY <1>3
    DEF pipelineVars, applyOnly, vars, payoutVars, recordVars, Elsewhere
  <1> QED
    BY <1>1, <1>2, <1>3 DEF PipelineNext

-----------------------------------------------------------------------------
(* Requests. *)

\* The requests and their types are in order at the start.
LEMMA RequestInit == PipelineInit => RequestInv
  BY PayoutAssumption
  DEF PipelineInit, A!Init, A!Wallets, Wallets, RequestInv, ApplyTypes, RequestOk,
      A!Steps

\* What an event in the topic does not change: it stays there.
LEMMA AppendPublishes ==
    ASSUME ApplyTypes, NEW r \in Requests, NEW p \in Partitions, Appends(r, p)
    PROVE  /\ Published(r)'
           /\ \A q \in Requests : Published(q) => Published(q)'
           /\ \A q \in Requests \ {r} : Published(q)' => Published(q)
           /\ Len(log'[p]) = Len(log[p]) + 1
           /\ \A s \in Partitions \ {p} : log'[s] = log[s]
           /\ \A s \in Partitions : Len(log[s]) \in Nat
  <1>1. log \in [Partitions -> Seq(Requests)]
    BY DEF ApplyTypes
  <1>2. log' = [log EXCEPT ![p] = Append(log[p], r)]
    BY DEF Appends
  <1>3. /\ Len(log'[p]) = Len(log[p]) + 1
        /\ \A s \in Partitions \ {p} : log'[s] = log[s]
        /\ \A s \in Partitions : Len(log[s]) \in Nat
    BY <1>1, <1>2
  <1>4. Len(log[p]) + 1 \in DOMAIN log'[p] /\ log'[p][Len(log[p]) + 1] = r
    BY <1>1, <1>2
  <1>5. \A s \in Partitions : \A i \in DOMAIN log[s] :
            i \in DOMAIN log'[s] /\ log'[s][i] = log[s][i]
    BY <1>1, <1>2
  <1>6. \A s \in Partitions : \A i \in DOMAIN log'[s] :
            log'[s][i] = r \/ (i \in DOMAIN log[s] /\ log'[s][i] = log[s][i])
    BY <1>1, <1>2
  <1>7. Published(r)'
    BY <1>4 DEF Published
  <1>8. \A q \in Requests : Published(q) => Published(q)'
    BY <1>5 DEF Published
  <1>9. \A q \in Requests \ {r} : Published(q)' => Published(q)
    BY <1>6 DEF Published
  <1> QED
    BY <1>3, <1>7, <1>8, <1>9

\* Every step keeps the requests and their types in order.
LEMMA RequestStep ==
    ASSUME RequestInv, [PipelineNext]_pipelineVars PROVE RequestInv'
  <1> USE DEF RequestInv
  <1>0. UNCHANGED log => \A q \in Requests : Published(q)' = Published(q)
    BY DEF Published
  <1>1. CASE PayoutEffect /\ UNCHANGED <<pc, frozen>>
    <2>1. ApplyTypes'
      BY <1>1, PayoutAssumption DEF PayoutEffect, ApplyTypes, Fault
    <2>2. ASSUME NEW q \in Requests PROVE RequestOk(q)'
      <3>1. RequestOk(q) /\ UNCHANGED <<pc, req>> /\ Published(q)' = Published(q)
            /\ (status'[q] = "absent" <=> status[q] = "absent")
        BY <1>0, <1>1 DEF PayoutEffect
      <3> QED
        BY <3>1 DEF RequestOk
    <2> QED
      BY <2>1, <2>2
  <1>2. CASE Elsewhere
    BY <1>0, <1>2 DEF Elsewhere, ApplyTypes, RequestOk
  <1>3. ASSUME NEW r \in Requests, NEW in \in A!Inputs, Arrives(r, in)
        PROVE  RequestInv'
    <2>1. ApplyTypes'
      BY <1>3 DEF Arrives, ApplyTypes, A!Steps
    <2>2. ASSUME NEW q \in Requests PROVE RequestOk(q)'
      BY <1>0, <1>3 DEF Arrives, ApplyTypes, RequestOk
    <2> QED
      BY <2>1, <2>2
  <1>4. ASSUME NEW r \in Requests, MovesOn(r) PROVE RequestInv'
    <2>1. ApplyTypes'
      BY <1>4 DEF MovesOn, ApplyTypes
    <2>2. ASSUME NEW q \in Requests PROVE RequestOk(q)'
      BY <1>0, <1>4 DEF MovesOn, ApplyTypes, RequestOk
    <2> QED
      BY <2>1, <2>2
  <1>5. ASSUME NEW r \in Requests, NEW p \in Partitions, Appends(r, p)
        PROVE  RequestInv'
    <2>1. ApplyTypes'
      <3>1. pc' \in [Requests -> A!Steps]
        BY <1>5 DEF Appends, ApplyTypes, A!Steps
      <3>2. log' \in [Partitions -> Seq(Requests)]
        BY <1>5 DEF Appends, ApplyTypes
      <3>3. faults' \in 0..MaxFaults
        BY <1>5, PayoutAssumption DEF Appends, ApplyTypes, Fault
      <3> QED
        BY <1>5, <3>1, <3>2, <3>3 DEF Appends, ApplyTypes
    <2>2. ASSUME NEW q \in Requests PROVE RequestOk(q)'
      <3>1. /\ Published(r)' /\ (Published(q) => Published(q)')
            /\ pc' = pc \/ pc' = [pc EXCEPT ![r] = "commit"]
            /\ UNCHANGED <<req, status>> /\ pc[r] = "publish"
            /\ RequestOk(q)
        BY <1>5, AppendPublishes DEF Appends
      <3> QED
        BY <3>1 DEF ApplyTypes, RequestOk
    <2> QED
      BY <2>1, <2>2
  <1>6. ASSUME NEW r \in Requests, Commits(r) PROVE RequestInv'
    <2>1. /\ req[r] \in A!Inputs /\ req[r].amount \in Int
          /\ A!walletOf(r) \in Wallets
      BY <1>6, PayoutAssumption DEF Commits, RequestOk, A!Inputs, A!walletOf, Wallets
    <2>2. ApplyTypes'
      <3>1. pc' \in [Requests -> A!Steps]
        BY <1>6 DEF Commits, ApplyTypes, A!Steps
      <3>2. frozen' \in [Wallets -> Int]
        <4>1. frozen \in [Wallets -> Int] /\ frozen[A!walletOf(r)] + req[r].amount \in Int
          BY <2>1 DEF ApplyTypes
        <4> QED
          BY <1>6, <2>1, <4>1 DEF Commits
      <3>3. status' \in [Requests -> {"absent", "processing", "success", "corrected"}]
        BY <1>6 DEF Commits, ApplyTypes
      <3> QED
        BY <1>6, <3>1, <3>2, <3>3 DEF Commits, ApplyTypes
    <2>3. ASSUME NEW q \in Requests PROVE RequestOk(q)'
      BY <1>0, <1>6, <2>1 DEF Commits, ApplyTypes, RequestOk
    <2> QED
      BY <2>2, <2>3
  <1> QED
    BY <1>1, <1>2, <1>3, <1>4, <1>5, <1>6, PipelineSteps

-----------------------------------------------------------------------------
(* The number of events. *)

\* At the start there is none.
LEMMA EventsInit == PipelineInit => EventsFit
  <1> SUFFICES ASSUME PipelineInit PROVE EventsFit
    OBVIOUS
  <1>1. IsFiniteSet(SentRequests)
    BY PipelineAssumption, FS_Subset DEF SentRequests
  <1>2. Cardinality(SentRequests) \in Nat
    BY <1>1, FS_CardinalityType
  <1> QED
    BY <1>2 DEF PipelineInit, A!Init, EventsFit

\* A second event of a request is a fault.
LEMMA EventsStep ==
    ASSUME RequestInv, EventsFit, [PipelineNext]_pipelineVars PROVE EventsFit'
  <1> USE DEF RequestInv, ApplyTypes
  <1>1. IsFiniteSet(SentRequests) /\ Cardinality(SentRequests) \in Nat
    BY PipelineAssumption, FS_Subset, FS_CardinalityType DEF SentRequests
  <1>2. ASSUME UNCHANGED log, faults' = faults \/ Fault PROVE EventsFit'
    <2>1. SentRequests' = SentRequests
      BY <1>2 DEF SentRequests, Published
    <2>2. \A p \in Partitions : Len(log[p]) \in Nat
      OBVIOUS
    <2>3. faults \in Nat /\ faults' \in Nat /\ faults <= faults'
      BY <1>2, PayoutAssumption DEF Fault
    <2> QED
      BY <1>1, <1>2, <2>1, <2>2, <2>3 DEF EventsFit
  <1>3. ASSUME NEW r \in Requests, NEW p \in Partitions, Appends(r, p)
        PROVE  EventsFit'
    <2>1. /\ Published(r)'
          /\ \A q \in Requests : Published(q) => Published(q)'
          /\ \A q \in Requests \ {r} : Published(q)' => Published(q)
          /\ Len(log'[p]) = Len(log[p]) + 1
          /\ \A s \in Partitions \ {p} : log'[s] = log[s]
          /\ \A s \in Partitions : Len(log[s]) \in Nat
      BY <1>3, AppendPublishes
    <2>2. SentRequests' = SentRequests \cup {r}
      BY <2>1 DEF SentRequests
    <2>3. Cardinality(SentRequests') + faults'
            = Cardinality(SentRequests) + faults + 1
      <3>1. CASE Published(r)
        <4>1. SentRequests' = SentRequests
          BY <2>2, <3>1 DEF SentRequests
        <4>2. faults' = faults + 1
          BY <1>3, <3>1 DEF Appends, Fault
        <4> QED
          BY <1>1, <4>1, <4>2
      <3>2. CASE ~Published(r)
        <4>1. r \notin SentRequests /\ faults' = faults
          BY <1>3, <3>2 DEF SentRequests, Appends
        <4>2. Cardinality(SentRequests \cup {r}) = Cardinality(SentRequests) + 1
          BY <1>1, <4>1, FS_AddElement
        <4> QED
          BY <1>1, <2>2, <4>1, <4>2
      <3> QED
        BY <3>1, <3>2
    <2>4. ASSUME NEW s \in Partitions
          PROVE  /\ Len(log'[s]) <= Len(log[s]) + 1
                 /\ Len(log[s]) \in Nat /\ Len(log'[s]) \in Nat
      <3>1. CASE s = p
        BY <2>1, <3>1
      <3>2. CASE s # p
        BY <2>1, <3>2
      <3> QED
        BY <3>1, <3>2
    <2>5. Cardinality(SentRequests') + faults' \in Nat
      BY <1>1, <2>3, PayoutAssumption
    <2>6. ASSUME NEW s \in Partitions
          PROVE  Len(log'[s]) <= Cardinality(SentRequests') + faults'
      <3>1. Len(log[s]) <= Cardinality(SentRequests) + faults
        BY DEF EventsFit
      <3>2. Cardinality(SentRequests) + faults \in Nat
        BY <1>1, PayoutAssumption
      <3> QED
        BY <2>3, <2>4, <3>1, <3>2
    <2> QED
      BY <2>6 DEF EventsFit
  <1> QED
    BY <1>2, <1>3, PipelineSteps
    DEF PayoutEffect, Elsewhere, Arrives, MovesOn, Commits

-----------------------------------------------------------------------------
(* The frozen balance. *)

\* The sums of WithdrawApply are those of SumProofs.
LEMMA AmountIsSum ==
    ASSUME NEW S
    PROVE  A!AmountOf(S) = SumFunctionOnSet([r \in S |-> req[r].amount], S)
  BY DEF A!AmountOf, A!SumFunction, A!SumFunctionOnSet, A!FoldFunctionOnSet,
         A!MapThenFoldSet, SumFunctionOnSet, FoldFunctionOnSet, MapThenFoldSet

\* At the start nothing is frozen, and nothing is recorded.
LEMMA FrozenInit == PipelineInit => FrozenIsSum
  <1> SUFFICES ASSUME PipelineInit, NEW w \in Wallets
               PROVE  frozen[w] = A!AmountOf(A!Committed(w))
    BY DEF FrozenIsSum
  <1>1. A!Committed(w) = {}
    BY DEF PipelineInit, A!Init, A!Committed
  <1>2. A!AmountOf({}) = 0
    BY AmountIsSum, SumOfNone
  <1>3. frozen[w] = 0
    BY DEF PipelineInit, A!Init, A!Wallets, Wallets
  <1> QED
    BY <1>1, <1>2, <1>3

\* Steps that leave the frozen balances and the recorded requests alone.
LEMMA FrozenUntouched ==
    ASSUME FrozenIsSum, UNCHANGED frozen,
           \A r \in Requests : status'[r] = "absent" <=> status[r] = "absent",
           \A r \in Requests : status[r] # "absent" => req'[r] = req[r]
    PROVE  FrozenIsSum'
  <1> SUFFICES ASSUME NEW w \in Wallets
               PROVE  frozen'[w] = A!AmountOf(A!Committed(w))'
    BY DEF FrozenIsSum
  <1>1. A!Committed(w)' = A!Committed(w)
    BY DEF A!Committed, A!walletOf
  <1>2. [r \in A!Committed(w)' |-> req'[r].amount]
          = [r \in A!Committed(w) |-> req[r].amount]
    BY <1>1 DEF A!Committed
  <1>3. A!AmountOf(A!Committed(w))' = A!AmountOf(A!Committed(w))
    BY <1>2 DEF A!AmountOf
  <1> QED
    BY <1>3 DEF FrozenIsSum

\* A commit adds its amount to what is frozen, and its record to the wallet's.
LEMMA FrozenCommit ==
    ASSUME RequestInv, FrozenIsSum, NEW r \in Requests, Commits(r)
    PROVE  FrozenIsSum'
  <1> DEFINE v == A!walletOf(r)
             a == req[r].amount
  <1>1. /\ frozen' = [frozen EXCEPT ![v] = frozen[v] + a]
        /\ status' = [status EXCEPT ![r] = "processing"]
        /\ UNCHANGED req
    BY DEF Commits
  <1>2. ApplyTypes /\ status[r] = "absent" /\ req[r] \in A!Inputs
    BY DEF Commits, RequestInv, RequestOk
  <1>3. v \in Wallets /\ a \in Int
    BY <1>2, PayoutAssumption DEF A!walletOf, A!Inputs, Wallets
  <1>4. ASSUME NEW w \in Wallets, w # v
        PROVE  frozen'[w] = A!AmountOf(A!Committed(w))'
    <2>1. A!Committed(w)' = A!Committed(w)
      BY <1>1, <1>2, <1>4 DEF A!Committed, A!walletOf, ApplyTypes
    <2>2. frozen'[w] = frozen[w]
      BY <1>1, <1>2, <1>4 DEF ApplyTypes
    <2>3. [q \in A!Committed(w)' |-> req'[q].amount]
            = [q \in A!Committed(w) |-> req[q].amount]
      BY <1>1, <2>1
    <2>4. A!AmountOf(A!Committed(w))' = A!AmountOf(A!Committed(w))
      BY <2>3 DEF A!AmountOf
    <2> QED
      BY <2>2, <2>4 DEF FrozenIsSum
  <1>5. ASSUME NEW w \in Wallets, w = v
        PROVE  frozen'[w] = A!AmountOf(A!Committed(w))'
    <2> DEFINE C == A!Committed(w)
               D == C \cup {r}
               f == [q \in D |-> req[q].amount]
    <2>1. A!Committed(w)' = D
      BY <1>1, <1>2, <1>5 DEF A!Committed, A!walletOf, ApplyTypes
    <2>2. frozen'[w] = frozen[w] + a /\ frozen[w] \in Int
      BY <1>1, <1>2, <1>5 DEF ApplyTypes
    <2>3. frozen[w] = SumFunctionOnSet([q \in C |-> req[q].amount], C)
      BY AmountIsSum DEF FrozenIsSum
    <2>4. IsFiniteSet(C)
      BY PipelineAssumption, FS_Subset DEF A!Committed
    <2>5. r \notin C /\ \A q \in C : req[q].amount \in Int
      BY <1>2, PayoutAssumption DEF A!Committed, A!Inputs, RequestInv, RequestOk
    <2>6. SumFunctionOnSet(f, C) = frozen[w]
      <3>1. \A q \in C : f[q] = [x \in C |-> req[x].amount][q]
        OBVIOUS
      <3> HIDE DEF f, C
      <3> QED
        BY <2>3, <2>4, <3>1, SumOfSame
    <2>7. SumFunctionOnSet(f, D) = SumFunctionOnSet(f, C) + a
      <3>1. (\A q \in C : f[q] \in Int) /\ f[r] = a
        BY <2>5
      <3> HIDE DEF f, C, a
      <3> QED
        BY <1>3, <2>4, <2>5, <3>1, SumOfMore
    <2>8. A!AmountOf(A!Committed(w))' = SumFunctionOnSet(f, D)
      <3>1. [q \in A!Committed(w)' |-> req'[q].amount] = f
        BY <1>1, <2>1
      <3>2. A!AmountOf(A!Committed(w))' = A!SumFunction(f)
        BY <3>1 DEF A!AmountOf
      <3>3. A!SumFunction(f) = SumFunctionOnSet(f, D)
        BY DEF A!SumFunction, A!SumFunctionOnSet, A!FoldFunctionOnSet,
               A!MapThenFoldSet, SumFunctionOnSet, FoldFunctionOnSet,
               MapThenFoldSet
      <3> QED
        BY <3>2, <3>3
    <2> HIDE DEF C, D, f, a
    <2> QED
      BY <2>2, <2>6, <2>7, <2>8
  <1> QED
    BY <1>4, <1>5 DEF FrozenIsSum

\* Only a commit freezes, and only a commit records.
LEMMA FrozenStep ==
    ASSUME RequestInv, FrozenIsSum, [PipelineNext]_pipelineVars
    PROVE  FrozenIsSum'
  <1>1. CASE PayoutEffect /\ UNCHANGED <<pc, frozen>>
    BY <1>1, FrozenUntouched DEF PayoutEffect
  <1>2. CASE Elsewhere
    BY <1>2, FrozenUntouched DEF Elsewhere
  <1>3. ASSUME NEW r \in Requests,
               \/ \E in \in A!Inputs : Arrives(r, in)
               \/ MovesOn(r)
               \/ \E p \in Partitions : Appends(r, p)
        PROVE  FrozenIsSum'
    <2>1. UNCHANGED <<status, frozen>>
      BY <1>3 DEF Arrives, MovesOn, Appends
    <2>2. ASSUME NEW q \in Requests, status[q] # "absent" PROVE req'[q] = req[q]
      BY <1>3, <2>2 DEF Arrives, MovesOn, Appends, RequestInv, RequestOk, ApplyTypes
    <2> QED
      BY <2>1, <2>2, FrozenUntouched
  <1>4. ASSUME NEW r \in Requests, Commits(r) PROVE FrozenIsSum'
    BY <1>4, FrozenCommit
  <1> QED
    BY <1>1, <1>2, <1>3, <1>4, PipelineSteps DEF RequestInv

-----------------------------------------------------------------------------
(* The refinement. *)

\* The inductive invariant of the pipeline, on the side of WithdrawApply.
PipelineInv == RequestInv /\ EventsFit /\ FrozenIsSum

\* It always holds.
LEMMA PipelineInvAlways == PipelineSpec => []PipelineInv
  <1>1. PipelineInit => PipelineInv
    BY RequestInit, EventsInit, FrozenInit DEF PipelineInv
  <1>2. PipelineInv /\ [PipelineNext]_pipelineVars => PipelineInv'
    BY RequestStep, EventsStep, FrozenStep DEF PipelineInv
  <1> QED
    BY <1>1, <1>2, PTL DEF PipelineSpec

\* A step of WithdrawApply is a step of the environment of WithdrawPayout, or
\* changes nothing the pay-out sees.
LEMMA EnvironmentStep ==
    ASSUME RequestInv, EventsFit, A!Next, UNCHANGED payoutOnly
    PROVE  [Next]_vars
  <1> USE DEF RequestInv, ApplyTypes, payoutOnly, payoutVars, recordVars
  <1>1. CASE Elsewhere
    BY <1>1 DEF Elsewhere, vars
  <1>2. ASSUME NEW r \in Requests, NEW in \in A!Inputs, Arrives(r, in)
        PROVE  [Next]_vars
    <2>0. in.amount \in Int /\ in.fee \in Int
      BY PayoutAssumption DEF A!Inputs
    <2>1. /\ in.amount > 0 /\ in.fee \in 0..in.amount
          /\ req[r] = NoInput /\ req' = [req EXCEPT ![r] = in]
      BY <1>2, <2>0 DEF Arrives, RequestOk
    <2>2. Receive(r, in)
      BY <1>2, <2>1 DEF Arrives, Receive
    <2> QED
      BY <2>2 DEF A!Inputs, Apply, Next
  <1>3. ASSUME NEW r \in Requests, MovesOn(r) PROVE [Next]_vars
    BY <1>3 DEF MovesOn, vars
  <1>4. ASSUME NEW r \in Requests, NEW p \in Partitions, Appends(r, p)
        PROVE  [Next]_vars
    <2>1. req[r] \in A!Inputs /\ req[r] # NoInput /\ status[r] = "absent"
      BY <1>4, PipelineAssumption DEF Appends, RequestOk, A!Inputs
    <2>2. Len(log[p]) < MaxEvents
      <3>1. Len(log[p]) <= Cardinality(SentRequests) + faults /\ Len(log[p]) \in Nat
        BY DEF EventsFit
      <3>2. /\ IsFiniteSet(SentRequests) /\ Cardinality(SentRequests) \in Nat
            /\ Cardinality(SentRequests) <= Cardinality(Requests)
            /\ Cardinality(Requests) \in Nat
        BY PipelineAssumption, FS_Subset, FS_CardinalityType DEF SentRequests
      <3>3. CASE Published(r)
        <4>1. faults < MaxFaults
          BY <1>4, <3>3 DEF Appends, Fault
        <4> QED
          BY <3>1, <3>2, <4>1, PipelineAssumption, PayoutAssumption
      <3>4. CASE ~Published(r)
        <4>1. SentRequests \subseteq Requests \ {r}
          BY <3>4 DEF SentRequests
        <4>2. Cardinality(SentRequests) + 1 <= Cardinality(Requests)
          BY <4>1, PipelineAssumption, AtLeastOneLess
        <4> QED
          BY <3>1, <3>2, <4>2, PipelineAssumption, PayoutAssumption
      <3> QED
        BY <3>3, <3>4
    <2>3. Publish(r, p)
      BY <1>4, <2>1, <2>2 DEF Appends, Publish
    <2> QED
      BY <2>3 DEF Apply, Next
  <1>5. ASSUME NEW r \in Requests, Commits(r) PROVE [Next]_vars
    <2>1. CommitRecord(r)
      BY <1>5 DEF Commits, RequestOk, CommitRecord
    <2> QED
      BY <2>1 DEF Apply, Next
  <1> QED
    BY <1>1, <1>2, <1>3, <1>4, <1>5, ApplySteps

\* The two services together do what WithdrawPayout says, whatever it assumed
\* of whoever applies for withdrawals: events come before their rows or without
\* one, and a second time only for a fault.
THEOREM PipelineImplementsPayout == PipelineSpec => ImplementsPayout
  <1>1. PipelineInit => Init
    BY DEF PipelineInit, A!Init, Init
  <1>2. PipelineInv /\ [PipelineNext]_pipelineVars => [Next]_vars
    BY EnvironmentStep DEF PipelineInv, PipelineNext, Next, pipelineVars
  <1> QED
    BY <1>1, <1>2, PipelineInvAlways, PTL DEF PipelineSpec, ImplementsPayout, Spec

\* A withdrawal of the pipeline lives the life of WithdrawLifecycle.
THEOREM PipelineImplementsLifecycle == PipelineSpec => ImplementsLifecycle
  BY PipelineImplementsPayout, PayoutImplementsLifecycle DEF ImplementsPayout

\* With one worker in the pipeline, no transaction is sent over a checkpoint.
THEOREM PipelineSendsUnchecked ==
    ASSUME NEW w, Workers = {w} PROVE PipelineSpec => NoSendOverCheckpoint
  BY PipelineImplementsPayout, OneWorkerSendsUnchecked DEF ImplementsPayout

-----------------------------------------------------------------------------
(* What is paid is frozen. *)

\* A withdrawal that was sent has its row.
PaidIsRecorded == \A r \in Requests : broadcasts[r] > 0 => status[r] # "absent"

\* Only a worker that saw the row sends, and a row stays.
LEMMA PaidStep ==
    ASSUME PayoutInv, PaidIsRecorded, [Next]_vars PROVE PaidIsRecorded'
  <1> SUFFICES ASSUME NEW r \in Requests, broadcasts'[r] > 0
               PROVE  status'[r] # "absent"
    BY DEF PaidIsRecorded
  <1>1. status[r] # "absent" => status'[r] # "absent"
    BY RecordsGrow DEF PayoutInv
  <1>2. CASE broadcasts'[r] = broadcasts[r]
    BY <1>1, <1>2 DEF PaidIsRecorded
  <1>3. CASE broadcasts'[r] # broadcasts[r]
    <2>1. PICK w \in Workers : ProcessApplied(w) /\ UNCHANGED log
      BY <1>3
      DEF Next, PayoutNext, Apply, ConsumerLoop, Crash, ExpireCheckpoint,
          CorrectByHand, Receive, Publish, CommitRecord, vars, payoutVars
    <2>2. LoopEffect(w) /\ RecordEffect(w)
      BY <2>1, HandlerLoop, HandlerRecords DEF PayoutInv
    <2>3. step[w] = "send" /\ record(w) = r
      BY <1>3, <2>2
      DEF RecordEffect, NodeAccepts, PayoutInv, ConsumerInv, TypeInv, PayoutTypes
    <2> QED
      BY <1>1, <2>3 DEF PayoutInv, HandlerInv, HandlerOk
  <1> QED
    BY <1>2, <1>3

\* What is sent is recorded, in every behaviour of WithdrawPayout.
LEMMA PaidAlways == Spec => []PaidIsRecorded
  <1>1. Init => PaidIsRecorded
    BY DEF Init, PayoutInit, PaidIsRecorded
  <1> QED
    BY <1>1, PaidStep, InvAlways, PTL DEF Spec

\* Nothing leaves the hot wallet that is not frozen in ucenter: for every
\* wallet, the amounts of the withdrawals that the node was asked to pay are no
\* more than its frozen balance, whatever fails in either service.
THEOREM PaidFrozen == PipelineSpec => []PaidIsFrozen
  <1>1. PipelineInv /\ PaidIsRecorded => PaidIsFrozen
    <2> SUFFICES ASSUME PipelineInv, PaidIsRecorded, NEW w \in Wallets
                 PROVE  A!AmountOf(Paid(w)) <= frozen[w]
      BY DEF PaidIsFrozen
    <2> DEFINE C == A!Committed(w)
               S == Paid(w)
               f == [r \in C |-> req[r].amount]
               g == [r \in S |-> req[r].amount]
    <2>1. S \subseteq C
      BY DEF Paid, PaidIsRecorded, A!Committed
    <2>2. IsFiniteSet(C) /\ IsFiniteSet(S)
      BY <2>1, PipelineAssumption, FS_Subset DEF A!Committed
    <2>3. \A r \in C : f[r] \in Nat
      <3>1. ASSUME NEW r \in C PROVE req[r].amount \in Nat
        <4>1. r \in Requests /\ RequestOk(r) /\ status[r] # "absent"
          BY DEF A!Committed, PipelineInv, RequestInv
        <4>2. req[r] \in A!Inputs /\ req[r] # NoInput
          BY <4>1, PipelineAssumption DEF RequestOk, A!Inputs
        <4>3. req[r].amount > 0 /\ req[r].amount \in Int
          BY <4>1, <4>2, PayoutAssumption DEF RequestOk, A!Inputs
        <4> QED
          BY <4>3
      <3> QED
        BY <3>1
    <2>4. \A r \in S : g[r] = f[r]
      BY <2>1
    <2>5. frozen[w] = SumFunctionOnSet(f, C) /\ A!AmountOf(S) = SumFunctionOnSet(g, S)
      BY AmountIsSum DEF PipelineInv, FrozenIsSum
    <2> HIDE DEF C, S, f, g
    <2>6. SumFunctionOnSet(g, S) = SumFunctionOnSet(f, S)
      BY <2>2, <2>4, SumOfSame
    <2>7. SumFunctionOnSet(f, S) <= SumFunctionOnSet(f, C)
      BY <2>1, <2>2, <2>3, SumOfSubset
    <2> QED
      BY <2>5, <2>6, <2>7 DEF S
  <1> QED
    BY <1>1, PipelineInvAlways, PipelineImplementsPayout, PaidAlways, PTL
    DEF ImplementsPayout
=============================================================================
